--------------------------- MODULE KeyspaceProofs ---------------------------
(***************************************************************************)
(* TLAPS proofs about Keyspace, for every set of keys and every value of   *)
(* the other constants: the counters, the notifications of WATCH, and the  *)
(* memory.                                                                 *)
(*                                                                         *)
(* Invariants and relations are stated of records: the operators of        *)
(* Keyspace compose, so each proof is a lemma per operator (what is        *)
(* consistent stays consistent, what is told stays told) and one case per  *)
(* action.                                                                 *)
(***************************************************************************)
EXTENDS Keyspace, Induction

-----------------------------------------------------------------------------
(* The counters.                                                           *)

OfType(c, t) == {k \in Linked(c) : c.type[k] = t}

Consistent(c) ==
    /\ c \in CoreType
    /\ c.hot \cap c.cold = {}
    /\ c.layout = "flat" => c.cold = {} /\ c.hot_nkeys = 0 /\ c.cold_nkeys = 0
    /\ c.layout = "hot_cold" => /\ c.hot_nkeys = Cardinality(c.hot)
                                /\ c.cold_nkeys = Cardinality(c.cold)
    /\ c.nkeys = Cardinality(Linked(c))
    /\ HasTtl(c) \subseteq Linked(c)
    /\ c.keys_with_ttl = Cardinality(HasTtl(c))
    /\ \A t \in AllTypes : c.type_nkeys[t] = Cardinality(OfType(c, t))
    /\ c.pinned \subseteq Linked(c)
    /\ Cardinality(c.pinned) <= c.pinned_keys

\* A saturating subtraction yields a natural number whatever it subtracts.
LEMMA SaturateType == \A n : Saturate(n) \in Nat
BY DEF Saturate

\* Sets of keys are finite, and removing a part subtracts its cardinality.
LEMMA KeySets ==
    ASSUME NEW S \in SUBSET Keys
    PROVE  /\ IsFiniteSet(S) /\ Cardinality(S) \in Nat
           /\ \A T : /\ Cardinality(S \cap T) \in Nat
                     /\ Cardinality(T \cap S) = Cardinality(S \cap T)
                     /\ Cardinality(S \ T) = Saturate(Cardinality(S) - Cardinality(S \cap T))
           /\ \A k : /\ k \in S => Cardinality(S \ {k}) = Saturate(Cardinality(S) - 1)
                     /\ k \in S => Cardinality(S) >= 1
                     /\ k \notin S => S \ {k} = S
                     /\ k \notin S => Cardinality(S \cup {k}) = Cardinality(S) + 1
                     /\ k \in S => S \cup {k} = S
<1>1. IsFiniteSet(S) /\ Cardinality(S) \in Nat
  BY KeysAssumption, FS_Subset, FS_CardinalityType
<1>2. ASSUME NEW T
      PROVE  /\ Cardinality(S \cap T) \in Nat
             /\ Cardinality(T \cap S) = Cardinality(S \cap T)
             /\ Cardinality(S \ T) = Saturate(Cardinality(S) - Cardinality(S \cap T))
  <2>1. IsFiniteSet(S \cap T) /\ Cardinality(S \cap T) <= Cardinality(S)
    BY <1>1, FS_Intersection
  <2>2. Cardinality(S \cap T) \in Nat
    BY <2>1, FS_CardinalityType
  <2>3. Cardinality(S \ T) = Cardinality(S) - Cardinality(S \cap T)
    BY <1>1, FS_Difference
  <2>4. T \cap S = S \cap T
    OBVIOUS
  <2> QED BY <1>1, <2>1, <2>2, <2>3, <2>4 DEF Saturate
<1>3. ASSUME NEW k
      PROVE  /\ k \in S => Cardinality(S \ {k}) = Saturate(Cardinality(S) - 1)
             /\ k \in S => Cardinality(S) >= 1
             /\ k \notin S => S \ {k} = S
             /\ k \notin S => Cardinality(S \cup {k}) = Cardinality(S) + 1
             /\ k \in S => S \cup {k} = S
  <2>1. Cardinality(S \ {k}) = IF k \in S THEN Cardinality(S) - 1 ELSE Cardinality(S)
    BY <1>1, FS_RemoveElement
  <2>2. Cardinality(S \cup {k}) = IF k \in S THEN Cardinality(S) ELSE Cardinality(S) + 1
    BY <1>1, FS_AddElement
  <2>3. k \in S => Cardinality(S) >= 1
    BY <1>1, FS_EmptySet
  <2> QED BY <1>1, <2>1, <2>2, <2>3 DEF Saturate
<1> QED BY <1>1, <1>2, <1>3

LEMMA CardinalityWithout ==
    ASSUME NEW S \in SUBSET Keys, NEW T
    PROVE  Cardinality(S \ T) = Saturate(Cardinality(S) - Cardinality(T \cap S))
<1>1. T \cap S = S \cap T
  OBVIOUS
<1>2. Cardinality(S \ T) = Saturate(Cardinality(S) - Cardinality(S \cap T))
  BY KeySets
<1> QED BY <1>1, <1>2

\* The fields FreeEntries leaves, read off the record.
LEMMA FreeFields ==
    ASSUME NEW c \in CoreType, NEW F \in SUBSET Keys
    PROVE  LET d == FreeEntries(c, F) IN
           /\ d \in CoreType
           /\ d.hot = c.hot \ F /\ d.cold = c.cold \ F /\ d.pinned = c.pinned \ F
           /\ d.layout = c.layout
           /\ Linked(d) = Linked(c) \ F
           /\ HasTtl(d) = HasTtl(c) \ F
           /\ \A k \in Keys \ F : d.type[k] = c.type[k]
           /\ d.nkeys = Saturate(c.nkeys - Cardinality(F))
           /\ d.keys_with_ttl = Saturate(c.keys_with_ttl - Cardinality(F \cap HasTtl(c)))
           /\ d.pinned_keys = Saturate(c.pinned_keys - Cardinality(F \cap c.pinned))
           /\ d.hot_nkeys = IF c.layout = "hot_cold"
                            THEN Saturate(c.hot_nkeys - Cardinality(F \cap c.hot))
                            ELSE c.hot_nkeys
           /\ d.cold_nkeys = IF c.layout = "hot_cold"
                             THEN Saturate(c.cold_nkeys - Cardinality(F \cap c.cold))
                             ELSE c.cold_nkeys
           /\ \A t \in AllTypes : d.type_nkeys[t] =
                 Saturate(c.type_nkeys[t] - Cardinality({k \in F : c.type[k] = t}))
<1> DEFINE x == DiscountKeys(c, F)
           y == DiscountBytes(x, F)
           z == Unlink(y, F)
           d == FreeEntries(c, F)
<1>1. /\ x \in CoreType
      /\ x.hot = c.hot /\ x.cold = c.cold /\ x.pinned = c.pinned
      /\ x.expire_at = c.expire_at /\ x.type = c.type
      /\ x.layout = c.layout /\ x.type_nkeys = c.type_nkeys
  BY SaturateType DEF DiscountKeys, CoreType
<1>2. /\ x.nkeys = Saturate(c.nkeys - Cardinality(F))
      /\ x.keys_with_ttl = Saturate(c.keys_with_ttl - Cardinality(F \cap HasTtl(c)))
      /\ x.pinned_keys = Saturate(c.pinned_keys - Cardinality(F \cap c.pinned))
  BY DEF DiscountKeys, CoreType
<1>3. /\ x.hot_nkeys = IF c.layout = "hot_cold"
                       THEN Saturate(c.hot_nkeys - Cardinality(F \cap c.hot))
                       ELSE c.hot_nkeys
      /\ x.cold_nkeys = IF c.layout = "hot_cold"
                        THEN Saturate(c.cold_nkeys - Cardinality(F \cap c.cold))
                        ELSE c.cold_nkeys
  BY DEF DiscountKeys, CoreType
<1> HIDE DEF x
<1>4. /\ y \in CoreType
      /\ y.hot = x.hot /\ y.cold = x.cold /\ y.pinned = x.pinned
      /\ y.expire_at = x.expire_at /\ y.type = x.type /\ y.layout = x.layout
      /\ y.nkeys = x.nkeys /\ y.keys_with_ttl = x.keys_with_ttl
      /\ y.pinned_keys = x.pinned_keys
      /\ y.hot_nkeys = x.hot_nkeys /\ y.cold_nkeys = x.cold_nkeys
      /\ y.type_nkeys = [t \in AllTypes |->
            Saturate(x.type_nkeys[t] - Cardinality({k \in F : x.type[k] = t}))]
  BY <1>1, SaturateType DEF DiscountBytes, CoreType
<1> HIDE DEF y
<1>5. /\ z \in CoreType
      /\ z.hot = y.hot \ F /\ z.cold = y.cold \ F /\ z.pinned = y.pinned \ F
      /\ z.expire_at = [k \in Keys |-> IF k \in F THEN 0 ELSE y.expire_at[k]]
      /\ z.type = [k \in Keys |-> IF k \in F THEN "string" ELSE y.type[k]]
      /\ z.layout = y.layout /\ z.nkeys = y.nkeys
      /\ z.keys_with_ttl = y.keys_with_ttl /\ z.pinned_keys = y.pinned_keys
      /\ z.hot_nkeys = y.hot_nkeys /\ z.cold_nkeys = y.cold_nkeys
      /\ z.type_nkeys = y.type_nkeys
  BY <1>4 DEF Unlink, CoreType, AllTypes
<1> HIDE DEF z
<1>6. /\ d \in CoreType
      /\ d.hot = z.hot /\ d.cold = z.cold /\ d.pinned = z.pinned
      /\ d.expire_at = z.expire_at /\ d.type = z.type /\ d.layout = z.layout
      /\ d.nkeys = z.nkeys /\ d.keys_with_ttl = z.keys_with_ttl
      /\ d.pinned_keys = z.pinned_keys
      /\ d.hot_nkeys = z.hot_nkeys /\ d.cold_nkeys = z.cold_nkeys
      /\ d.type_nkeys = z.type_nkeys
  <2>1. d = WatchTouch(z, F)
    BY DEF FreeEntries, z, y, x
  <2> HIDE DEF d
  <2>2. z \in CoreType /\ z.touched \cup F \in SUBSET Keys
    BY <1>5 DEF CoreType
  <2>3. d = [z EXCEPT !.touched = z.touched \cup F]
    BY <2>1 DEF WatchTouch
  <2>4. d \in CoreType
    BY <2>2, <2>3 DEF CoreType
  <2>5. /\ d.hot = z.hot /\ d.cold = z.cold /\ d.pinned = z.pinned
        /\ d.expire_at = z.expire_at /\ d.type = z.type /\ d.layout = z.layout
    BY <2>2, <2>3 DEF CoreType
  <2>6. /\ d.nkeys = z.nkeys /\ d.keys_with_ttl = z.keys_with_ttl
        /\ d.pinned_keys = z.pinned_keys
        /\ d.hot_nkeys = z.hot_nkeys /\ d.cold_nkeys = z.cold_nkeys
        /\ d.type_nkeys = z.type_nkeys
    BY <2>2, <2>3 DEF CoreType
  <2> QED BY <2>4, <2>5, <2>6
<1> HIDE DEF d
<1>7. Linked(d) = Linked(c) \ F
  BY <1>1, <1>4, <1>5, <1>6 DEF Linked
<1>8. HasTtl(d) = HasTtl(c) \ F
  BY <1>1, <1>4, <1>5, <1>6 DEF HasTtl
<1> QED BY <1>1, <1>2, <1>3, <1>4, <1>5, <1>6, <1>7, <1>8 DEF d

\* Freeing linked entries keeps the record consistent.
LEMMA FreeConsistent ==
    ASSUME NEW c, Consistent(c), NEW F \in SUBSET Linked(c)
    PROVE  /\ Consistent(FreeEntries(c, F))
           /\ Linked(FreeEntries(c, F)) = Linked(c) \ F
<1> DEFINE d == FreeEntries(c, F)
<1>1. c \in CoreType /\ Linked(c) \in SUBSET Keys /\ F \in SUBSET Keys
  BY DEF Consistent, CoreType, Linked
<1>2. /\ d \in CoreType
      /\ d.hot = c.hot \ F /\ d.cold = c.cold \ F /\ d.pinned = c.pinned \ F
      /\ d.layout = c.layout
      /\ Linked(d) = Linked(c) \ F
      /\ HasTtl(d) = HasTtl(c) \ F
      /\ \A k \in Keys \ F : d.type[k] = c.type[k]
      /\ d.nkeys = Saturate(c.nkeys - Cardinality(F))
      /\ d.keys_with_ttl = Saturate(c.keys_with_ttl - Cardinality(F \cap HasTtl(c)))
      /\ d.pinned_keys = Saturate(c.pinned_keys - Cardinality(F \cap c.pinned))
      /\ d.hot_nkeys = IF c.layout = "hot_cold"
                       THEN Saturate(c.hot_nkeys - Cardinality(F \cap c.hot))
                       ELSE c.hot_nkeys
      /\ d.cold_nkeys = IF c.layout = "hot_cold"
                        THEN Saturate(c.cold_nkeys - Cardinality(F \cap c.cold))
                        ELSE c.cold_nkeys
      /\ \A t \in AllTypes : d.type_nkeys[t] =
            Saturate(c.type_nkeys[t] - Cardinality({k \in F : c.type[k] = t}))
  BY <1>1, FreeFields, ZenonT(60)
<1> HIDE DEF d
<1>3. d.nkeys = Cardinality(Linked(d))
  <2>1. F \cap Linked(c) = F
    OBVIOUS
  <2>2. Cardinality(Linked(c) \ F)
           = Saturate(Cardinality(Linked(c)) - Cardinality(F \cap Linked(c)))
    BY <1>1, CardinalityWithout
  <2>3. c.nkeys = Cardinality(Linked(c))
    BY DEF Consistent
  <2> QED BY <1>2, <2>1, <2>2, <2>3
<1>4. d.layout = "hot_cold" => /\ d.hot_nkeys = Cardinality(d.hot)
                               /\ d.cold_nkeys = Cardinality(d.cold)
  <2>1. c.hot \in SUBSET Keys /\ c.cold \in SUBSET Keys
    BY <1>1 DEF CoreType
  <2>2. /\ Cardinality(c.hot \ F) = Saturate(Cardinality(c.hot) - Cardinality(F \cap c.hot))
        /\ Cardinality(c.cold \ F) = Saturate(Cardinality(c.cold) - Cardinality(F \cap c.cold))
    BY <2>1, CardinalityWithout
  <2>3. c.layout = "hot_cold" => /\ c.hot_nkeys = Cardinality(c.hot)
                                 /\ c.cold_nkeys = Cardinality(c.cold)
    BY DEF Consistent
  <2> QED BY <1>2, <2>2, <2>3
<1>5. d.keys_with_ttl = Cardinality(HasTtl(d))
  <2>1. HasTtl(c) \in SUBSET Keys
    BY DEF HasTtl
  <2>2. Cardinality(HasTtl(c) \ F)
           = Saturate(Cardinality(HasTtl(c)) - Cardinality(F \cap HasTtl(c)))
    BY <2>1, CardinalityWithout
  <2>3. c.keys_with_ttl = Cardinality(HasTtl(c))
    BY DEF Consistent
  <2> QED BY <1>2, <2>2, <2>3
<1>6. ASSUME NEW t \in AllTypes PROVE d.type_nkeys[t] = Cardinality(OfType(d, t))
  <2>1. OfType(d, t) = OfType(c, t) \ F
    BY <1>1, <1>2 DEF OfType
  <2>2. OfType(c, t) \cap F = {k \in F : c.type[k] = t}
    BY DEF OfType
  <2>3. OfType(c, t) \in SUBSET Keys
    BY <1>1 DEF OfType
  <2>4. c.type_nkeys[t] = Cardinality(OfType(c, t))
    BY DEF Consistent
  <2>5. Cardinality(OfType(c, t) \ F)
           = Saturate(Cardinality(OfType(c, t)) - Cardinality(OfType(c, t) \cap F))
    BY <2>3, KeySets
  <2> QED BY <1>2, <2>1, <2>2, <2>4, <2>5
<1>7. Cardinality(d.pinned) <= d.pinned_keys
  <2>1. c.pinned \in SUBSET Keys /\ c.pinned_keys \in Nat
    BY <1>1 DEF CoreType
  <2>2. /\ Cardinality(c.pinned \cap F) \in Nat
        /\ Cardinality(F \cap c.pinned) = Cardinality(c.pinned \cap F)
        /\ Cardinality(c.pinned \ F)
              = Saturate(Cardinality(c.pinned) - Cardinality(c.pinned \cap F))
        /\ Cardinality(c.pinned) \in Nat
    BY <2>1, KeySets
  <2>3. Cardinality(c.pinned) <= c.pinned_keys
    BY DEF Consistent
  <2> QED BY <1>2, <2>1, <2>2, <2>3 DEF Saturate
<1>8. /\ d.hot \cap d.cold = {}
      /\ d.layout = "flat" => d.cold = {} /\ d.hot_nkeys = 0 /\ d.cold_nkeys = 0
      /\ HasTtl(d) \subseteq Linked(d)
      /\ d.pinned \subseteq Linked(d)
  BY <1>2 DEF Consistent
<1> QED BY <1>2, <1>3, <1>4, <1>5, <1>6, <1>7, <1>8 DEF Consistent, d

\* Consistency only reads the tables, the TTLs, types and pins, and the
\* counters of keys.
LEMMA SameCounters ==
    ASSUME NEW c, Consistent(c), NEW d \in CoreType,
           d.hot = c.hot, d.cold = c.cold, d.pinned = c.pinned,
           d.expire_at = c.expire_at, d.type = c.type, d.layout = c.layout,
           d.nkeys = c.nkeys, d.hot_nkeys = c.hot_nkeys,
           d.cold_nkeys = c.cold_nkeys, d.keys_with_ttl = c.keys_with_ttl,
           d.pinned_keys = c.pinned_keys, d.type_nkeys = c.type_nkeys
    PROVE  Consistent(d) /\ Linked(d) = Linked(c)
BY DEF Consistent, Linked, HasTtl, OfType

LEMMA WatchTouchConsistent ==
    ASSUME NEW c, Consistent(c), NEW K \in SUBSET Keys
    PROVE  Consistent(WatchTouch(c, K)) /\ Linked(WatchTouch(c, K)) = Linked(c)
<1> DEFINE d == WatchTouch(c, K)
<1>1. c \in CoreType
  BY DEF Consistent
<1>2. /\ d \in CoreType
      /\ d.hot = c.hot /\ d.cold = c.cold /\ d.pinned = c.pinned
      /\ d.expire_at = c.expire_at /\ d.type = c.type /\ d.layout = c.layout
      /\ d.nkeys = c.nkeys /\ d.hot_nkeys = c.hot_nkeys
      /\ d.cold_nkeys = c.cold_nkeys /\ d.keys_with_ttl = c.keys_with_ttl
      /\ d.pinned_keys = c.pinned_keys /\ d.type_nkeys = c.type_nkeys
  BY <1>1 DEF WatchTouch, CoreType
<1> QED BY <1>2, SameCounters

LEMMA FindConsistent ==
    ASSUME NEW c, Consistent(c), NEW k \in Keys
    PROVE  Consistent(FindEntry(c, k))
<1>1. CASE k \in Linked(c) \cap Due(c)
  BY <1>1, FreeConsistent DEF FindEntry
<1>2. CASE k \notin Linked(c) \cap Due(c)
  BY <1>2 DEF FindEntry
<1> QED BY <1>1, <1>2

\* Giving a linked entry a deadline, or taking it away.
LEMMA SetExpireConsistent ==
    ASSUME NEW c, Consistent(c), NEW k \in Linked(c), NEW t \in Nat
    PROVE  /\ Consistent(SetExpireAt(c, k, t))
           /\ Linked(SetExpireAt(c, k, t)) = Linked(c)
<1> DEFINE x == ClearExpire(c, k)
           d == SetExpireAt(c, k, t)
<1>1. c \in CoreType /\ k \in Keys
  BY DEF Consistent, CoreType, Linked
<1>2. /\ x \in CoreType
      /\ x.hot = c.hot /\ x.cold = c.cold /\ x.pinned = c.pinned
      /\ x.type = c.type /\ x.layout = c.layout
      /\ x.nkeys = c.nkeys /\ x.hot_nkeys = c.hot_nkeys
      /\ x.cold_nkeys = c.cold_nkeys
      /\ x.pinned_keys = c.pinned_keys /\ x.type_nkeys = c.type_nkeys
      /\ x.expire_at = [c.expire_at EXCEPT ![k] = 0]
      /\ x.keys_with_ttl = IF k \in HasTtl(c) THEN Saturate(c.keys_with_ttl - 1)
                                              ELSE c.keys_with_ttl
  <2>1. CASE c.expire_at[k] = 0
    <3>1. x = c /\ k \notin HasTtl(c)
      BY <2>1 DEF ClearExpire, HasTtl
    <3>2. c.expire_at = [c.expire_at EXCEPT ![k] = 0]
      BY <1>1, <2>1 DEF CoreType
    <3> QED BY <1>1, <3>1, <3>2
  <2>2. CASE c.expire_at[k] # 0
    <3>1. k \in HasTtl(c)
      BY <1>1, <2>2 DEF HasTtl
    <3> QED BY <1>1, <2>2, <3>1, SaturateType DEF ClearExpire, CoreType
  <2> QED BY <2>1, <2>2
<1> HIDE DEF x
<1>3. HasTtl(x) = HasTtl(c) \ {k}
  BY <1>1, <1>2 DEF HasTtl, CoreType
<1>4. x.keys_with_ttl = Cardinality(HasTtl(x))
  <2>1. HasTtl(c) \in SUBSET Keys /\ c.keys_with_ttl = Cardinality(HasTtl(c))
    BY DEF HasTtl, Consistent
  <2>2. /\ k \in HasTtl(c) => Cardinality(HasTtl(c) \ {k}) = Saturate(Cardinality(HasTtl(c)) - 1)
        /\ k \notin HasTtl(c) => HasTtl(c) \ {k} = HasTtl(c)
    BY <2>1, KeySets
  <2> QED BY <1>2, <1>3, <2>1, <2>2
<1>5. CASE t = 0
  <2>1. d = x
    BY <1>5 DEF SetExpireAt, x
  <2>2. Linked(x) = Linked(c) /\ \A ty \in AllTypes : OfType(x, ty) = OfType(c, ty)
    BY <1>2 DEF Linked, OfType
  <2> QED BY <1>2, <1>3, <1>4, <2>1, <2>2 DEF Consistent
<1>6. CASE t # 0
  <2>1. /\ d \in CoreType
        /\ d.hot = x.hot /\ d.cold = x.cold /\ d.pinned = x.pinned
        /\ d.type = x.type /\ d.layout = x.layout
        /\ d.nkeys = x.nkeys /\ d.hot_nkeys = x.hot_nkeys
        /\ d.cold_nkeys = x.cold_nkeys
        /\ d.pinned_keys = x.pinned_keys /\ d.type_nkeys = x.type_nkeys
        /\ d.expire_at = [x.expire_at EXCEPT ![k] = t]
        /\ d.keys_with_ttl = x.keys_with_ttl + 1
    <3> DEFINE ea == [x.expire_at EXCEPT ![k] = t]
               kt == x.keys_with_ttl + 1
               es == x.expire_at_sum + t
    <3>1. d = [x EXCEPT !.expire_at = ea, !.keys_with_ttl = kt, !.expire_at_sum = es]
      BY <1>2, <1>6 DEF SetExpireAt, x, CoreType
    <3>2. ea \in [Keys -> Nat] /\ kt \in Nat /\ es \in Nat
      BY <1>1, <1>2 DEF CoreType
    <3> HIDE DEF ea, kt, es, d
    <3>3. d \in CoreType
      BY <1>2, <3>1, <3>2 DEF CoreType
    <3>4. /\ d.hot = x.hot /\ d.cold = x.cold /\ d.pinned = x.pinned
          /\ d.type = x.type /\ d.layout = x.layout
          /\ d.nkeys = x.nkeys /\ d.hot_nkeys = x.hot_nkeys
          /\ d.cold_nkeys = x.cold_nkeys
          /\ d.pinned_keys = x.pinned_keys /\ d.type_nkeys = x.type_nkeys
          /\ d.expire_at = ea /\ d.keys_with_ttl = kt
      BY <1>2, <3>1 DEF CoreType
    <3> QED BY <3>3, <3>4 DEF ea, kt
  <2> HIDE DEF d
  <2>2. HasTtl(d) = HasTtl(x) \cup {k}
    BY <1>1, <1>2, <1>6, <2>1 DEF HasTtl, CoreType
  <2>3. d.keys_with_ttl = Cardinality(HasTtl(d))
    <3>1. HasTtl(x) \in SUBSET Keys /\ k \notin HasTtl(x)
      BY <1>3 DEF HasTtl
    <3>2. Cardinality(HasTtl(x) \cup {k}) = Cardinality(HasTtl(x)) + 1
      BY <3>1, KeySets
    <3> QED BY <1>4, <2>1, <2>2, <3>2
  <2>4. Linked(d) = Linked(c) /\ \A ty \in AllTypes : OfType(d, ty) = OfType(c, ty)
    BY <1>2, <2>1 DEF Linked, OfType
  <2> QED BY <1>2, <1>3, <2>1, <2>2, <2>3, <2>4 DEF Consistent, d
<1> QED BY <1>5, <1>6

\* A new entry under a name that is not linked.
LEMMA LinkConsistent ==
    ASSUME NEW c, Consistent(c), NEW k \in Keys \ Linked(c),
           NEW ty \in AllTypes, NEW p \in Nat
    PROVE  /\ Consistent(LinkNew(c, k, ty, p))
           /\ Linked(LinkNew(c, k, ty, p)) = Linked(c) \cup {k}
<1> DEFINE d == LinkNew(c, k, ty, p)
<1>1. c \in CoreType /\ Linked(c) \in SUBSET Keys
  BY DEF Consistent, CoreType, Linked
<1>2. /\ d \in CoreType
      /\ d.hot = c.hot \cup {k} /\ d.cold = c.cold /\ d.pinned = c.pinned
      /\ d.type = [c.type EXCEPT ![k] = ty] /\ d.layout = c.layout
      /\ d.nkeys = c.nkeys + 1
      /\ d.hot_nkeys = IF c.layout = "hot_cold" THEN c.hot_nkeys + 1 ELSE c.hot_nkeys
      /\ d.cold_nkeys = c.cold_nkeys
      /\ d.pinned_keys = c.pinned_keys
      /\ d.type_nkeys = [c.type_nkeys EXCEPT ![ty] = @ + 1]
      /\ d.expire_at = c.expire_at
      /\ d.keys_with_ttl = c.keys_with_ttl
  <2> DEFINE tot == KeyLen[k] + p + Shell
             pay == [c.payload EXCEPT ![k] = p]
             typ == [c.type EXCEPT ![k] = ty]
             mem == (c.used_memory + tot) % Word
             tn  == [c.type_nkeys EXCEPT ![ty] = @ + 1]
             tb  == [c.type_bytes EXCEPT ![ty] = @ + tot]
             hn  == IF c.layout = "hot_cold" THEN c.hot_nkeys + 1 ELSE c.hot_nkeys
  <2>1. tot \in Nat
    BY KeysAssumption, SizeAssumption
  <2> HIDE DEF tot
  <2>2. /\ pay \in [Keys -> Nat] /\ typ \in [Keys -> AllTypes]
        /\ tn \in [AllTypes -> Nat] /\ tb \in [AllTypes -> Nat] /\ hn \in Nat
        /\ c.nkeys + 1 \in Nat /\ c.hot \cup {k} \in SUBSET Keys
    BY <1>1, <2>1 DEF CoreType
  <2>3. mem \in Nat
    BY <1>1, <2>1, SizeAssumption DEF CoreType
  <2>4. d = [c EXCEPT !.hot = c.hot \cup {k}, !.payload = pay, !.type = typ,
                !.nkeys = c.nkeys + 1, !.hot_nkeys = hn, !.used_memory = mem,
                !.type_nkeys = tn, !.type_bytes = tb]
    BY <1>1 DEF LinkNew, tot, CoreType
  <2> HIDE DEF pay, typ, mem, tn, tb, hn, d
  <2>5. d \in CoreType
    BY <1>1, <2>2, <2>3, <2>4 DEF CoreType
  <2>6. /\ d.hot = c.hot \cup {k} /\ d.cold = c.cold /\ d.pinned = c.pinned
        /\ d.type = typ /\ d.layout = c.layout
        /\ d.nkeys = c.nkeys + 1 /\ d.hot_nkeys = hn
        /\ d.cold_nkeys = c.cold_nkeys /\ d.pinned_keys = c.pinned_keys
        /\ d.type_nkeys = tn /\ d.expire_at = c.expire_at
        /\ d.keys_with_ttl = c.keys_with_ttl
    BY <1>1, <2>4 DEF CoreType
  <2> QED BY <2>5, <2>6 DEF typ, tn, hn
<1> HIDE DEF d
<1>3. /\ Linked(d) = Linked(c) \cup {k} /\ HasTtl(d) = HasTtl(c)
      /\ k \notin c.hot /\ k \notin c.cold
  BY <1>2 DEF Linked, HasTtl
<1>4. d.nkeys = Cardinality(Linked(d))
  BY <1>1, <1>2, <1>3, KeySets DEF Consistent
<1>5. d.layout = "hot_cold" => d.hot_nkeys = Cardinality(d.hot)
  <2>1. c.hot \in SUBSET Keys
    BY <1>1 DEF CoreType
  <2>2. Cardinality(c.hot \cup {k}) = Cardinality(c.hot) + 1
    BY <1>3, <2>1, KeySets
  <2> QED BY <1>2, <2>2 DEF Consistent
<1>6. ASSUME NEW t \in AllTypes PROVE d.type_nkeys[t] = Cardinality(OfType(d, t))
  <2>1. OfType(c, t) \in SUBSET Keys /\ k \notin OfType(c, t)
    BY <1>1 DEF OfType
  <2>2. c.type_nkeys[t] = Cardinality(OfType(c, t)) /\ c.type_nkeys \in [AllTypes -> Nat]
    BY <1>1 DEF Consistent, CoreType
  <2>3. OfType(d, t) = IF t = ty THEN OfType(c, t) \cup {k} ELSE OfType(c, t)
    BY <1>1, <1>2, <1>3 DEF OfType, CoreType
  <2>4. Cardinality(OfType(c, t) \cup {k}) = Cardinality(OfType(c, t)) + 1
    BY <2>1, KeySets
  <2> QED BY <1>2, <2>2, <2>3, <2>4
<1> QED BY <1>2, <1>3, <1>4, <1>5, <1>6 DEF Consistent, d

\* An object that grew or shrank in place.
LEMMA ResizeConsistent ==
    ASSUME NEW c, Consistent(c), NEW k \in Keys, NEW p \in Nat
    PROVE  /\ Consistent(ResizeObject(c, k, p))
           /\ Linked(ResizeObject(c, k, p)) = Linked(c)
<1> DEFINE d == ResizeObject(c, k, p)
           old == c.payload[k]
           ty == c.type[k]
           pay == [c.payload EXCEPT ![k] = p]
           mem == IF p >= old THEN (c.used_memory + (p - old)) % Word
                              ELSE Saturate(c.used_memory - (old - p))
           bytes == IF p >= old THEN c.type_bytes[ty] + (p - old)
                                ELSE Saturate(c.type_bytes[ty] - (old - p))
           tb == [c.type_bytes EXCEPT ![ty] = bytes]
<1>1. c \in CoreType
  BY DEF Consistent
<1>2. old \in Nat /\ ty \in AllTypes /\ c.used_memory \in Nat /\ c.type_bytes[ty] \in Nat
  BY <1>1 DEF CoreType
<1>3. d = [c EXCEPT !.payload = pay, !.used_memory = mem, !.type_bytes = tb]
  BY <1>1, <1>2 DEF ResizeObject, CoreType
<1> HIDE DEF d, old, ty
<1>4. mem \in Nat /\ bytes \in Nat
  BY <1>2, SaturateType, SizeAssumption
<1> HIDE DEF bytes, mem
<1>5. pay \in [Keys -> Nat] /\ tb \in [AllTypes -> Nat]
  BY <1>1, <1>2, <1>4 DEF CoreType
<1> HIDE DEF pay, tb
<1>6. d \in CoreType
  BY <1>1, <1>3, <1>4, <1>5 DEF CoreType
<1>7. /\ d.hot = c.hot /\ d.cold = c.cold /\ d.pinned = c.pinned
      /\ d.expire_at = c.expire_at /\ d.type = c.type /\ d.layout = c.layout
      /\ d.nkeys = c.nkeys /\ d.hot_nkeys = c.hot_nkeys
      /\ d.cold_nkeys = c.cold_nkeys /\ d.keys_with_ttl = c.keys_with_ttl
      /\ d.pinned_keys = c.pinned_keys /\ d.type_nkeys = c.type_nkeys
  BY <1>1, <1>3 DEF CoreType
<1>8. Consistent(d) /\ Linked(d) = Linked(c)
  BY <1>6, <1>7, SameCounters
<1> QED BY <1>8 DEF d

\* Setting a linked entry, of whatever type, to a string.
LEMMA ReplaceConsistent ==
    ASSUME NEW c, Consistent(c), NEW k \in Linked(c), NEW p \in Nat
    PROVE  /\ Consistent(ReplaceByString(c, k, p))
           /\ Linked(ReplaceByString(c, k, p)) = Linked(c)
<1> DEFINE d == ReplaceByString(c, k, p)
           old == c.payload[k]
           ty == c.type[k]
           pay == [c.payload EXCEPT ![k] = p]
<1>1. c \in CoreType /\ k \in Keys /\ Linked(c) \in SUBSET Keys
  BY DEF Consistent, CoreType, Linked
<1>2. /\ old \in Nat /\ ty \in AllTypes /\ c.used_memory \in Nat
      /\ "string" \in AllTypes
      /\ c.type_bytes \in [AllTypes -> Nat] /\ c.type_nkeys \in [AllTypes -> Nat]
      /\ KeyLen[k] \in Nat /\ Shell \in Nat /\ EntryBytes(c, k) \in Nat
  BY <1>1, KeysAssumption, SizeAssumption DEF CoreType, AllTypes, EntryBytes
<1>3. pay \in [Keys -> Nat]
  BY <1>1 DEF CoreType
<1>4. CASE ty = "string"
  <2> DEFINE mem == (((c.used_memory - old) % Word) + p) % Word
             bytes == Saturate(c.type_bytes["string"] - old) + p
             tb == [c.type_bytes EXCEPT !["string"] = bytes]
  <2>1. d = [c EXCEPT !.used_memory = mem, !.type_bytes = tb, !.payload = pay]
    BY <1>1, <1>4 DEF ReplaceByString, CoreType
  <2> HIDE DEF d, old, pay
  <2>2. mem \in Nat
    BY <1>2, SizeAssumption
  <2>3. bytes \in Nat
    BY SaturateType
  <2> HIDE DEF mem, bytes
  <2>4. tb \in [AllTypes -> Nat]
    BY <1>2, <2>3
  <2> HIDE DEF tb
  <2>5. d \in CoreType
    BY <1>1, <1>3, <2>1, <2>2, <2>4 DEF CoreType
  <2>6. /\ d.hot = c.hot /\ d.cold = c.cold /\ d.pinned = c.pinned
        /\ d.expire_at = c.expire_at /\ d.type = c.type /\ d.layout = c.layout
        /\ d.nkeys = c.nkeys /\ d.hot_nkeys = c.hot_nkeys
        /\ d.cold_nkeys = c.cold_nkeys /\ d.keys_with_ttl = c.keys_with_ttl
        /\ d.pinned_keys = c.pinned_keys /\ d.type_nkeys = c.type_nkeys
    BY <1>1, <2>1 DEF CoreType
  <2>7. Consistent(d) /\ Linked(d) = Linked(c)
    BY <2>5, <2>6, SameCounters
  <2> QED BY <2>7 DEF d
<1>5. CASE ty # "string"
  <2> DEFINE mem == (Saturate(c.used_memory - old) + p) % Word
             tb == [c.type_bytes EXCEPT ![ty] = Saturate(@ - EntryBytes(c, k)),
                                        !["string"] = @ + KeyLen[k] + Shell + p]
             tn == [c.type_nkeys EXCEPT ![ty] = Saturate(@ - 1),
                                        !["string"] = @ + 1]
             typ == [c.type EXCEPT ![k] = "string"]
  <2>1. d = [c EXCEPT !.type_nkeys = tn, !.type_bytes = tb, !.used_memory = mem,
                      !.type = typ, !.payload = pay]
    BY <1>1, <1>5 DEF ReplaceByString, CoreType
  <2> HIDE DEF d, old, pay
  <2>2. mem \in Nat
    BY <1>2, SaturateType, SizeAssumption
  <2>3. tb \in [AllTypes -> Nat] /\ tn \in [AllTypes -> Nat] /\ typ \in [Keys -> AllTypes]
    BY <1>1, <1>2, SaturateType DEF CoreType
  <2> HIDE DEF tb, tn, typ, mem
  <2>4. d \in CoreType
    BY <1>1, <1>3, <2>1, <2>2, <2>3 DEF CoreType
  <2>5. /\ d.hot = c.hot /\ d.cold = c.cold /\ d.pinned = c.pinned
        /\ d.expire_at = c.expire_at /\ d.type = typ /\ d.layout = c.layout
        /\ d.nkeys = c.nkeys /\ d.hot_nkeys = c.hot_nkeys
        /\ d.cold_nkeys = c.cold_nkeys /\ d.keys_with_ttl = c.keys_with_ttl
        /\ d.pinned_keys = c.pinned_keys /\ d.type_nkeys = tn
    BY <1>1, <2>1 DEF CoreType
  <2>6. Linked(d) = Linked(c) /\ HasTtl(d) = HasTtl(c)
    BY <2>5 DEF Linked, HasTtl
  <2>7. ASSUME NEW t \in AllTypes PROVE d.type_nkeys[t] = Cardinality(OfType(d, t))
    <3>1. /\ OfType(c, t) \in SUBSET Keys
          /\ c.type_nkeys[t] = Cardinality(OfType(c, t))
      BY <1>1 DEF OfType, Consistent
    <3>2. /\ \A j \in Keys : typ[j] = IF j = k THEN "string" ELSE c.type[j]
          /\ tn[t] = IF t = "string" THEN c.type_nkeys[t] + 1
                     ELSE IF t = ty THEN Saturate(c.type_nkeys[t] - 1)
                     ELSE c.type_nkeys[t]
      BY <1>1, <1>2, <1>5 DEF typ, tn, CoreType
    <3>3. CASE t = "string"
      <4>1. k \notin OfType(c, t) /\ OfType(d, t) = OfType(c, t) \cup {k}
        BY <1>1, <1>5, <2>5, <2>6, <3>2, <3>3 DEF OfType
      <4> QED BY <2>5, <3>1, <3>2, <3>3, <4>1, KeySets
    <3>4. CASE t = ty
      <4>1. k \in OfType(c, t) /\ OfType(d, t) = OfType(c, t) \ {k}
        BY <1>1, <1>5, <2>5, <2>6, <3>2, <3>4 DEF OfType
      <4> QED BY <1>5, <2>5, <3>1, <3>2, <3>4, <4>1, KeySets
    <3>5. CASE t # ty /\ t # "string"
      <4>1. OfType(d, t) = OfType(c, t)
        BY <1>1, <1>5, <2>5, <2>6, <3>2, <3>5 DEF OfType
      <4> QED BY <2>5, <3>1, <3>2, <3>5, <4>1
    <3> QED BY <3>3, <3>4, <3>5
  <2>8. Consistent(d)
    BY <2>4, <2>5, <2>6, <2>7 DEF Consistent
  <2> QED BY <2>6, <2>8 DEF d
<1> QED BY <1>4, <1>5

\* Moving part of the hot table to the cold one.
LEMMA DemoteConsistent ==
    ASSUME NEW c, Consistent(c), c.layout = "hot_cold", NEW D \in SUBSET c.hot
    PROVE  Consistent(Demote(c, D)) /\ Linked(Demote(c, D)) = Linked(c)
<1> DEFINE d == Demote(c, D)
           hn == Saturate(c.hot_nkeys - Cardinality(D))
           cn == c.cold_nkeys + Cardinality(D)
<1>1. c \in CoreType /\ c.hot \in SUBSET Keys /\ c.cold \in SUBSET Keys /\ D \in SUBSET Keys
  BY DEF Consistent, CoreType
<1>2. IsFiniteSet(D) /\ IsFiniteSet(c.cold) /\ Cardinality(D) \in Nat
  BY <1>1, KeySets
<1>3. hn \in Nat /\ cn \in Nat
  BY <1>1, <1>2, SaturateType DEF CoreType
<1>4. d = [c EXCEPT !.hot = c.hot \ D, !.cold = c.cold \cup D,
                    !.hot_nkeys = hn, !.cold_nkeys = cn]
  BY <1>1 DEF Demote, CoreType
<1>5. hn = Cardinality(c.hot \ D)
  <2>1. D \cap c.hot = D
    OBVIOUS
  <2>2. Cardinality(c.hot \ D)
           = Saturate(Cardinality(c.hot) - Cardinality(D \cap c.hot))
    BY <1>1, CardinalityWithout
  <2>3. c.hot_nkeys = Cardinality(c.hot)
    BY DEF Consistent
  <2> QED BY <2>1, <2>2, <2>3
<1>6. cn = Cardinality(c.cold \cup D)
  <2>1. c.cold \cap D = {}
    BY DEF Consistent
  <2>2. Cardinality(c.cold \cup D)
           = Cardinality(c.cold) + Cardinality(D) - Cardinality(c.cold \cap D)
    BY <1>2, FS_Union
  <2>3. Cardinality(c.cold) \in Nat /\ c.cold_nkeys = Cardinality(c.cold)
    BY <1>1, KeySets DEF Consistent
  <2> QED BY <1>2, <2>1, <2>2, <2>3, FS_EmptySet
<1> HIDE DEF d, hn, cn
<1>7. d \in CoreType
  BY <1>1, <1>3, <1>4 DEF CoreType
<1>8. /\ d.hot = c.hot \ D /\ d.cold = c.cold \cup D /\ d.pinned = c.pinned
      /\ d.expire_at = c.expire_at /\ d.type = c.type /\ d.layout = c.layout
      /\ d.nkeys = c.nkeys /\ d.hot_nkeys = hn /\ d.cold_nkeys = cn
      /\ d.keys_with_ttl = c.keys_with_ttl
      /\ d.pinned_keys = c.pinned_keys /\ d.type_nkeys = c.type_nkeys
  BY <1>1, <1>4 DEF CoreType
<1>9. /\ Linked(d) = Linked(c) /\ HasTtl(d) = HasTtl(c)
      /\ \A t \in AllTypes : OfType(d, t) = OfType(c, t)
  BY <1>8 DEF Linked, HasTtl, OfType
<1>10. d.hot \cap d.cold = {}
  BY <1>8 DEF Consistent
<1>11. Consistent(d)
  BY <1>5, <1>6, <1>7, <1>8, <1>9, <1>10 DEF Consistent
<1> QED BY <1>9, <1>11 DEF d

LEMMA MaybeDemoteConsistent ==
    ASSUME NEW c, Consistent(c), NEW d \in MaybeDemoteHot(c)
    PROVE  Consistent(d) /\ Linked(d) = Linked(c)
<1>1. CASE c.layout = "hot_cold" /\ c.hot_nkeys > HotSoftCap(c)
  <2>1. PICK D \in SUBSET c.hot : d = Demote(c, D)
    BY <1>1 DEF MaybeDemoteHot
  <2> QED BY <1>1, <2>1, DemoteConsistent
<1>2. CASE ~ (c.layout = "hot_cold" /\ c.hot_nkeys > HotSoftCap(c))
  BY <1>2 DEF MaybeDemoteHot
<1> QED BY <1>1, <1>2

\* A read promotes a cold entry, and may demote others.
LEMMA TouchGetConsistent ==
    ASSUME NEW c, Consistent(c), NEW k \in Keys, NEW d \in TouchGet(c, k)
    PROVE  Consistent(d) /\ Linked(d) = Linked(c)
<1>1. CASE c.layout = "hot_cold" /\ k \in c.cold \ c.hot /\ c.hot_promote_on_get
  <2> DEFINE cn == Saturate(c.cold_nkeys - 1)
             hn == c.hot_nkeys + 1
             e == [c EXCEPT !.cold = c.cold \ {k}, !.hot = c.hot \cup {k},
                            !.cold_nkeys = cn, !.hot_nkeys = hn]
  <2>1. c \in CoreType /\ c.hot \in SUBSET Keys /\ c.cold \in SUBSET Keys
    BY DEF Consistent, CoreType
  <2>2. cn \in Nat /\ hn \in Nat
    BY <2>1, SaturateType DEF CoreType
  <2>3. d \in MaybeDemoteHot(e)
    BY <1>1, <2>1 DEF TouchGet, CoreType
  <2>4. cn = Cardinality(c.cold \ {k}) /\ hn = Cardinality(c.hot \cup {k})
    BY <1>1, <2>1, KeySets DEF Consistent
  <2> HIDE DEF cn, hn
  <2>5. e \in CoreType
    BY <2>1, <2>2 DEF CoreType
  <2>6. /\ e.hot = c.hot \cup {k} /\ e.cold = c.cold \ {k} /\ e.pinned = c.pinned
        /\ e.expire_at = c.expire_at /\ e.type = c.type /\ e.layout = c.layout
        /\ e.nkeys = c.nkeys /\ e.hot_nkeys = hn /\ e.cold_nkeys = cn
        /\ e.keys_with_ttl = c.keys_with_ttl
        /\ e.pinned_keys = c.pinned_keys /\ e.type_nkeys = c.type_nkeys
    BY <2>1 DEF CoreType
  <2> HIDE DEF e
  <2>7. /\ Linked(e) = Linked(c) /\ HasTtl(e) = HasTtl(c)
        /\ \A t \in AllTypes : OfType(e, t) = OfType(c, t)
    BY <1>1, <2>6 DEF Linked, HasTtl, OfType
  <2>8. e.hot \cap e.cold = {}
    BY <2>6 DEF Consistent
  <2>9. Consistent(e)
    BY <1>1, <2>4, <2>5, <2>6, <2>7, <2>8 DEF Consistent
  <2> QED BY <2>3, <2>7, <2>9, MaybeDemoteConsistent
<1>2. CASE ~ (c.layout = "hot_cold" /\ k \in c.cold \ c.hot /\ c.hot_promote_on_get)
  BY <1>2 DEF TouchGet
<1> QED BY <1>1, <1>2

\* A change of layout relinks every entry.
LEMMA MigrateConsistent ==
    ASSUME NEW c, Consistent(c), NEW name \in {"flat", "hot_cold"}
    PROVE  Consistent(MigrateTo(c, name))
<1>1. c \in CoreType
  BY DEF Consistent
<1>2. CASE c.layout = name
  BY <1>2 DEF MigrateTo
<1>3. CASE c.layout # name /\ name = "hot_cold"
  <2> DEFINE d == MigrateToHotCold(c)
  <2>1. c.layout = "flat"
    BY <1>1, <1>3 DEF CoreType
  <2>2. d = MigrateTo(c, name)
    BY <1>3 DEF MigrateTo
  <2>3. d \in CoreType
    BY <1>1 DEF MigrateToHotCold, CoreType
  <2>4. /\ d.hot = c.hot /\ d.cold = c.cold /\ d.pinned = c.pinned
        /\ d.expire_at = c.expire_at /\ d.type = c.type /\ d.layout = "hot_cold"
        /\ d.nkeys = c.nkeys /\ d.hot_nkeys = c.nkeys /\ d.cold_nkeys = 0
        /\ d.keys_with_ttl = c.keys_with_ttl
        /\ d.pinned_keys = c.pinned_keys /\ d.type_nkeys = c.type_nkeys
    BY <1>1 DEF MigrateToHotCold, CoreType
  <2> HIDE DEF d
  <2>5. /\ Linked(d) = Linked(c) /\ HasTtl(d) = HasTtl(c)
        /\ \A t \in AllTypes : OfType(d, t) = OfType(c, t)
    BY <2>4 DEF Linked, HasTtl, OfType
  <2>6. d.cold = {} /\ d.hot = Linked(d) /\ Cardinality({}) = 0
    BY <2>1, <2>4, <2>5, FS_EmptySet DEF Consistent, Linked
  <2> QED BY <2>2, <2>3, <2>4, <2>5, <2>6 DEF Consistent
<1>4. CASE c.layout # name /\ name = "flat"
  <2> DEFINE d == MigrateToFlat(c)
  <2>1. d = MigrateTo(c, name)
    BY <1>4 DEF MigrateTo
  <2>2. Linked(c) \in SUBSET Keys
    BY <1>1 DEF CoreType, Linked
  <2>3. d \in CoreType
    BY <1>1, <2>2 DEF MigrateToFlat, CoreType
  <2>4. /\ d.hot = Linked(c) /\ d.cold = {} /\ d.pinned = c.pinned
        /\ d.expire_at = c.expire_at /\ d.type = c.type /\ d.layout = "flat"
        /\ d.nkeys = c.nkeys /\ d.hot_nkeys = 0 /\ d.cold_nkeys = 0
        /\ d.keys_with_ttl = c.keys_with_ttl
        /\ d.pinned_keys = c.pinned_keys /\ d.type_nkeys = c.type_nkeys
    BY <1>1 DEF MigrateToFlat, CoreType
  <2> HIDE DEF d
  <2>5. Linked(d) = Linked(c) /\ HasTtl(d) = HasTtl(c)
    BY <2>4 DEF Linked, HasTtl
  <2>6. \A t \in AllTypes : OfType(d, t) = OfType(c, t)
    BY <2>4, <2>5 DEF OfType
  <2> QED BY <2>1, <2>3, <2>4, <2>5, <2>6 DEF Consistent
<1> QED BY <1>2, <1>3, <1>4

\* Eviction frees linked entries, whichever it samples.
LEMMA EvictConsistent ==
    ASSUME NEW c, Consistent(c), NEW d \in MaybeEvict(c)
    PROVE  Consistent(d) /\ Linked(d) \subseteq Linked(c)
<1>1. CASE c.evict = "noop" \/ ~ OverMaxmemory(c)
  BY <1>1 DEF MaybeEvict
<1>2. CASE ~ (c.evict = "noop" \/ ~ OverMaxmemory(c))
  <2>1. PICK E \in SUBSET Victims(c), X \in SUBSET Purgeable(c) :
                d = FreeEntries(c, E \cup X)
    BY <1>2 DEF MaybeEvict
  <2>2. E \cup X \in SUBSET Linked(c)
    BY DEF Victims, Purgeable, Sampled, Linked
  <2> QED BY <2>1, <2>2, FreeConsistent
<1> QED BY <1>1, <1>2

LEMMA EntrySetConsistent ==
    ASSUME NEW c, Consistent(c), NEW k \in Keys, NEW p \in Nat, NEW t \in Nat,
           NEW d \in EntrySetEx(c, k, p, t)
    PROVE  Consistent(d)
<1> DEFINE f == FindEntry(c, k)
           old == SetExpireAt(ReplaceByString(f, k, p), k, t)
           new == SetExpireAt(LinkNew(f, k, "string", p), k, t)
<1>1. Consistent(f) /\ "string" \in AllTypes
  BY FindConsistent DEF AllTypes
<1>2. PICK s \in IF k \in Linked(f) THEN TouchGet(old, k) ELSE MaybeDemoteHot(new) :
         \E e \in MaybeEvict(s) : d = WatchTouch(e, {k})
  BY DEF EntrySetEx
<1> HIDE DEF f
<1>3. Consistent(s)
  <2>1. CASE k \in Linked(f)
    <3>1. /\ Consistent(ReplaceByString(f, k, p))
          /\ Linked(ReplaceByString(f, k, p)) = Linked(f)
      BY <1>1, <2>1, ReplaceConsistent
    <3>2. Consistent(old)
      BY <2>1, <3>1, SetExpireConsistent
    <3> HIDE DEF old
    <3> QED BY <1>2, <2>1, <3>2, TouchGetConsistent
  <2>2. CASE k \notin Linked(f)
    <3>1. /\ Consistent(LinkNew(f, k, "string", p))
          /\ k \in Linked(LinkNew(f, k, "string", p))
      BY <1>1, <2>2, LinkConsistent
    <3>2. Consistent(new)
      BY <3>1, SetExpireConsistent
    <3> HIDE DEF new
    <3> QED BY <1>2, <2>2, <3>2, MaybeDemoteConsistent
  <2> QED BY <2>1, <2>2
<1>4. PICK e \in MaybeEvict(s) : d = WatchTouch(e, {k})
  BY <1>2
<1>5. Consistent(e)
  BY <1>3, EvictConsistent
<1> QED BY <1>4, <1>5, WatchTouchConsistent

LEMMA GetPtrConsistent ==
    ASSUME NEW c, Consistent(c), NEW k \in Keys, NEW d \in GetPtr(c, k)
    PROVE  Consistent(d)
<1> DEFINE f == FindEntry(c, k)
<1>1. Consistent(f)
  BY FindConsistent
<1>2. d \in TouchGet(f, k) \/ d = f
  BY DEF GetPtr
<1> QED BY <1>1, <1>2, TouchGetConsistent

LEMMA DelConsistent ==
    ASSUME NEW c, Consistent(c), NEW k \in Keys
    PROVE  Consistent(DelBin(c, k))
<1> DEFINE f == FindEntry(c, k)
<1>1. Consistent(f)
  BY FindConsistent
<1>2. CASE k \in Linked(f)
  <2>1. {k} \in SUBSET Linked(f) /\ DelBin(c, k) = FreeEntries(f, {k})
    BY <1>2 DEF DelBin
  <2> QED BY <1>1, <2>1, FreeConsistent
<1>3. CASE k \notin Linked(f)
  BY <1>1, <1>3 DEF DelBin
<1> QED BY <1>2, <1>3

LEMMA AppendConsistent ==
    ASSUME NEW c, Consistent(c), NEW k \in Keys, NEW p \in Nat,
           NEW d \in AppendValue(c, k, p)
    PROVE  Consistent(d)
<1> DEFINE f == FindEntry(c, k)
           q == f.payload[k] + p
           r == ReplaceByString(f, k, q)
<1>1. Consistent(f)
  BY FindConsistent
<1>2. q \in Nat
  BY <1>1 DEF Consistent, CoreType
<1>3. CASE k \notin Linked(f)
  <2>1. PICK e \in EntrySetEx(f, k, p, 0) : d = FindEntry(e, k)
    BY <1>3 DEF AppendValue
  <2>2. Consistent(e)
    BY <1>1, EntrySetConsistent
  <2> QED BY <2>1, <2>2, FindConsistent
<1>4. CASE k \in Linked(f) /\ (f.type[k] # "string" \/ p = 0)
  BY <1>1, <1>4 DEF AppendValue
<1>5. CASE k \in Linked(f) /\ ~ (f.type[k] # "string" \/ p = 0)
  <2>1. PICK s \in TouchGet(r, k) : \E e \in MaybeEvict(s) : d = WatchTouch(e, {k})
    BY <1>5 DEF AppendValue
  <2>2. PICK e \in MaybeEvict(s) : d = WatchTouch(e, {k})
    BY <2>1
  <2> HIDE DEF f, q
  <2>3. Consistent(r)
    BY <1>1, <1>2, <1>5, ReplaceConsistent
  <2> HIDE DEF r
  <2>4. Consistent(s)
    BY <2>3, TouchGetConsistent
  <2>5. Consistent(e)
    BY <2>4, EvictConsistent
  <2> QED BY <2>2, <2>5, WatchTouchConsistent
<1> QED BY <1>3, <1>4, <1>5

LEMMA IncrConsistent ==
    ASSUME NEW c, Consistent(c), NEW k \in Keys, NEW p \in Nat,
           NEW d \in Incr(c, k, p)
    PROVE  Consistent(d)
<1> DEFINE f == FindEntry(c, k)
           t == f.expire_at[k]
<1>1. Consistent(f)
  BY FindConsistent
<1>2. t \in Nat
  BY <1>1 DEF Consistent, CoreType
<1>3. d \in EntrySetEx(f, k, p, 0) \/ d = f \/ d \in EntrySetEx(f, k, p, t)
  BY DEF Incr
<1> HIDE DEF f, t
<1> QED BY <1>1, <1>2, <1>3, EntrySetConsistent

\* Replacing one key of a set by another that is not in it.
Swap(S, k, n) == IF k \in S THEN (S \ {k}) \cup {n} ELSE S

LEMMA SwapCardinality ==
    ASSUME NEW S \in SUBSET Keys, NEW k \in Keys, NEW n \in Keys \ S
    PROVE  Cardinality(Swap(S, k, n)) = Cardinality(S)
<1>1. CASE k \notin S
  BY <1>1 DEF Swap
<1>2. CASE k \in S
  <2>1. Cardinality(S \ {k}) = Saturate(Cardinality(S) - 1) /\ Cardinality(S) >= 1
        /\ Cardinality(S) \in Nat
    BY <1>2, KeySets
  <2>2. S \ {k} \in SUBSET Keys /\ n \notin S \ {k}
    OBVIOUS
  <2>3. Cardinality((S \ {k}) \cup {n}) = Cardinality(S \ {k}) + 1
    BY <2>2, KeySets
  <2> QED BY <1>2, <2>1, <2>3 DEF Swap, Saturate
<1> QED BY <1>1, <1>2

\* RENAME gives a linked entry an unused name and links it hot.
LEMMA MoveConsistent ==
    ASSUME NEW c, Consistent(c), NEW k \in Linked(c), NEW n \in Keys \ Linked(c)
    PROVE  Consistent(MoveEntry(c, k, n))
<1> DEFINE d == MoveEntry(c, k, n)
           tiered == c.layout = "hot_cold"
           ty == c.type[k]
           Longer(m) == IF KeyLen[n] >= KeyLen[k]
                        THEN m + (KeyLen[n] - KeyLen[k])
                        ELSE Saturate(m - (KeyLen[k] - KeyLen[n]))
           pin == IF k \in c.pinned THEN (c.pinned \ {k}) \cup {n} ELSE c.pinned
           pay == [c.payload EXCEPT ![n] = c.payload[k], ![k] = 0]
           ea == [c.expire_at EXCEPT ![n] = c.expire_at[k], ![k] = 0]
           typ == [c.type EXCEPT ![n] = c.type[k], ![k] = "string"]
           hn == IF ~ tiered THEN c.hot_nkeys
                 ELSE IF k \in c.hot THEN Saturate(c.hot_nkeys - 1) + 1
                 ELSE c.hot_nkeys + 1
           cn == IF tiered /\ k \notin c.hot THEN Saturate(c.cold_nkeys - 1)
                 ELSE c.cold_nkeys
           mem == Longer(c.used_memory) % Word
           tb == [c.type_bytes EXCEPT ![ty] = Longer(c.type_bytes[ty])]
           ht == (c.hot \ {k}) \cup {n}
           cd == c.cold \ {k}
<1>1. /\ c \in CoreType /\ k \in Keys /\ n \in Keys /\ n # k
      /\ Linked(c) \in SUBSET Keys
      /\ c.hot \in SUBSET Keys /\ c.cold \in SUBSET Keys /\ c.pinned \in SUBSET Keys
      /\ n \notin c.hot /\ n \notin c.cold /\ n \notin c.pinned
      /\ (k \in c.hot \/ k \in c.cold) /\ c.hot \cap c.cold = {}
  BY DEF Consistent, CoreType, Linked
<1>2. /\ ty \in AllTypes /\ KeyLen[n] \in Nat /\ KeyLen[k] \in Nat
      /\ c.used_memory \in Nat /\ c.type_bytes \in [AllTypes -> Nat]
      /\ c.hot_nkeys \in Nat /\ c.cold_nkeys \in Nat /\ "string" \in AllTypes
  BY <1>1, KeysAssumption DEF CoreType, AllTypes
<1>3. d = [c EXCEPT !.hot = ht, !.cold = cd, !.pinned = pin, !.payload = pay,
                    !.expire_at = ea, !.type = typ, !.hot_nkeys = hn,
                    !.cold_nkeys = cn, !.used_memory = mem, !.type_bytes = tb]
  BY <1>1 DEF MoveEntry, CoreType
<1>4. \A m \in Nat : Longer(m) \in Nat
  BY <1>2, SaturateType
<1> HIDE DEF Longer
<1>5. mem \in Nat /\ tb \in [AllTypes -> Nat]
  BY <1>2, <1>4, SizeAssumption
<1>6. hn \in Nat /\ cn \in Nat
  BY <1>2, SaturateType
<1>7. /\ pay \in [Keys -> Nat] /\ ea \in [Keys -> Nat] /\ typ \in [Keys -> AllTypes]
      /\ pin \in SUBSET Keys /\ ht \in SUBSET Keys /\ cd \in SUBSET Keys
  BY <1>1, <1>2 DEF CoreType
<1> HIDE DEF d, pin, pay, ea, typ, hn, cn, mem, tb, ht, cd
<1>8. d \in CoreType
  BY <1>1, <1>3, <1>5, <1>6, <1>7 DEF CoreType
<1>9. /\ d.hot = ht /\ d.cold = cd /\ d.pinned = pin /\ d.expire_at = ea
      /\ d.type = typ /\ d.layout = c.layout /\ d.nkeys = c.nkeys
      /\ d.hot_nkeys = hn /\ d.cold_nkeys = cn
      /\ d.keys_with_ttl = c.keys_with_ttl
      /\ d.pinned_keys = c.pinned_keys /\ d.type_nkeys = c.type_nkeys
  BY <1>1, <1>3 DEF CoreType
<1>10. /\ Linked(d) = Swap(Linked(c), k, n)
       /\ d.hot \cap d.cold = {} /\ pin = Swap(c.pinned, k, n)
  BY <1>1, <1>9 DEF Linked, Swap, ht, cd, pin
<1>11. d.nkeys = Cardinality(Linked(d))
  <2>1. Cardinality(Swap(Linked(c), k, n)) = Cardinality(Linked(c))
    BY <1>1, SwapCardinality
  <2> QED BY <1>9, <1>10, <2>1 DEF Consistent
<1>12. d.layout = "flat" => d.cold = {} /\ d.hot_nkeys = 0 /\ d.cold_nkeys = 0
  BY <1>9 DEF Consistent, hn, cn, cd
<1>13. ASSUME d.layout = "hot_cold"
       PROVE  d.hot_nkeys = Cardinality(d.hot) /\ d.cold_nkeys = Cardinality(d.cold)
  <2>1. c.hot_nkeys = Cardinality(c.hot) /\ c.cold_nkeys = Cardinality(c.cold)
    BY <1>9, <1>13 DEF Consistent
  <2>2. CASE k \in c.hot
    <3>1. ht = Swap(c.hot, k, n) /\ cd = c.cold
      BY <1>1, <2>2 DEF Swap, ht, cd
    <3>2. Cardinality(Swap(c.hot, k, n)) = Cardinality(c.hot)
      BY <1>1, SwapCardinality
    <3>3. Cardinality(c.hot) >= 1
      BY <1>1, <2>2, KeySets
    <3>4. hn = c.hot_nkeys /\ cn = c.cold_nkeys
      BY <1>2, <1>9, <1>13, <2>1, <2>2, <3>3 DEF hn, cn, Saturate
    <3> QED BY <1>9, <2>1, <3>1, <3>2, <3>4
  <2>3. CASE k \notin c.hot
    <3>1. ht = c.hot \cup {n} /\ k \in c.cold
      BY <1>1, <2>3 DEF ht
    <3>2. Cardinality(c.hot \cup {n}) = Cardinality(c.hot) + 1
      BY <1>1, KeySets
    <3>3. Cardinality(c.cold \ {k}) = Saturate(Cardinality(c.cold) - 1)
      BY <1>1, <3>1, KeySets
    <3>4. hn = c.hot_nkeys + 1 /\ cn = Saturate(c.cold_nkeys - 1)
      BY <1>9, <1>13, <2>3 DEF hn, cn
    <3> QED BY <1>9, <2>1, <3>1, <3>2, <3>3, <3>4 DEF cd
  <2> QED BY <2>2, <2>3
<1>14. HasTtl(d) \subseteq Linked(d) /\ d.keys_with_ttl = Cardinality(HasTtl(d))
  <2>1. /\ HasTtl(c) \in SUBSET Keys /\ n \notin HasTtl(c)
        /\ HasTtl(c) \subseteq Linked(c) /\ c.keys_with_ttl = Cardinality(HasTtl(c))
        /\ c.expire_at \in [Keys -> Nat] /\ c.expire_at[n] = 0
    BY <1>1 DEF Consistent, HasTtl, CoreType
  <2>2. \A j \in Keys : ea[j] = IF j = k THEN 0
                                ELSE IF j = n THEN c.expire_at[k] ELSE c.expire_at[j]
    BY <1>1, <2>1 DEF ea
  <2>3. HasTtl(d) = Swap(HasTtl(c), k, n)
    <3>1. HasTtl(d) = {j \in Keys : ea[j] # 0} /\ HasTtl(c) = {j \in Keys : c.expire_at[j] # 0}
      BY <1>9 DEF HasTtl
    <3> QED BY <1>1, <2>1, <2>2, <3>1 DEF Swap
  <2>4. Cardinality(Swap(HasTtl(c), k, n)) = Cardinality(HasTtl(c))
    BY <1>1, <2>1, SwapCardinality
  <2>5. Swap(HasTtl(c), k, n) \subseteq Swap(Linked(c), k, n)
    BY <2>1 DEF Swap
  <2> QED BY <1>9, <1>10, <2>1, <2>3, <2>4, <2>5
<1>15. ASSUME NEW t \in AllTypes PROVE d.type_nkeys[t] = Cardinality(OfType(d, t))
  <2>1. /\ OfType(c, t) \in SUBSET Keys /\ n \notin OfType(c, t)
        /\ c.type_nkeys[t] = Cardinality(OfType(c, t))
    BY <1>1 DEF OfType, Consistent
  <2>2. \A j \in Keys : typ[j] = IF j = k THEN "string"
                                 ELSE IF j = n THEN c.type[k] ELSE c.type[j]
    BY <1>1 DEF typ, CoreType
  <2>3. OfType(d, t) = Swap(OfType(c, t), k, n)
    <3>1. OfType(d, t) = {j \in (Linked(c) \ {k}) \cup {n} : typ[j] = t}
      BY <1>9, <1>10 DEF OfType, Swap
    <3> QED BY <1>1, <2>1, <2>2, <3>1 DEF OfType, Swap
  <2>4. Cardinality(Swap(OfType(c, t), k, n)) = Cardinality(OfType(c, t))
    BY <1>1, <2>1, SwapCardinality
  <2> QED BY <1>9, <2>1, <2>3, <2>4
<1>16. d.pinned \subseteq Linked(d) /\ Cardinality(d.pinned) <= d.pinned_keys
  <2>1. Cardinality(Swap(c.pinned, k, n)) = Cardinality(c.pinned)
    BY <1>1, SwapCardinality
  <2>2. Swap(c.pinned, k, n) \subseteq Swap(Linked(c), k, n)
    BY DEF Swap, Consistent
  <2> QED BY <1>9, <1>10, <2>1, <2>2 DEF Consistent
<1>17. Consistent(d)
  BY <1>8, <1>10, <1>11, <1>12, <1>13, <1>14, <1>15, <1>16 DEF Consistent
<1> QED BY <1>17 DEF d

LEMMA RenameConsistent ==
    ASSUME NEW c, Consistent(c), NEW k \in Keys, NEW n \in Keys, NEW nx \in BOOLEAN,
           NEW d \in Rename(c, k, n, nx)
    PROVE  Consistent(d)
<1> DEFINE f == FindEntry(c, k)
           g == FindEntry(f, n)
           h == IF n \in Linked(g) THEN FreeEntries(g, {n}) ELSE g
<1>1. Consistent(f)
  BY FindConsistent
<1>2. Consistent(g)
  BY <1>1, FindConsistent
<1>3. CASE k \notin Linked(f) \/ k = n
  BY <1>1, <1>3 DEF Rename
<1>4. CASE ~ (k \notin Linked(f) \/ k = n) /\ n \in Linked(g) /\ nx
  BY <1>2, <1>4 DEF Rename
<1>5. CASE ~ (k \notin Linked(f) \/ k = n) /\ ~ (n \in Linked(g) /\ nx)
  <2>1. PICK s \in MaybeDemoteHot(MoveEntry(h, k, n)) :
           \E e \in MaybeEvict(s) : d = WatchTouch(e, {k, n})
    BY <1>5 DEF Rename
  <2>2. PICK e \in MaybeEvict(s) : d = WatchTouch(e, {k, n})
    BY <2>1
  <2>3. k \in Linked(g)
    <3>1. CASE n \in Linked(f) \cap Due(f)
      <4>1. {n} \in SUBSET Linked(f) /\ g = FreeEntries(f, {n})
        BY <3>1 DEF FindEntry
      <4>2. Linked(g) = Linked(f) \ {n}
        BY <1>1, <4>1, FreeConsistent
      <4> QED BY <1>5, <4>2
    <3>2. CASE n \notin Linked(f) \cap Due(f)
      <4>1. g = f
        BY <3>2 DEF FindEntry
      <4> QED BY <1>5, <4>1
    <3> QED BY <3>1, <3>2
  <2> HIDE DEF g
  <2>4. Consistent(h) /\ k \in Linked(h) /\ n \notin Linked(h)
    <3>1. CASE n \in Linked(g)
      <4>1. {n} \in SUBSET Linked(g) /\ h = FreeEntries(g, {n})
        BY <3>1
      <4>2. Consistent(h) /\ Linked(h) = Linked(g) \ {n}
        BY <1>2, <4>1, FreeConsistent
      <4> QED BY <1>5, <2>3, <4>2
    <3>2. CASE n \notin Linked(g)
      BY <1>2, <2>3, <3>2
    <3> QED BY <3>1, <3>2
  <2> HIDE DEF h
  <2>5. Consistent(MoveEntry(h, k, n))
    BY <2>4, MoveConsistent
  <2>6. Consistent(s)
    BY <2>5, MaybeDemoteConsistent
  <2>7. Consistent(e)
    BY <2>6, EvictConsistent
  <2>8. {k, n} \in SUBSET Keys
    OBVIOUS
  <2> QED BY <2>2, <2>7, <2>8, WatchTouchConsistent
<1> QED BY <1>3, <1>4, <1>5

LEMMA ExpireConsistent ==
    ASSUME NEW c, Consistent(c), NEW k \in Keys, NEW t \in Nat
    PROVE  Consistent(Expire(c, k, t))
<1> DEFINE f == FindEntry(c, k)
<1>1. Consistent(f)
  BY FindConsistent
<1>2. CASE k \in Linked(f)
  <2>1. Expire(c, k, t) = WatchTouch(SetExpireAt(f, k, t), {k})
    BY <1>2 DEF Expire
  <2>2. Consistent(SetExpireAt(f, k, t))
    BY <1>1, <1>2, SetExpireConsistent
  <2> HIDE DEF f
  <2> QED BY <2>1, <2>2, WatchTouchConsistent
<1>3. CASE k \notin Linked(f)
  BY <1>1, <1>3 DEF Expire
<1> QED BY <1>2, <1>3

\* FLUSHDB: the counter it leaves alone only over-reports.
LEMMA FlushConsistent ==
    ASSUME NEW c, Consistent(c)
    PROVE  Consistent(FlushDb(c))
<1> DEFINE d == FlushDb(c)
           zero == [k \in Keys |-> 0]
           strings == [k \in Keys |-> "string"]
           none == [t \in AllTypes |-> 0]
           cn == IF c.layout = "hot_cold" THEN 0 ELSE c.cold_nkeys
<1>1. c \in CoreType /\ c.pinned_keys \in Nat /\ "string" \in AllTypes
  BY DEF Consistent, CoreType, AllTypes
<1>2. /\ zero \in [Keys -> Nat] /\ strings \in [Keys -> AllTypes]
      /\ none \in [AllTypes -> Nat]
  BY <1>1
<1>3. cn = 0
  BY <1>1 DEF Consistent, CoreType
<1> DEFINE x == [c EXCEPT !.hot = {}, !.cold = {}, !.pinned = {},
                          !.payload = zero, !.expire_at = zero, !.type = strings]
           y == [x EXCEPT !.nkeys = 0, !.hot_nkeys = 0, !.cold_nkeys = cn,
                          !.used_memory = 0, !.keys_with_ttl = 0,
                          !.expire_at_sum = 0]
<1>4. d = [y EXCEPT !.type_nkeys = none, !.type_bytes = none, !.touched = Keys]
  BY <1>1 DEF FlushDb, CoreType
<1> HIDE DEF zero, strings, none, cn, d
<1>5. /\ x \in CoreType
      /\ x.hot = {} /\ x.cold = {} /\ x.pinned = {} /\ x.expire_at = zero
      /\ x.layout = c.layout /\ x.pinned_keys = c.pinned_keys
  BY <1>1, <1>2 DEF CoreType
<1> HIDE DEF x
<1>6. /\ y \in CoreType
      /\ y.hot = x.hot /\ y.cold = x.cold /\ y.pinned = x.pinned
      /\ y.expire_at = x.expire_at
      /\ y.layout = x.layout /\ y.pinned_keys = x.pinned_keys
      /\ y.nkeys = 0 /\ y.hot_nkeys = 0 /\ y.cold_nkeys = 0 /\ y.keys_with_ttl = 0
  BY <1>3, <1>5 DEF CoreType
<1> HIDE DEF y
<1>7. /\ d \in CoreType
      /\ d.hot = y.hot /\ d.cold = y.cold /\ d.pinned = y.pinned
      /\ d.expire_at = y.expire_at
      /\ d.layout = y.layout /\ d.pinned_keys = y.pinned_keys
      /\ d.nkeys = 0 /\ d.hot_nkeys = 0 /\ d.cold_nkeys = 0 /\ d.keys_with_ttl = 0
      /\ d.type_nkeys = none
  BY <1>2, <1>4, <1>6 DEF CoreType
<1>8. Linked(d) = {} /\ HasTtl(d) = {} /\ \A t \in AllTypes : OfType(d, t) = {}
  BY <1>5, <1>6, <1>7 DEF Linked, HasTtl, OfType, zero
<1>9. Cardinality({}) = 0
  BY FS_EmptySet
<1>10. \A t \in AllTypes : none[t] = 0
  BY DEF none
<1>11. d.hot = {} /\ d.cold = {} /\ d.pinned = {} /\ d.pinned_keys \in Nat
  BY <1>1, <1>5, <1>6, <1>7
<1>12. \A t \in AllTypes : d.type_nkeys[t] = Cardinality(OfType(d, t))
  BY <1>7, <1>8, <1>9, <1>10
<1>13. d.layout = "hot_cold" => /\ d.hot_nkeys = Cardinality(d.hot)
                                /\ d.cold_nkeys = Cardinality(d.cold)
  BY <1>7, <1>9, <1>11
<1>14. /\ d.nkeys = Cardinality(Linked(d)) /\ d.keys_with_ttl = Cardinality(HasTtl(d))
       /\ Cardinality(d.pinned) <= d.pinned_keys
  BY <1>7, <1>8, <1>9, <1>11
<1>15. Consistent(d)
  BY <1>7, <1>8, <1>11, <1>12, <1>13, <1>14 DEF Consistent
<1> QED BY <1>15 DEF d

LEMMA ObjectAddConsistent ==
    ASSUME NEW c, Consistent(c), NEW k \in Keys, NEW ty \in AllTypes, NEW p \in Nat,
           NEW d \in ObjectAdd(c, k, ty, p)
    PROVE  Consistent(d)
<1> DEFINE f == FindEntry(c, k)
           q == ObjBase + p
<1>1. Consistent(f) /\ ObjBase \in Nat /\ q \in Nat
  BY FindConsistent, SizeAssumption
<1>2. ASSUME NEW g \in GetOrCreate(c, k, ty) PROVE Consistent(g)
  <2>1. CASE k \in Linked(f)
    BY <1>1, <2>1 DEF GetOrCreate
  <2>2. CASE k \notin Linked(f)
    <3>1. PICK e \in MaybeEvict(LinkNew(f, k, ty, ObjBase)) : g = FindEntry(e, k)
      BY <2>2 DEF GetOrCreate
    <3> HIDE DEF f
    <3>2. Consistent(LinkNew(f, k, ty, ObjBase))
      BY <1>1, <2>2, LinkConsistent
    <3>3. Consistent(e)
      BY <3>2, EvictConsistent
    <3> QED BY <3>1, <3>3, FindConsistent
  <2> QED BY <2>1, <2>2
<1>3. PICK g \in GetOrCreate(c, k, ty) :
         \/ d = g
         \/ \E e \in MaybeEvict(ResizeObject(g, k, q)) : d = WatchTouch(e, {k})
  <2> DEFINE Then(g) == IF k \in Linked(g) /\ g.type[k] = ty
                        THEN {WatchTouch(e, {k}) : e \in MaybeEvict(ResizeObject(g, k, q))}
                        ELSE {g}
  <2>1. PICK g \in GetOrCreate(c, k, ty) : d \in Then(g)
    BY DEF ObjectAdd
  <2> QED BY <2>1
<1> HIDE DEF q
<1>4. Consistent(g) /\ Consistent(ResizeObject(g, k, q))
  BY <1>1, <1>2, ResizeConsistent
<1>5. ASSUME NEW e \in MaybeEvict(ResizeObject(g, k, q)), d = WatchTouch(e, {k})
      PROVE  Consistent(d)
  <2>1. Consistent(e)
    BY <1>4, EvictConsistent
  <2> QED BY <1>5, <2>1, WatchTouchConsistent
<1> QED BY <1>3, <1>4, <1>5

LEMMA ObjectRemoveConsistent ==
    ASSUME NEW c, Consistent(c), NEW k \in Keys, NEW ty, NEW p \in Nat
    PROVE  /\ Consistent(ObjectRemove(c, k, ty, p))
           /\ Consistent(ListTrim(c, k, p))
           /\ Consistent(ListRem(c, k, p))
<1> DEFINE f == FindEntry(c, k)
           q == ObjBase + p
           r == ResizeObject(f, k, q)
           pay == [f.payload EXCEPT ![k] = ObjBase]
           b == [f EXCEPT !.payload = pay]
<1>1. Consistent(f) /\ q \in Nat /\ ObjBase \in Nat /\ f \in CoreType
  BY FindConsistent, SizeAssumption DEF Consistent
<1>2. b = [f EXCEPT !.payload[k] = ObjBase]
  BY <1>1 DEF CoreType
<1>3. ObjectRemove(c, k, ty, p) \in {f} \cup
          (IF k \in Linked(f) THEN {FreeEntries(r, {k}), WatchTouch(r, {k})} ELSE {})
  BY DEF ObjectRemove
<1>4. ListTrim(c, k, p) \in {f} \cup
          (IF k \in Linked(f) THEN {FreeEntries(f, {k}), WatchTouch(r, {k})} ELSE {})
  BY DEF ListTrim
<1>5. ListRem(c, k, p) \in {f} \cup
          (IF k \in Linked(f) THEN {FreeEntries(b, {k}), WatchTouch(r, {k})} ELSE {})
  BY <1>2 DEF ListRem
<1> HIDE DEF f, q
<1>6. Consistent(r) /\ Linked(r) = Linked(f)
  BY <1>1, ResizeConsistent
<1> HIDE DEF r
<1>7. Consistent(b) /\ Linked(b) = Linked(f)
  <2>1. pay \in [Keys -> Nat]
    BY <1>1 DEF CoreType
  <2> HIDE DEF pay
  <2>2. b \in CoreType
    BY <1>1, <2>1 DEF CoreType
  <2>3. /\ b.hot = f.hot /\ b.cold = f.cold /\ b.pinned = f.pinned
        /\ b.expire_at = f.expire_at /\ b.type = f.type /\ b.layout = f.layout
        /\ b.nkeys = f.nkeys /\ b.hot_nkeys = f.hot_nkeys
        /\ b.cold_nkeys = f.cold_nkeys /\ b.keys_with_ttl = f.keys_with_ttl
        /\ b.pinned_keys = f.pinned_keys /\ b.type_nkeys = f.type_nkeys
    BY <1>1 DEF CoreType
  <2> HIDE DEF b
  <2> QED BY <1>1, <2>2, <2>3, SameCounters
<1> HIDE DEF b
<1>8. Consistent(WatchTouch(r, {k}))
  BY <1>6, WatchTouchConsistent
<1>9. ASSUME k \in Linked(f)
      PROVE  /\ Consistent(FreeEntries(f, {k}))
             /\ Consistent(FreeEntries(r, {k}))
             /\ Consistent(FreeEntries(b, {k}))
  <2>1. {k} \in SUBSET Linked(f)
    BY <1>9
  <2> QED BY <1>1, <1>6, <1>7, <2>1, FreeConsistent
<1> QED BY <1>1, <1>3, <1>4, <1>5, <1>8, <1>9

\* Pinning and unpinning.
LEMMA PinConsistent ==
    ASSUME NEW c, Consistent(c), NEW k \in Keys
    PROVE  Consistent(Pin(c, k)) /\ Consistent(Unpin(c, k))
<1> DEFINE f == FindEntry(c, k)
           ps == f.pinned \cup {k}
           pn == f.pinned_keys + 1
           d == [f EXCEPT !.pinned = ps, !.pinned_keys = pn]
           pk == Saturate(f.pinned_keys - 1)
           e == [f EXCEPT !.pinned = f.pinned \ {k}, !.pinned_keys = pk]
<1>1. /\ Consistent(f) /\ f \in CoreType
      /\ f.pinned \in SUBSET Keys /\ f.pinned_keys \in Nat
  BY FindConsistent DEF Consistent, CoreType
<1>2. /\ Pin(c, k) = IF k \in Linked(f) \ f.pinned THEN d ELSE f
      /\ Unpin(c, k) = IF k \in Linked(f) \cap f.pinned THEN e ELSE f
  BY DEF Pin, Unpin
<1> HIDE DEF f
<1>3. ASSUME k \in Linked(f) \ f.pinned PROVE Consistent(d)
  <2>0. ps \in SUBSET Keys /\ pn \in Nat
    BY <1>1
  <2> HIDE DEF ps, pn
  <2>1. d \in CoreType
    BY <1>1, <2>0 DEF CoreType
  <2>2. /\ d.hot = f.hot /\ d.cold = f.cold /\ d.pinned = f.pinned \cup {k}
        /\ d.expire_at = f.expire_at /\ d.type = f.type /\ d.layout = f.layout
        /\ d.nkeys = f.nkeys /\ d.hot_nkeys = f.hot_nkeys
        /\ d.cold_nkeys = f.cold_nkeys /\ d.keys_with_ttl = f.keys_with_ttl
        /\ d.pinned_keys = f.pinned_keys + 1 /\ d.type_nkeys = f.type_nkeys
    BY <1>1 DEF CoreType, ps, pn
  <2> HIDE DEF d
  <2>3. /\ Linked(d) = Linked(f) /\ HasTtl(d) = HasTtl(f)
        /\ \A t \in AllTypes : OfType(d, t) = OfType(f, t)
    BY <2>2 DEF Linked, HasTtl, OfType
  <2>4. /\ Cardinality(f.pinned \cup {k}) = Cardinality(f.pinned) + 1
        /\ Cardinality(f.pinned) \in Nat
    BY <1>1, <1>3, KeySets
  <2>5. d.pinned \subseteq Linked(d) /\ Cardinality(d.pinned) <= d.pinned_keys
    BY <1>1, <1>3, <2>2, <2>3, <2>4 DEF Consistent
  <2> QED BY <1>1, <2>1, <2>2, <2>3, <2>5 DEF Consistent
<1>4. ASSUME k \in Linked(f) \cap f.pinned PROVE Consistent(e)
  <2>1. pk \in Nat
    BY SaturateType
  <2> HIDE DEF pk
  <2>2. e \in CoreType
    BY <1>1, <2>1 DEF CoreType
  <2>3. /\ e.hot = f.hot /\ e.cold = f.cold /\ e.pinned = f.pinned \ {k}
        /\ e.expire_at = f.expire_at /\ e.type = f.type /\ e.layout = f.layout
        /\ e.nkeys = f.nkeys /\ e.hot_nkeys = f.hot_nkeys
        /\ e.cold_nkeys = f.cold_nkeys /\ e.keys_with_ttl = f.keys_with_ttl
        /\ e.pinned_keys = pk /\ e.type_nkeys = f.type_nkeys
    BY <1>1 DEF CoreType
  <2> HIDE DEF e
  <2>4. /\ Linked(e) = Linked(f) /\ HasTtl(e) = HasTtl(f)
        /\ \A t \in AllTypes : OfType(e, t) = OfType(f, t)
    BY <2>3 DEF Linked, HasTtl, OfType
  <2>5. /\ Cardinality(f.pinned \ {k}) = Saturate(Cardinality(f.pinned) - 1)
        /\ Cardinality(f.pinned) >= 1 /\ Cardinality(f.pinned) \in Nat
        /\ Cardinality(f.pinned) <= f.pinned_keys
    BY <1>1, <1>4, KeySets DEF Consistent
  <2>6. Cardinality(e.pinned) <= e.pinned_keys
    BY <1>1, <2>3, <2>5 DEF Saturate, pk
  <2>7. e.pinned \subseteq Linked(e)
    BY <1>1, <2>3, <2>4 DEF Consistent
  <2> QED BY <1>1, <2>2, <2>3, <2>4, <2>6, <2>7 DEF Consistent
<1> QED BY <1>1, <1>2, <1>3, <1>4

-----------------------------------------------------------------------------
(* The inductive invariant of the specification.                           *)

Inv == Consistent(core) /\ now \in Nat

LEMMA FreshConsistent ==
    ASSUME Consistent(core)
    PROVE  Consistent(Fresh) /\ Linked(Fresh) = Linked(core) /\ Due(Fresh) = Due(core)
<1>1. core \in CoreType
  BY DEF Consistent
<1>2. /\ Fresh \in CoreType
      /\ Fresh.hot = core.hot /\ Fresh.cold = core.cold /\ Fresh.pinned = core.pinned
      /\ Fresh.expire_at = core.expire_at /\ Fresh.type = core.type
      /\ Fresh.layout = core.layout /\ Fresh.nkeys = core.nkeys
      /\ Fresh.hot_nkeys = core.hot_nkeys /\ Fresh.cold_nkeys = core.cold_nkeys
      /\ Fresh.keys_with_ttl = core.keys_with_ttl
      /\ Fresh.pinned_keys = core.pinned_keys /\ Fresh.type_nkeys = core.type_nkeys
  BY <1>1 DEF Fresh, CoreType
<1>3. Due(Fresh) = Due(core)
  BY <1>2 DEF Due, HasTtl
<1> QED BY <1>2, <1>3, SameCounters

\* The settings no counter depends on.
LEMMA SettingsConsistent ==
    ASSUME NEW c, Consistent(c), NEW e \in {"noop", "sampled", "plugin"},
           NEW m \in Nat, NEW b \in BOOLEAN
    PROVE  /\ Consistent([c EXCEPT !.evict = e])
           /\ Consistent([c EXCEPT !.maxmemory = m])
           /\ Consistent([c EXCEPT !.hot_promote_on_get = b])
<1>1. c \in CoreType
  BY DEF Consistent
<1>2. ASSUME NEW d \in {[c EXCEPT !.evict = e], [c EXCEPT !.maxmemory = m],
                        [c EXCEPT !.hot_promote_on_get = b]}
      PROVE  Consistent(d)
  <2>1. /\ d \in CoreType
        /\ d.hot = c.hot /\ d.cold = c.cold /\ d.pinned = c.pinned
        /\ d.expire_at = c.expire_at /\ d.type = c.type /\ d.layout = c.layout
        /\ d.nkeys = c.nkeys /\ d.hot_nkeys = c.hot_nkeys
        /\ d.cold_nkeys = c.cold_nkeys /\ d.keys_with_ttl = c.keys_with_ttl
        /\ d.pinned_keys = c.pinned_keys /\ d.type_nkeys = c.type_nkeys
    BY <1>1 DEF CoreType
  <2> QED BY <2>1, SameCounters
<1> QED BY <1>2

LEMMA EmptyConsistent == Consistent(EmptyCore)
<1> DEFINE c == EmptyCore
<1>1. c \in CoreType
  BY DEF EmptyCore, CoreType, AllTypes
<1>2. /\ c.hot = {} /\ c.cold = {} /\ c.pinned = {} /\ c.layout = "flat"
      /\ c.nkeys = 0 /\ c.hot_nkeys = 0 /\ c.cold_nkeys = 0
      /\ c.keys_with_ttl = 0 /\ c.pinned_keys = 0
      /\ c.expire_at = [k \in Keys |-> 0]
      /\ c.type_nkeys = [t \in AllTypes |-> 0]
  BY DEF EmptyCore
<1> HIDE DEF c
<1>3. Linked(c) = {} /\ HasTtl(c) = {} /\ \A t \in AllTypes : OfType(c, t) = {}
  BY <1>2 DEF Linked, HasTtl, OfType
<1>4. Cardinality({}) = 0
  BY FS_EmptySet
<1>5. \A t \in AllTypes : c.type_nkeys[t] = Cardinality(OfType(c, t))
  BY <1>2, <1>3, <1>4
<1>6. Consistent(c)
  BY <1>1, <1>2, <1>3, <1>4, <1>5 DEF Consistent
<1> QED BY <1>6 DEF c

LEMMA InitConsistent == Init => Inv
BY EmptyConsistent DEF Init, Inv

\* Absolute deadlines are natural numbers.
LEMMA ExpiriesType == now \in Nat => Expiries \subseteq Nat
<1> SUFFICES ASSUME now \in Nat, NEW t \in Expiries PROVE t \in Nat
  OBVIOUS
<1>1. t = 0 \/ t \in Deadlines \/ t \in {now + d : d \in Durations}
  BY DEF Expiries
<1>2. CASE t \in {now + d : d \in Durations}
  <2>1. PICK d \in Durations : t = now + d
    BY <1>2
  <2>2. d \in Nat
    BY TimeAssumption
  <2> QED BY <2>1, <2>2
<1>3. CASE t \in Deadlines
  BY <1>3, TimeAssumption
<1>4. CASE t = 0
  BY <1>4
<1> QED BY <1>1, <1>2, <1>3, <1>4

\* A step whose possible records are all consistent.
LEMMA StepInv ==
    ASSUME NEW S, Inv, Step(S), \A d \in S : Consistent(d)
    PROVE  Inv'
<1>1. core' \in S /\ now' = now
  BY DEF Step
<1>2. Consistent(core')
  BY <1>1
<1>3. Consistent(core)'
  BY <1>2 DEF Consistent, CoreType, AllTypes, Linked, HasTtl, OfType
<1> QED BY <1>1, <1>3 DEF Inv

\* Every action preserves the invariant.
LEMMA NextInv == Inv /\ [Next]_vars => Inv'
<1> SUFFICES ASSUME Inv, [Next]_vars PROVE Inv'
  OBVIOUS
<1>1. /\ Consistent(core) /\ Consistent(Fresh) /\ now \in Nat
      /\ Linked(Fresh) = Linked(core) /\ core \in CoreType
  BY FreshConsistent DEF Inv, Consistent
<1>2. ValLens \subseteq Nat /\ Types \subseteq AllTypes /\ Expiries \subseteq Nat
  BY <1>1, SizeAssumption, TypesAssumption, ExpiriesType
<1>3. ASSUME NEW k \in Keys, SetCmd(k) PROVE Inv'
  <2> DEFINE f == FindEntry(Fresh, k)
  <2>1. PICK p \in ValLens, t \in Expiries : Step({f}) \/ Step(EntrySetEx(f, k, p, t))
    BY <1>3 DEF SetCmd
  <2>2. Consistent(f) /\ p \in Nat /\ t \in Nat
    BY <1>1, <1>2, FindConsistent
  <2> HIDE DEF f
  <2>3. \A d \in EntrySetEx(f, k, p, t) : Consistent(d)
    BY <2>2, EntrySetConsistent
  <2> QED BY <2>1, <2>2, <2>3, StepInv
<1>4. ASSUME NEW k \in Keys, SetKeepTtl(k) PROVE Inv'
  <2> DEFINE f == FindEntry(Fresh, k)
             t == f.expire_at[k]
  <2>1. PICK p \in ValLens : Step(EntrySetEx(f, k, p, t))
    BY <1>4 DEF SetKeepTtl
  <2>2. Consistent(f) /\ p \in Nat
    BY <1>1, <1>2, FindConsistent
  <2>3. t \in Nat
    BY <2>2 DEF Consistent, CoreType
  <2> HIDE DEF f, t
  <2>4. \A d \in EntrySetEx(f, k, p, t) : Consistent(d)
    BY <2>2, <2>3, EntrySetConsistent
  <2> QED BY <2>1, <2>4, StepInv
<1>5. ASSUME NEW k \in Keys, GetSet(k) PROVE Inv'
  <2> DEFINE After(g, p) == IF k \in Linked(g) /\ g.type[k] # "string" THEN {g}
                            ELSE EntrySetEx(g, k, p, 0)
             S(p) == UNION {After(g, p) : g \in GetPtr(Fresh, k)}
  <2>1. PICK p \in ValLens : Step(S(p))
    BY <1>5 DEF GetSet
  <2>2. ASSUME NEW d \in S(p) PROVE Consistent(d)
    <3>1. PICK g \in GetPtr(Fresh, k) : d \in After(g, p)
      BY <2>2
    <3>2. Consistent(g) /\ p \in Nat
      BY <1>1, <1>2, GetPtrConsistent
    <3>3. d = g \/ d \in EntrySetEx(g, k, p, 0)
      BY <3>1
    <3> QED BY <3>2, <3>3, EntrySetConsistent
  <2> HIDE DEF S
  <2> QED BY <2>1, <2>2, StepInv
<1>6. ASSUME NEW k \in Keys, Get(k) PROVE Inv'
  BY <1>1, <1>6, GetPtrConsistent, StepInv DEF Get
<1>7. ASSUME NEW k \in Keys, Lookup(k) PROVE Inv'
  BY <1>1, <1>7, FindConsistent, StepInv DEF Lookup
<1>8. ASSUME NEW k \in Keys, AppendCmd(k) PROVE Inv'
  BY <1>1, <1>2, <1>8, AppendConsistent, StepInv DEF AppendCmd
<1>9. ASSUME NEW k \in Keys, IncrCmd(k) PROVE Inv'
  BY <1>1, <1>2, <1>9, IncrConsistent, StepInv DEF IncrCmd
<1>10. ASSUME NEW k \in Keys, ExpireCmd(k) PROVE Inv'
  BY <1>1, <1>2, <1>10, ExpireConsistent, StepInv DEF ExpireCmd
<1>11. ASSUME NEW k \in Keys, ObjectAddCmd(k) PROVE Inv'
  BY <1>1, <1>2, <1>11, ObjectAddConsistent, StepInv DEF ObjectAddCmd
<1>12. ASSUME NEW k \in Keys, ObjectRemoveCmd(k) PROVE Inv'
  BY <1>1, <1>2, <1>12, ObjectRemoveConsistent, StepInv DEF ObjectRemoveCmd
<1>13. ASSUME NEW k \in Keys, ListTrimCmd(k) PROVE Inv'
  BY <1>1, <1>2, <1>13, ObjectRemoveConsistent, StepInv DEF ListTrimCmd
<1>14. ASSUME NEW k \in Keys, ListRemCmd(k) PROVE Inv'
  BY <1>1, <1>2, <1>14, ObjectRemoveConsistent, StepInv DEF ListRemCmd
<1>15. ASSUME NEW k \in Keys, PinCmd(k) \/ UnpinCmd(k) PROVE Inv'
  BY <1>1, <1>15, PinConsistent, StepInv DEF PinCmd, UnpinCmd
<1>16. ASSUME NEW j \in Keys, NEW k \in Keys, MSet(j, k) PROVE Inv'
  <2> DEFINE S(p, q) == UNION {EntrySetEx(d, k, q, 0) : d \in EntrySetEx(Fresh, j, p, 0)}
  <2>1. PICK p \in ValLens, q \in ValLens : Step(S(p, q))
    BY <1>16 DEF MSet
  <2>2. ASSUME NEW d \in S(p, q) PROVE Consistent(d)
    <3>1. PICK g \in EntrySetEx(Fresh, j, p, 0) : d \in EntrySetEx(g, k, q, 0)
      BY <2>2
    <3>2. Consistent(g) /\ p \in Nat /\ q \in Nat
      BY <1>1, <1>2, EntrySetConsistent
    <3> QED BY <3>1, <3>2, EntrySetConsistent
  <2> HIDE DEF S
  <2> QED BY <2>1, <2>2, StepInv
<1>17. ASSUME NEW j \in Keys, NEW k \in Keys, MGet(j, k) PROVE Inv'
  <2> DEFINE S == UNION {GetPtr(d, k) : d \in GetPtr(Fresh, j)}
  <2>1. ASSUME NEW d \in S PROVE Consistent(d)
    <3>1. PICK g \in GetPtr(Fresh, j) : d \in GetPtr(g, k)
      BY <2>1
    <3> QED BY <1>1, <3>1, GetPtrConsistent
  <2>2. Step(S)
    BY <1>17 DEF MGet
  <2> HIDE DEF S
  <2> QED BY <2>1, <2>2, StepInv
<1>18. ASSUME NEW j \in Keys, NEW k \in Keys, Del(j, k) PROVE Inv'
  BY <1>1, <1>18, DelConsistent, StepInv DEF Del
<1>19. ASSUME NEW j \in Keys, NEW k \in Keys, RenameCmd(j, k) PROVE Inv'
  BY <1>1, <1>19, RenameConsistent, StepInv DEF RenameCmd
<1>20. ASSUME FlushDbCmd PROVE Inv'
  BY <1>1, <1>20, FlushConsistent, StepInv DEF FlushDbCmd
<1>21. ASSUME LayoutCmd PROVE Inv'
  BY <1>1, <1>21, KnobAssumption, MigrateConsistent, StepInv DEF LayoutCmd
<1>22. ASSUME AdaptLayout PROVE Inv'
  <2>1. PICK d \in {MigrateTo(Fresh, "hot_cold"), MigrateTo(Fresh, "flat"), Fresh} :
           Step({d})
    BY <1>22 DEF AdaptLayout
  <2>2. Consistent(d)
    BY <1>1, MigrateConsistent
  <2> QED BY <2>1, <2>2, StepInv
<1>23. ASSUME EvictCmd PROVE Inv'
  <2> DEFINE r(e) == [Fresh EXCEPT !.evict = e]
  <2>1. PICK e \in EvictNames : Step({r(e)}) \/ Step(MaybeEvict(r(e)))
    BY <1>23 DEF EvictCmd
  <2>2. Consistent(r(e))
    BY <1>1, KnobAssumption, SettingsConsistent
  <2> HIDE DEF r
  <2> QED BY <2>1, <2>2, EvictConsistent, StepInv
<1>24. ASSUME SetMaxmemory PROVE Inv'
  <2>1. PICK m \in MaxMemories : Step(MaybeEvict([Fresh EXCEPT !.maxmemory = m]))
    BY <1>24 DEF SetMaxmemory
  <2>2. Consistent([Fresh EXCEPT !.maxmemory = m])
    BY <1>1, KnobAssumption, SettingsConsistent
  <2> QED BY <2>1, <2>2, EvictConsistent, StepInv
<1>25. ASSUME SetPromoteOnGet PROVE Inv'
  <2> DEFINE b == ~ Fresh.hot_promote_on_get
  <2>1. Step({[Fresh EXCEPT !.hot_promote_on_get = b]}) /\ b \in BOOLEAN
    BY <1>25 DEF SetPromoteOnGet
  <2> HIDE DEF b
  <2>2. Consistent([Fresh EXCEPT !.hot_promote_on_get = b])
    BY <1>1, <2>1, SettingsConsistent
  <2> QED BY <2>1, <2>2, StepInv
<1>26. ASSUME NEW X \in SUBSET Keys, ActiveExpire(X) PROVE Inv'
  <2>1. Sampled(core) \cap Due(core) \subseteq Linked(core)
    BY DEF Sampled, Linked
  <2>2. X \subseteq Linked(core)
    BY <1>26, <2>1 DEF ActiveExpire
  <2> QED BY <1>1, <1>26, <2>2, FreeConsistent, StepInv DEF ActiveExpire
<1>27. ASSUME ScanPurge PROVE Inv'
  BY <1>1, <1>27, FreeConsistent, StepInv DEF ScanPurge
<1>28. ASSUME Tick PROVE Inv'
  <2>1. core' = Fresh /\ now' \in Nat
    BY <1>1, <1>28 DEF Tick
  <2>2. Consistent(core)'
    BY <1>1, <2>1 DEF Consistent, CoreType, AllTypes, Linked, HasTtl, OfType
  <2> QED BY <2>1, <2>2 DEF Inv
<1>29. ASSUME UNCHANGED vars PROVE Inv'
  BY <1>29 DEF vars, Inv, Consistent, CoreType, AllTypes, Linked, HasTtl, OfType
<1> QED BY <1>3, <1>4, <1>5, <1>6, <1>7, <1>8, <1>9, <1>10, <1>11, <1>12, <1>13,
           <1>14, <1>15, <1>16, <1>17, <1>18, <1>19, <1>20, <1>21, <1>22, <1>23,
           <1>24, <1>25, <1>26, <1>27, <1>28, <1>29 DEF Next

LEMMA InvAlways == Spec => []Inv
BY InitConsistent, NextInv, PTL DEF Spec

\* Type correctness: every step leaves the record and the clock well formed;
\* in particular no counter is ever driven below zero.
THEOREM TypeCorrect == Spec => []TypeOK
<1>1. Inv => TypeOK
  BY DEF Inv, Consistent, TypeOK
<1> QED BY <1>1, InvAlways, PTL

\* The counters of keys, tiers, TTLs and types agree with the tables for any
\* number of keys, whatever eviction, demotion and active expiry sample.
THEOREM CountersAgree == Spec => []CountersExact
<1>1. Inv => CountersExact
  BY DEF Inv, Consistent, CountersExact, OfType
<1> QED BY <1>1, InvAlways, PTL

\* No entry is ever linked in two tables.
THEOREM TablesStayDisjoint == Spec => []TablesDisjoint
<1>1. Inv => TablesDisjoint
  BY DEF Inv, Consistent, TablesDisjoint
<1> QED BY <1>1, InvAlways, PTL

\* pinned_keys may over-report (FLUSHDB does not reset it), never under-report.
THEOREM PinsCounted == Spec => []PinsNotUndercounted
<1>1. Inv => PinsNotUndercounted
  BY DEF Inv, Consistent, PinsNotUndercounted
<1> QED BY <1>1, InvAlways, PTL

-----------------------------------------------------------------------------
(***************************************************************************)
(* The dictionary tells the watchers of every key it changes               *)
(* (WatchSeesEveryChange).  A command is a chain of C functions, each of   *)
(* which changes entries and calls ar_watch_touch somewhere along the way. *)
(* The proof follows the chain with three relations between the record     *)
(* before and after:                                                       *)
(*   Loses     keys are only lost, and each loss is notified;              *)
(*   Edits     the keys of K change, nobody is notified yet;               *)
(*   Tells     every difference is notified: what the theorem needs.       *)
(***************************************************************************)

\* The parts of Observable, one by one.
Same(c, d, k) ==
    /\ k \in Linked(d) <=> k \in Linked(c)
    /\ d.payload[k] = c.payload[k]
    /\ d.type[k] = c.type[k]
    /\ d.expire_at[k] = c.expire_at[k]

Gone(d, k) ==
    /\ k \notin Linked(d)
    /\ d.payload[k] = 0 /\ d.type[k] = "string" /\ d.expire_at[k] = 0

Loses(c, d) ==
    /\ c.touched \subseteq d.touched
    /\ \A k \in Keys : Same(c, d, k) \/ (Gone(d, k) /\ k \in d.touched)

Edits(c, d, K) ==
    /\ d.touched = c.touched
    /\ \A k \in Keys \ K : Same(c, d, k)

Tells(c, d) ==
    /\ c.touched \subseteq d.touched
    /\ \A k \in Keys : Same(c, d, k) \/ k \in d.touched

-----------------------------------------------------------------------------
(* How the relations compose.                                              *)

LEMMA LosesChain ==
    ASSUME NEW c, NEW d, NEW e, Loses(c, d), Loses(d, e)
    PROVE  Loses(c, e)
BY DEF Loses, Same, Gone

LEMMA TellsChain ==
    ASSUME NEW c, NEW d, NEW e, Tells(c, d), Tells(d, e)
    PROVE  Tells(c, e)
BY DEF Tells, Same

LEMMA LosesTells ==
    ASSUME NEW c, NEW d, Loses(c, d)
    PROVE  Tells(c, d)
BY DEF Tells, Loses

LEMMA NothingLost == \A c : Loses(c, c)
BY DEF Loses, Same

LEMMA NothingEdited ==
    ASSUME NEW c, NEW d, Edits(c, d, {})
    PROVE  Loses(c, d)
BY DEF Loses, Edits

\* An edit, evictions, and the notification that ends the command.
LEMMA EditTells ==
    ASSUME NEW c, NEW s, NEW e, NEW d, NEW K \in SUBSET Keys,
           Edits(c, s, K), Loses(s, e),
           d.touched = e.touched \cup K, \A k \in Keys : Same(e, d, k)
    PROVE  Tells(c, d)
BY DEF Tells, Edits, Loses, Same

-----------------------------------------------------------------------------
(* The single changes of the record.                                       *)

LEMMA TouchSame ==
    ASSUME NEW c \in CoreType, NEW K \in SUBSET Keys
    PROVE  /\ WatchTouch(c, K).touched = c.touched \cup K
           /\ \A k \in Keys : Same(c, WatchTouch(c, K), k)
BY DEF WatchTouch, CoreType, Same, Linked

LEMMA FreeLoses ==
    ASSUME NEW c \in CoreType, NEW F \in SUBSET Keys
    PROVE  /\ Loses(c, FreeEntries(c, F))
           /\ FreeEntries(c, F).touched = c.touched \cup F
           /\ \A k \in F : Gone(FreeEntries(c, F), k)
           /\ \A k \in Keys \ F : Same(c, FreeEntries(c, F), k)
<1> DEFINE x == DiscountBytes(DiscountKeys(c, F), F)
           z == Unlink(x, F)
           d == FreeEntries(c, F)
<1>1. /\ x \in CoreType
      /\ x.hot = c.hot /\ x.cold = c.cold /\ x.payload = c.payload
      /\ x.expire_at = c.expire_at /\ x.type = c.type /\ x.touched = c.touched
  <2> DEFINE y == DiscountKeys(c, F)
  <2>1. /\ y \in CoreType
        /\ y.hot = c.hot /\ y.cold = c.cold /\ y.payload = c.payload
        /\ y.expire_at = c.expire_at /\ y.type = c.type /\ y.touched = c.touched
    BY SaturateType DEF DiscountKeys, CoreType
  <2> HIDE DEF y
  <2>2. /\ DiscountBytes(y, F) \in CoreType
        /\ DiscountBytes(y, F).hot = y.hot /\ DiscountBytes(y, F).cold = y.cold
        /\ DiscountBytes(y, F).payload = y.payload
        /\ DiscountBytes(y, F).expire_at = y.expire_at
        /\ DiscountBytes(y, F).type = y.type
        /\ DiscountBytes(y, F).touched = y.touched
    BY <2>1, SaturateType DEF DiscountBytes, CoreType
  <2> QED BY <2>1, <2>2 DEF y
<1> HIDE DEF x
<1>2. /\ z \in CoreType
      /\ z.hot = x.hot \ F /\ z.cold = x.cold \ F
      /\ z.payload = [k \in Keys |-> IF k \in F THEN 0 ELSE x.payload[k]]
      /\ z.expire_at = [k \in Keys |-> IF k \in F THEN 0 ELSE x.expire_at[k]]
      /\ z.type = [k \in Keys |-> IF k \in F THEN "string" ELSE x.type[k]]
      /\ z.touched = x.touched
  BY <1>1 DEF Unlink, CoreType, AllTypes
<1>3. d = WatchTouch(z, F)
  BY DEF FreeEntries, x
<1> HIDE DEF z, d
<1>4. d.touched = z.touched \cup F /\ \A k \in Keys : Same(z, d, k)
  BY <1>2, <1>3, TouchSame
<1>5. \A k \in F : Gone(z, k)
  BY <1>1, <1>2 DEF Gone, Linked
<1>6. \A k \in Keys \ F : Same(c, z, k)
  BY <1>1, <1>2 DEF Same, Linked
<1>7. c.touched \cup F = d.touched
  BY <1>1, <1>2, <1>4
<1>8. \A k \in F : Gone(d, k)
  BY <1>4, <1>5 DEF Gone, Same
<1>9. \A k \in Keys \ F : Same(c, d, k)
  BY <1>4, <1>6 DEF Same
<1>10. Loses(c, d)
  BY <1>7, <1>8, <1>9 DEF Loses
<1> QED BY <1>7, <1>8, <1>9, <1>10 DEF d

\* A lookup either frees the entry or changes nothing.
LEMMA FindLoses ==
    ASSUME NEW c \in CoreType, NEW k \in Keys
    PROVE  Loses(c, FindEntry(c, k))
<1>1. CASE k \in Linked(c) \cap Due(c)
  BY <1>1, FreeLoses DEF FindEntry
<1>2. CASE k \notin Linked(c) \cap Due(c)
  BY <1>2, NothingLost DEF FindEntry
<1> QED BY <1>1, <1>2

LEMMA SetExpireEdits ==
    ASSUME NEW c \in CoreType, NEW k \in Keys, NEW t \in Nat
    PROVE  LET d == SetExpireAt(c, k, t) IN
           /\ Edits(c, d, {k})
           /\ Linked(d) = Linked(c) /\ d.payload = c.payload /\ d.type = c.type
           /\ d.expire_at[k] = t
<1> DEFINE x == ClearExpire(c, k)
           d == SetExpireAt(c, k, t)
<1>1. /\ x \in CoreType
      /\ x.hot = c.hot /\ x.cold = c.cold /\ x.payload = c.payload
      /\ x.type = c.type /\ x.touched = c.touched
      /\ x.expire_at = [c.expire_at EXCEPT ![k] = 0]
  <2>1. CASE c.expire_at[k] = 0
    <3>1. c.expire_at = [c.expire_at EXCEPT ![k] = 0]
      BY <2>1 DEF CoreType
    <3> QED BY <2>1, <3>1 DEF ClearExpire
  <2>2. CASE c.expire_at[k] # 0
    BY <2>2, SaturateType DEF ClearExpire, CoreType
  <2> QED BY <2>1, <2>2
<1>2. /\ d.hot = x.hot /\ d.cold = x.cold /\ d.payload = x.payload
      /\ d.type = x.type /\ d.touched = x.touched
      /\ d.expire_at = [x.expire_at EXCEPT ![k] = t]
  <2>1. CASE t = 0
    <3>1. x.expire_at = [x.expire_at EXCEPT ![k] = 0]
      BY <1>1 DEF CoreType
    <3>2. d = x
      BY <2>1 DEF SetExpireAt
    <3> QED BY <2>1, <3>1, <3>2
  <2>2. CASE t # 0
    <3>1. d = [x EXCEPT !.expire_at[k] = t, !.keys_with_ttl = @ + 1,
                        !.expire_at_sum = @ + t]
      BY <2>2 DEF SetExpireAt
    <3> HIDE DEF x, d
    <3> QED BY <1>1, <3>1 DEF CoreType
  <2> QED BY <2>1, <2>2
<1> HIDE DEF x, d
<1>3. d.expire_at = [c.expire_at EXCEPT ![k] = t] /\ c.expire_at \in [Keys -> Nat]
  BY <1>1, <1>2 DEF CoreType
<1>4. Edits(c, d, {k})
  BY <1>1, <1>2, <1>3 DEF Edits, Same, Linked
<1> QED BY <1>1, <1>2, <1>3, <1>4 DEF Linked, d

LEMMA LinkEdits ==
    ASSUME NEW c \in CoreType, NEW k \in Keys, NEW ty \in AllTypes, NEW p \in Nat
    PROVE  LET d == LinkNew(c, k, ty, p) IN
           /\ Edits(c, d, {k})
           /\ k \in Linked(d) /\ d.payload[k] = p /\ d.type[k] = ty
           /\ d.expire_at = c.expire_at
<1> DEFINE d == LinkNew(c, k, ty, p)
<1>1. /\ d.hot = c.hot \cup {k} /\ d.cold = c.cold
      /\ d.payload = [c.payload EXCEPT ![k] = p]
      /\ d.type = [c.type EXCEPT ![k] = ty]
      /\ d.expire_at = c.expire_at /\ d.touched = c.touched
  BY DEF LinkNew, CoreType
<1> HIDE DEF d
<1>2. c.payload \in [Keys -> Nat] /\ c.type \in [Keys -> AllTypes]
  BY DEF CoreType
<1>3. Edits(c, d, {k})
  BY <1>1, <1>2 DEF Edits, Same, Linked
<1> QED BY <1>1, <1>2, <1>3 DEF Linked, d

LEMMA ReplaceEdits ==
    ASSUME NEW c \in CoreType, NEW k \in Keys, NEW p \in Nat
    PROVE  LET d == ReplaceByString(c, k, p) IN
           /\ Edits(c, d, {k})
           /\ Linked(d) = Linked(c) /\ d.payload[k] = p /\ d.type[k] = "string"
           /\ d.expire_at = c.expire_at
<1> DEFINE d == ReplaceByString(c, k, p)
<1>1. c.payload \in [Keys -> Nat] /\ c.type \in [Keys -> AllTypes]
  BY DEF CoreType
<1>2. /\ d.hot = c.hot /\ d.cold = c.cold
      /\ d.payload = [c.payload EXCEPT ![k] = p]
      /\ d.type = [c.type EXCEPT ![k] = "string"]
      /\ d.expire_at = c.expire_at /\ d.touched = c.touched
  <2>1. CASE c.type[k] = "string"
    <3>1. c.type = [c.type EXCEPT ![k] = "string"]
      BY <1>1, <2>1
    <3> QED BY <2>1, <3>1 DEF ReplaceByString, CoreType
  <2>2. CASE c.type[k] # "string"
    BY <2>2 DEF ReplaceByString, CoreType
  <2> QED BY <2>1, <2>2
<1> HIDE DEF d
<1>3. Edits(c, d, {k})
  BY <1>1, <1>2 DEF Edits, Same, Linked
<1> QED BY <1>1, <1>2, <1>3 DEF Linked, d

LEMMA ResizeEdits ==
    ASSUME NEW c \in CoreType, NEW k \in Keys, NEW p \in Nat
    PROVE  Edits(c, ResizeObject(c, k, p), {k})
<1> DEFINE d == ResizeObject(c, k, p)
<1>1. /\ d.hot = c.hot /\ d.cold = c.cold
      /\ d.payload = [c.payload EXCEPT ![k] = p]
      /\ d.type = c.type
      /\ d.expire_at = c.expire_at /\ d.touched = c.touched
  BY DEF ResizeObject, CoreType
<1> HIDE DEF d
<1>2. c.payload \in [Keys -> Nat]
  BY DEF CoreType
<1>3. Edits(c, d, {k})
  BY <1>1, <1>2 DEF Edits, Same, Linked
<1> QED BY <1>3 DEF d

\* Between the tables an entry moves as it is.
LEMMA DemoteSame ==
    ASSUME NEW c \in CoreType, NEW d \in MaybeDemoteHot(c)
    PROVE  Edits(c, d, {})
<1>1. CASE c.layout = "hot_cold" /\ c.hot_nkeys > HotSoftCap(c)
  <2>1. PICK D \in SUBSET c.hot : d = Demote(c, D)
    BY <1>1 DEF MaybeDemoteHot
  <2>2. /\ d.hot = c.hot \ D /\ d.cold = c.cold \cup D
        /\ d.payload = c.payload /\ d.type = c.type
        /\ d.expire_at = c.expire_at /\ d.touched = c.touched
    BY <2>1 DEF Demote, CoreType
  <2>3. Linked(d) = Linked(c)
    BY <2>2 DEF Linked
  <2> QED BY <2>2, <2>3 DEF Edits, Same
<1>2. CASE ~ (c.layout = "hot_cold" /\ c.hot_nkeys > HotSoftCap(c))
  BY <1>2 DEF MaybeDemoteHot, Edits, Same
<1> QED BY <1>1, <1>2

LEMMA TouchGetSame ==
    ASSUME NEW c \in CoreType, NEW k \in Keys, NEW d \in TouchGet(c, k)
    PROVE  Edits(c, d, {})
<1>1. CASE c.layout = "hot_cold" /\ k \in c.cold \ c.hot /\ c.hot_promote_on_get
  <2> DEFINE cn == Saturate(c.cold_nkeys - 1)
             hn == c.hot_nkeys + 1
             e == [c EXCEPT !.cold = c.cold \ {k}, !.hot = c.hot \cup {k},
                            !.cold_nkeys = cn, !.hot_nkeys = hn]
  <2>1. cn \in Nat /\ hn \in Nat
    BY SaturateType DEF CoreType
  <2>2. d \in MaybeDemoteHot(e)
    BY <1>1 DEF TouchGet, CoreType
  <2> HIDE DEF cn, hn
  <2>3. e \in CoreType
    BY <2>1 DEF CoreType
  <2>4. /\ e.hot = c.hot \cup {k} /\ e.cold = c.cold \ {k}
        /\ e.payload = c.payload /\ e.type = c.type
        /\ e.expire_at = c.expire_at /\ e.touched = c.touched
    BY DEF CoreType
  <2> HIDE DEF e
  <2>5. Edits(e, d, {})
    BY <2>2, <2>3, DemoteSame
  <2>6. Linked(e) = Linked(c)
    BY <1>1, <2>4 DEF Linked
  <2>7. Edits(c, e, {})
    BY <2>4, <2>6 DEF Edits, Same
  <2> QED BY <2>5, <2>7 DEF Edits, Same
<1>2. CASE ~ (c.layout = "hot_cold" /\ k \in c.cold \ c.hot /\ c.hot_promote_on_get)
  BY <1>2 DEF TouchGet, Edits, Same
<1> QED BY <1>1, <1>2

LEMMA MigrateLoses ==
    ASSUME NEW c, Consistent(c), NEW name \in {"flat", "hot_cold"}
    PROVE  Loses(c, MigrateTo(c, name))
<1> DEFINE d == MigrateTo(c, name)
<1>1. c \in CoreType
  BY DEF Consistent
<1>2. d = c \/ d = MigrateToHotCold(c) \/ d = MigrateToFlat(c)
  BY DEF MigrateTo
<1> HIDE DEF d
<1>3. /\ Linked(d) = Linked(c) /\ d.payload = c.payload /\ d.type = c.type
      /\ d.expire_at = c.expire_at /\ d.touched = c.touched
  <2>1. CASE d = MigrateToHotCold(c)
    BY <1>1, <2>1 DEF MigrateToHotCold, CoreType, Linked
  <2>2. CASE d = MigrateToFlat(c)
    <3>1. /\ d.hot = Linked(c) /\ d.cold = {} /\ d.payload = c.payload
          /\ d.type = c.type /\ d.expire_at = c.expire_at /\ d.touched = c.touched
      BY <1>1, <2>2 DEF MigrateToFlat, CoreType
    <3>2. Linked(d) = Linked(c)
      BY <3>1 DEF Linked
    <3> QED BY <3>1, <3>2
  <2> QED BY <1>2, <2>1, <2>2
<1>4. Loses(c, d)
  BY <1>3 DEF Loses, Same
<1> QED BY <1>4 DEF d

\* Eviction loses keys and tells their watchers, whichever it samples.
LEMMA EvictLoses ==
    ASSUME NEW c, Consistent(c), NEW d \in MaybeEvict(c)
    PROVE  Loses(c, d)
<1>1. CASE c.evict = "noop" \/ ~ OverMaxmemory(c)
  BY <1>1, NothingLost DEF MaybeEvict
<1>2. CASE ~ (c.evict = "noop" \/ ~ OverMaxmemory(c))
  <2>1. PICK E \in SUBSET Victims(c), X \in SUBSET Purgeable(c) :
                d = FreeEntries(c, E \cup X)
    BY <1>2 DEF MaybeEvict
  <2>2. E \cup X \in SUBSET Linked(c)
    BY DEF Victims, Purgeable, Sampled, Linked
  <2>3. c \in CoreType /\ E \cup X \in SUBSET Keys
    BY <2>2 DEF Consistent, CoreType, Linked
  <2> QED BY <2>1, <2>3, FreeLoses
<1> QED BY <1>1, <1>2

-----------------------------------------------------------------------------
(* The functions the commands call.                                        *)

\* What a write leaves under its key: the value, or nothing if the new entry
\* is evicted at once.
Stored(d, k, p, t) ==
    /\ k \in Linked(d)
    /\ d.payload[k] = p /\ d.type[k] = "string" /\ d.expire_at[k] = t

LEMMA EntrySetOutcome ==
    ASSUME NEW c, Consistent(c), NEW k \in Keys, NEW p \in Nat, NEW t \in Nat,
           NEW d \in EntrySetEx(c, k, p, t)
    PROVE  /\ c.touched \subseteq d.touched /\ k \in d.touched
           /\ Stored(d, k, p, t) \/ Gone(d, k)
           /\ \A j \in Keys \ {k} :
                 Same(c, d, j) \/ (Gone(d, j) /\ j \in d.touched)
<1> DEFINE f == FindEntry(c, k)
           ro == ReplaceByString(f, k, p)
           rn == LinkNew(f, k, "string", p)
<1>1. Consistent(f) /\ f \in CoreType /\ "string" \in AllTypes /\ Loses(c, f)
  BY FindConsistent, FindLoses DEF AllTypes, Consistent
<1>2. PICK s \in IF k \in Linked(f) THEN TouchGet(SetExpireAt(ro, k, t), k)
                 ELSE MaybeDemoteHot(SetExpireAt(rn, k, t)) :
         \E e \in MaybeEvict(s) : d = WatchTouch(e, {k})
  BY DEF EntrySetEx
<1> HIDE DEF f
<1>3. Consistent(s) /\ Edits(f, s, {k}) /\ Stored(s, k, p, t)
  <2> DEFINE r == IF k \in Linked(f) THEN ro ELSE rn
             x == SetExpireAt(r, k, t)
  <2>1. /\ Consistent(r) /\ k \in Linked(r)
        /\ Edits(f, r, {k}) /\ r.payload[k] = p /\ r.type[k] = "string"
    <3>1. CASE k \in Linked(f)
      BY <1>1, <3>1, ReplaceConsistent, ReplaceEdits
    <3>2. CASE k \notin Linked(f)
      BY <1>1, <3>2, LinkConsistent, LinkEdits
    <3> QED BY <3>1, <3>2
  <2>2. s \in TouchGet(x, k) \/ s \in MaybeDemoteHot(x)
    BY <1>2
  <2> HIDE DEF r, ro, rn
  <2>3. r \in CoreType
    BY <2>1 DEF Consistent
  <2>4. /\ Consistent(x) /\ Linked(x) = Linked(r)
        /\ Edits(r, x, {k}) /\ x.payload = r.payload /\ x.type = r.type
        /\ x.expire_at[k] = t
    <3>1. Consistent(x)
      BY <2>1, SetExpireConsistent
    <3> QED BY <2>3, <3>1, SetExpireEdits
  <2> HIDE DEF x
  <2>5. x \in CoreType
    BY <2>4 DEF Consistent
  <2>6. Consistent(s) /\ s.touched = x.touched /\ \A j \in Keys : Same(x, s, j)
    <3>1. Consistent(s)
      BY <2>2, <2>4, TouchGetConsistent, MaybeDemoteConsistent
    <3>2. Edits(x, s, {})
      BY <2>2, <2>5, TouchGetSame, DemoteSame
    <3> QED BY <3>1, <3>2 DEF Edits
  <2>7. Edits(f, s, {k})
    BY <2>1, <2>4, <2>6 DEF Edits, Same
  <2> QED BY <2>1, <2>4, <2>6, <2>7 DEF Stored, Same
<1>4. PICK e \in MaybeEvict(s) : d = WatchTouch(e, {k})
  BY <1>2
<1>5. Consistent(e) /\ Loses(s, e) /\ e \in CoreType
  BY <1>3, EvictConsistent, EvictLoses DEF Consistent
<1>6. d.touched = e.touched \cup {k} /\ \A j \in Keys : Same(e, d, j)
  BY <1>4, <1>5, TouchSame
<1>7. Stored(d, k, p, t) \/ Gone(d, k)
  BY <1>3, <1>5, <1>6 DEF Stored, Gone, Loses, Same
<1>8. c.touched \subseteq d.touched /\ k \in d.touched
  BY <1>1, <1>3, <1>5, <1>6 DEF Loses, Edits
<1>9. ASSUME NEW j \in Keys \ {k}
      PROVE  Same(c, d, j) \/ (Gone(d, j) /\ j \in d.touched)
  <2>1. Same(c, f, j) \/ (Gone(f, j) /\ j \in f.touched)
    BY <1>1 DEF Loses
  <2>2. Same(f, s, j) /\ s.touched = f.touched
    BY <1>3 DEF Edits
  <2>3. Same(s, e, j) \/ (Gone(e, j) /\ j \in e.touched)
    BY <1>5 DEF Loses
  <2>4. s.touched \subseteq e.touched /\ Same(e, d, j)
    BY <1>5, <1>6 DEF Loses
  <2> QED BY <1>6, <2>1, <2>2, <2>3, <2>4 DEF Same, Gone
<1> QED BY <1>7, <1>8, <1>9

LEMMA EntrySetTells ==
    ASSUME NEW c, Consistent(c), NEW k \in Keys, NEW p \in Nat, NEW t \in Nat,
           NEW d \in EntrySetEx(c, k, p, t)
    PROVE  Tells(c, d)
<1>1. /\ c.touched \subseteq d.touched /\ k \in d.touched
      /\ \A j \in Keys \ {k} : Same(c, d, j) \/ (Gone(d, j) /\ j \in d.touched)
  BY EntrySetOutcome
<1> QED BY <1>1 DEF Tells

LEMMA GetPtrLoses ==
    ASSUME NEW c, Consistent(c), NEW k \in Keys, NEW d \in GetPtr(c, k)
    PROVE  Loses(c, d)
<1> DEFINE f == FindEntry(c, k)
<1>1. c \in CoreType /\ f \in CoreType
  BY FindConsistent DEF Consistent
<1>2. d \in TouchGet(f, k) \/ d = f
  BY DEF GetPtr
<1>3. Loses(c, f)
  BY <1>1, FindLoses
<1> HIDE DEF f
<1>4. Loses(f, d)
  BY <1>1, <1>2, TouchGetSame, NothingEdited, NothingLost
<1> QED BY <1>3, <1>4, LosesChain

LEMMA DelLoses ==
    ASSUME NEW c, Consistent(c), NEW k \in Keys
    PROVE  /\ Loses(c, DelBin(c, k))
           /\ k \notin Linked(DelBin(c, k))
<1> DEFINE f == FindEntry(c, k)
<1>1. c \in CoreType /\ f \in CoreType
  BY FindConsistent DEF Consistent
<1>2. Loses(c, f)
  BY <1>1, FindLoses
<1>3. CASE k \in Linked(f)
  <2>1. DelBin(c, k) = FreeEntries(f, {k})
    BY <1>3 DEF DelBin
  <2> HIDE DEF f
  <2>2. Loses(f, FreeEntries(f, {k})) /\ Gone(FreeEntries(f, {k}), k)
    BY <1>1, FreeLoses
  <2> QED BY <1>2, <2>1, <2>2, LosesChain DEF Gone
<1>4. CASE k \notin Linked(f)
  BY <1>2, <1>4 DEF DelBin
<1> QED BY <1>3, <1>4

\* The end common to the commands that edit entries: evict, then notify.
LEMMA FinishTells ==
    ASSUME NEW c, NEW s, Consistent(s), NEW K \in SUBSET Keys, Edits(c, s, K),
           NEW e \in MaybeEvict(s), NEW d, d = WatchTouch(e, K)
    PROVE  Tells(c, d)
<1>1. e \in CoreType /\ Loses(s, e)
  BY EvictConsistent, EvictLoses DEF Consistent
<1>2. d.touched = e.touched \cup K /\ \A k \in Keys : Same(e, d, k)
  BY <1>1, TouchSame
<1> QED BY <1>1, <1>2, EditTells

LEMMA AppendTells ==
    ASSUME NEW c, Consistent(c), NEW k \in Keys, NEW p \in Nat,
           NEW d \in AppendValue(c, k, p)
    PROVE  Tells(c, d)
<1> DEFINE f == FindEntry(c, k)
           q == f.payload[k] + p
           r == ReplaceByString(f, k, q)
<1>1. Consistent(f) /\ f \in CoreType /\ Loses(c, f) /\ Tells(c, f)
  BY FindConsistent, FindLoses, LosesTells DEF Consistent
<1>2. q \in Nat
  BY <1>1 DEF CoreType
<1>3. CASE k \notin Linked(f)
  <2>1. PICK e \in EntrySetEx(f, k, p, 0) : d = FindEntry(e, k)
    BY <1>3 DEF AppendValue
  <2> HIDE DEF f
  <2>2. Consistent(e) /\ Tells(f, e)
    BY <1>1, EntrySetConsistent, EntrySetTells
  <2>3. Tells(e, d)
    BY <2>1, <2>2, FindLoses, LosesTells DEF Consistent
  <2> QED BY <1>1, <2>2, <2>3, TellsChain
<1>4. CASE k \in Linked(f) /\ (f.type[k] # "string" \/ p = 0)
  BY <1>1, <1>4 DEF AppendValue
<1>5. CASE k \in Linked(f) /\ ~ (f.type[k] # "string" \/ p = 0)
  <2>1. PICK s \in TouchGet(r, k) : \E e \in MaybeEvict(s) : d = WatchTouch(e, {k})
    BY <1>5 DEF AppendValue
  <2>2. PICK e \in MaybeEvict(s) : d = WatchTouch(e, {k})
    BY <2>1
  <2> HIDE DEF f, q
  <2>3. Consistent(r) /\ Edits(f, r, {k})
    BY <1>1, <1>2, <1>5, ReplaceConsistent, ReplaceEdits
  <2> HIDE DEF r
  <2>4. Consistent(s) /\ Edits(r, s, {})
    BY <2>3, TouchGetConsistent, TouchGetSame DEF Consistent
  <2>5. Edits(f, s, {k})
    BY <2>3, <2>4 DEF Edits, Same
  <2>6. Tells(f, d)
    BY <2>2, <2>4, <2>5, FinishTells
  <2> QED BY <1>1, <2>6, TellsChain
<1> QED BY <1>3, <1>4, <1>5

LEMMA IncrTells ==
    ASSUME NEW c, Consistent(c), NEW k \in Keys, NEW p \in Nat,
           NEW d \in Incr(c, k, p)
    PROVE  Tells(c, d)
<1> DEFINE f == FindEntry(c, k)
           t == f.expire_at[k]
<1>1. Consistent(f) /\ f \in CoreType /\ Loses(c, f) /\ Tells(c, f)
  BY FindConsistent, FindLoses, LosesTells DEF Consistent
<1>2. t \in Nat
  BY <1>1 DEF CoreType
<1>3. d \in EntrySetEx(f, k, p, 0) \/ d = f \/ d \in EntrySetEx(f, k, p, t)
  BY DEF Incr
<1> HIDE DEF f, t
<1>4. d = f \/ Tells(f, d)
  BY <1>1, <1>2, <1>3, EntrySetTells
<1> QED BY <1>1, <1>4, TellsChain

LEMMA MoveEdits ==
    ASSUME NEW c \in CoreType, NEW k \in Keys, NEW n \in Keys
    PROVE  Edits(c, MoveEntry(c, k, n), {k, n})
<1> DEFINE d == MoveEntry(c, k, n)
<1>1. /\ c.payload \in [Keys -> Nat] /\ c.expire_at \in [Keys -> Nat]
      /\ c.type \in [Keys -> AllTypes]
  BY DEF CoreType
<1>2. /\ d.hot = (c.hot \ {k}) \cup {n} /\ d.cold = c.cold \ {k}
      /\ d.payload = [c.payload EXCEPT ![n] = c.payload[k], ![k] = 0]
      /\ d.expire_at = [c.expire_at EXCEPT ![n] = c.expire_at[k], ![k] = 0]
      /\ d.type = [c.type EXCEPT ![n] = c.type[k], ![k] = "string"]
      /\ d.touched = c.touched
  BY DEF MoveEntry, CoreType
<1> HIDE DEF d
<1>3. Edits(c, d, {k, n})
  BY <1>1, <1>2 DEF Edits, Same, Linked
<1> QED BY <1>3 DEF d

LEMMA RenameTells ==
    ASSUME NEW c, Consistent(c), NEW k \in Keys, NEW n \in Keys, NEW nx \in BOOLEAN,
           NEW d \in Rename(c, k, n, nx)
    PROVE  Tells(c, d)
<1> DEFINE f == FindEntry(c, k)
           g == FindEntry(f, n)
           h == IF n \in Linked(g) THEN FreeEntries(g, {n}) ELSE g
           m == MoveEntry(h, k, n)
<1>1. Consistent(f) /\ Loses(c, f)
  BY FindConsistent, FindLoses DEF Consistent
<1>2. Consistent(g) /\ Loses(f, g)
  BY <1>1, FindConsistent, FindLoses DEF Consistent
<1>3. Loses(c, g)
  BY <1>1, <1>2, LosesChain
<1>4. CASE k \notin Linked(f) \/ k = n
  BY <1>1, <1>4, LosesTells DEF Rename
<1>5. CASE ~ (k \notin Linked(f) \/ k = n) /\ n \in Linked(g) /\ nx
  BY <1>3, <1>5, LosesTells DEF Rename
<1>6. CASE ~ (k \notin Linked(f) \/ k = n) /\ ~ (n \in Linked(g) /\ nx)
  <2>1. PICK s \in MaybeDemoteHot(m) :
           \E e \in MaybeEvict(s) : d = WatchTouch(e, {k, n})
    BY <1>6 DEF Rename
  <2>2. PICK e \in MaybeEvict(s) : d = WatchTouch(e, {k, n})
    BY <2>1
  <2>3. k \in Linked(g)
    <3>1. CASE n \in Linked(f) \cap Due(f)
      <4>1. {n} \in SUBSET Linked(f) /\ g = FreeEntries(f, {n})
        BY <3>1 DEF FindEntry
      <4>2. Linked(g) = Linked(f) \ {n}
        BY <1>1, <4>1, FreeConsistent
      <4> QED BY <1>6, <4>2
    <3>2. CASE n \notin Linked(f) \cap Due(f)
      <4>1. g = f
        BY <3>2 DEF FindEntry
      <4> QED BY <1>6, <4>1
    <3> QED BY <3>1, <3>2
  <2> HIDE DEF g, f
  <2>4. Consistent(h) /\ k \in Linked(h) /\ n \notin Linked(h) /\ Loses(g, h)
    <3>1. CASE n \in Linked(g)
      <4>1. {n} \in SUBSET Linked(g) /\ h = FreeEntries(g, {n})
        BY <3>1
      <4>2. Consistent(h) /\ Linked(h) = Linked(g) \ {n}
        BY <1>2, <4>1, FreeConsistent
      <4>3. Loses(g, h)
        BY <1>2, <4>1, FreeLoses DEF Consistent
      <4> QED BY <1>6, <2>3, <4>2, <4>3
    <3>2. CASE n \notin Linked(g)
      BY <1>2, <2>3, <3>2, NothingLost
    <3> QED BY <3>1, <3>2
  <2> HIDE DEF h
  <2>5. Consistent(m) /\ Edits(h, m, {k, n})
    BY <2>4, MoveConsistent, MoveEdits DEF Consistent
  <2> HIDE DEF m
  <2>6. Consistent(s) /\ Edits(m, s, {})
    BY <2>5, MaybeDemoteConsistent, DemoteSame DEF Consistent
  <2>7. Edits(h, s, {k, n}) /\ {k, n} \in SUBSET Keys
    BY <2>5, <2>6 DEF Edits, Same
  <2>8. Tells(h, d)
    BY <2>2, <2>6, <2>7, FinishTells
  <2>9. Tells(c, h)
    BY <1>3, <2>4, LosesChain, LosesTells
  <2> QED BY <2>8, <2>9, TellsChain
<1> QED BY <1>4, <1>5, <1>6

LEMMA ExpireTells ==
    ASSUME NEW c, Consistent(c), NEW k \in Keys, NEW t \in Nat
    PROVE  Tells(c, Expire(c, k, t))
<1> DEFINE f == FindEntry(c, k)
           x == SetExpireAt(f, k, t)
           d == Expire(c, k, t)
<1>1. Consistent(f) /\ f \in CoreType /\ Loses(c, f) /\ Tells(c, f)
  BY FindConsistent, FindLoses, LosesTells DEF Consistent
<1>2. CASE k \in Linked(f)
  <2>1. d = WatchTouch(x, {k})
    BY <1>2 DEF Expire
  <2> HIDE DEF f, d
  <2>2. Edits(f, x, {k})
    BY <1>1, SetExpireEdits
  <2>3. x \in CoreType
    BY <1>1, <1>2, SetExpireConsistent DEF Consistent
  <2> HIDE DEF x
  <2>4. d.touched = x.touched \cup {k} /\ \A j \in Keys : Same(x, d, j)
    BY <2>1, <2>3, TouchSame
  <2>5. Tells(f, d)
    BY <2>2, <2>4, NothingLost, EditTells
  <2>6. Tells(c, d)
    BY <1>1, <2>5, TellsChain
  <2> QED BY <2>6 DEF d
<1>3. CASE k \notin Linked(f)
  BY <1>1, <1>3 DEF Expire
<1> QED BY <1>2, <1>3

LEMMA FlushTells ==
    ASSUME NEW c \in CoreType
    PROVE  /\ Tells(c, FlushDb(c)) /\ FlushDb(c).touched = Keys
           /\ \A k \in Keys : Gone(FlushDb(c), k)
<1> DEFINE d == FlushDb(c)
<1>1. /\ d.hot = {} /\ d.cold = {}
      /\ d.payload = [k \in Keys |-> 0] /\ d.expire_at = [k \in Keys |-> 0]
      /\ d.type = [k \in Keys |-> "string"] /\ d.touched = Keys
  BY DEF FlushDb, CoreType
<1> HIDE DEF d
<1>2. \A k \in Keys : Gone(d, k)
  BY <1>1 DEF Gone, Linked
<1>3. Tells(c, d)
  BY <1>1 DEF Tells, CoreType
<1> QED BY <1>1, <1>2, <1>3 DEF d

\* HSET and its kin create the object without a notification, and notify
\* after they have filled it: a new object that eviction takes in between is
\* notified by its eviction.
LEMMA ObjectAddTells ==
    ASSUME NEW c, Consistent(c), NEW k \in Keys, NEW ty \in AllTypes, NEW p \in Nat,
           NEW d \in ObjectAdd(c, k, ty, p)
    PROVE  Tells(c, d)
<1> DEFINE f == FindEntry(c, k)
           q == ObjBase + p
           l == LinkNew(f, k, ty, ObjBase)
<1>1. /\ Consistent(f) /\ f \in CoreType /\ Loses(c, f) /\ Tells(c, f)
      /\ ObjBase \in Nat /\ q \in Nat
  BY FindConsistent, FindLoses, LosesTells, SizeAssumption DEF Consistent
<1>2. PICK g \in GetOrCreate(c, k, ty) :
         \/ d = g /\ ~ (k \in Linked(g) /\ g.type[k] = ty)
         \/ \E e \in MaybeEvict(ResizeObject(g, k, q)) : d = WatchTouch(e, {k})
  <2> DEFINE Then(g) == IF k \in Linked(g) /\ g.type[k] = ty
                        THEN {WatchTouch(e, {k}) : e \in MaybeEvict(ResizeObject(g, k, q))}
                        ELSE {g}
  <2>1. PICK g \in GetOrCreate(c, k, ty) : d \in Then(g)
    BY DEF ObjectAdd
  <2> QED BY <2>1
<1>3. \/ g = f
      \/ k \notin Linked(f) /\ \E e \in MaybeEvict(l) : g = FindEntry(e, k)
  BY DEF GetOrCreate
<1> HIDE DEF f, q
<1>4. /\ Consistent(g) /\ f.touched \subseteq g.touched
      /\ \A j \in Keys \ {k} : Same(f, g, j) \/ j \in g.touched
      /\ g = f \/ (k \in Linked(g) /\ g.type[k] = ty) \/ k \in g.touched
  <2>1. CASE g = f
    BY <1>1, <2>1 DEF Same
  <2>2. CASE k \notin Linked(f) /\ \E e \in MaybeEvict(l) : g = FindEntry(e, k)
    <3>1. /\ Consistent(l) /\ Edits(f, l, {k})
          /\ k \in Linked(l) /\ l.type[k] = ty
      BY <1>1, <2>2, LinkConsistent, LinkEdits
    <3> HIDE DEF l
    <3>2. PICK e \in MaybeEvict(l) : g = FindEntry(e, k)
      BY <2>2
    <3>3. Consistent(e) /\ Loses(l, e)
      BY <3>1, EvictConsistent, EvictLoses
    <3>4. Consistent(g) /\ Loses(e, g)
      BY <3>2, <3>3, FindConsistent, FindLoses DEF Consistent
    <3>5. Loses(l, g)
      BY <3>3, <3>4, LosesChain
    <3> QED BY <3>1, <3>4, <3>5 DEF Loses, Edits, Same
  <2> QED BY <1>3, <2>1, <2>2
<1>5. CASE d = g /\ ~ (k \in Linked(g) /\ g.type[k] = ty)
  <2>1. Tells(f, d)
    BY <1>4, <1>5 DEF Tells, Same
  <2> QED BY <1>1, <2>1, TellsChain
<1>6. ASSUME NEW e \in MaybeEvict(ResizeObject(g, k, q)), d = WatchTouch(e, {k})
      PROVE  Tells(c, d)
  <2> DEFINE r == ResizeObject(g, k, q)
  <2>1. Consistent(r) /\ Edits(g, r, {k})
    BY <1>1, <1>4, ResizeConsistent, ResizeEdits DEF Consistent
  <2> HIDE DEF r
  <2>2. Consistent(e) /\ e \in CoreType /\ Loses(r, e)
    BY <1>6, <2>1, EvictConsistent, EvictLoses DEF r, Consistent
  <2>3. d.touched = e.touched \cup {k} /\ \A j \in Keys : Same(e, d, j)
    BY <1>6, <2>2, TouchSame
  <2>4. Tells(g, d)
    BY <2>1, <2>2, <2>3, EditTells
  <2>5. Tells(f, d)
    BY <1>4, <2>3, <2>4 DEF Tells, Same
  <2> QED BY <1>1, <2>5, TellsChain
<1> QED BY <1>2, <1>5, <1>6

LEMMA ObjectRemoveTells ==
    ASSUME NEW c, Consistent(c), NEW k \in Keys, NEW ty, NEW p \in Nat
    PROVE  /\ Tells(c, ObjectRemove(c, k, ty, p))
           /\ Tells(c, ListTrim(c, k, p))
           /\ Tells(c, ListRem(c, k, p))
<1> DEFINE f == FindEntry(c, k)
           q == ObjBase + p
           r == ResizeObject(f, k, q)
           b == [f EXCEPT !.payload[k] = ObjBase]
<1>1. /\ Consistent(f) /\ f \in CoreType /\ Loses(c, f) /\ Tells(c, f)
      /\ ObjBase \in Nat /\ q \in Nat
  BY FindConsistent, FindLoses, LosesTells, SizeAssumption DEF Consistent
<1>2. ObjectRemove(c, k, ty, p) \in {f, FreeEntries(r, {k}), WatchTouch(r, {k})}
  BY DEF ObjectRemove
<1>3. ListTrim(c, k, p) \in {f, FreeEntries(f, {k}), WatchTouch(r, {k})}
  BY DEF ListTrim
<1>4. ListRem(c, k, p) \in {f, FreeEntries(b, {k}), WatchTouch(r, {k})}
  BY DEF ListRem
<1> HIDE DEF f, q
<1>5. r \in CoreType /\ Edits(f, r, {k})
  BY <1>1, ResizeConsistent, ResizeEdits DEF Consistent
<1> HIDE DEF r
<1>6. b \in CoreType /\ Edits(f, b, {k})
  <2> DEFINE pay == [f.payload EXCEPT ![k] = ObjBase]
  <2>1. pay \in [Keys -> Nat] /\ \A j \in Keys \ {k} : pay[j] = f.payload[j]
    BY <1>1 DEF CoreType
  <2>2. b = [f EXCEPT !.payload = pay]
    BY <1>1 DEF CoreType
  <2> HIDE DEF pay, b
  <2>3. /\ b \in CoreType
        /\ b.hot = f.hot /\ b.cold = f.cold /\ b.payload = pay
        /\ b.type = f.type /\ b.expire_at = f.expire_at /\ b.touched = f.touched
    BY <1>1, <2>1, <2>2 DEF CoreType
  <2> QED BY <2>1, <2>3 DEF Edits, Same, Linked
<1> HIDE DEF b
<1>7. ASSUME NEW s \in CoreType, Edits(f, s, {k})
      PROVE  Tells(c, FreeEntries(s, {k})) /\ Tells(c, WatchTouch(s, {k}))
  <2>1. /\ WatchTouch(s, {k}).touched = s.touched \cup {k}
        /\ \A j \in Keys : Same(s, WatchTouch(s, {k}), j)
    BY TouchSame
  <2>2. Tells(f, WatchTouch(s, {k}))
    BY <1>7, <2>1 DEF Tells, Edits, Same
  <2>3. /\ Loses(s, FreeEntries(s, {k})) /\ Gone(FreeEntries(s, {k}), k)
        /\ \A j \in Keys \ {k} : Same(s, FreeEntries(s, {k}), j)
    BY FreeLoses
  <2>4. FreeEntries(s, {k}).touched = s.touched \cup {k}
    BY FreeLoses
  <2>5. Tells(f, FreeEntries(s, {k}))
    BY <1>7, <2>3, <2>4 DEF Tells, Loses, Edits, Same
  <2> QED BY <1>1, <2>2, <2>5, TellsChain
<1>8. Edits(f, f, {k})
  BY DEF Edits, Same
<1> QED BY <1>1, <1>2, <1>3, <1>4, <1>5, <1>6, <1>7, <1>8

LEMMA PinLoses ==
    ASSUME NEW c, Consistent(c), NEW k \in Keys
    PROVE  Loses(c, Pin(c, k)) /\ Loses(c, Unpin(c, k))
<1> DEFINE f == FindEntry(c, k)
<1>1. f \in CoreType /\ Loses(c, f)
  BY FindConsistent, FindLoses DEF Consistent
<1>2. \A d \in {Pin(c, k), Unpin(c, k)} :
         \/ d = f
         \/ d = [f EXCEPT !.pinned = @ \cup {k}, !.pinned_keys = @ + 1]
         \/ d = [f EXCEPT !.pinned = @ \ {k}, !.pinned_keys = Saturate(@ - 1)]
  BY DEF Pin, Unpin
<1> HIDE DEF f
<1>3. ASSUME NEW d \in {Pin(c, k), Unpin(c, k)} PROVE Loses(c, d)
  <2>1. /\ d.hot = f.hot /\ d.cold = f.cold /\ d.payload = f.payload
        /\ d.type = f.type /\ d.expire_at = f.expire_at /\ d.touched = f.touched
    <3>1. CASE d = [f EXCEPT !.pinned = @ \cup {k}, !.pinned_keys = @ + 1]
      BY <1>1, <3>1 DEF CoreType
    <3>2. CASE d = [f EXCEPT !.pinned = @ \ {k}, !.pinned_keys = Saturate(@ - 1)]
      BY <1>1, <3>2 DEF CoreType
    <3> QED BY <1>2, <1>3, <3>1, <3>2
  <2>2. Loses(f, d)
    BY <2>1 DEF Loses, Same, Linked
  <2> QED BY <1>1, <2>2, LosesChain
<1> QED BY <1>3

-----------------------------------------------------------------------------
(* The actions.                                                            *)

\* What a step must satisfy: the body of WatchSeesEveryChange.
ToldOfChanges ==
    \A k \in Keys :
        Observable(core, k) # Observable(core', k) => k \in core'.touched

LEMMA SameObservable ==
    ASSUME NEW c, NEW d, NEW k, Same(c, d, k)
    PROVE  Observable(c, k) = Observable(d, k)
<1>1. (k \in Linked(c)) = (k \in Linked(d))
  BY DEF Same
<1> QED BY <1>1 DEF Same, Observable

LEMMA FreshSame ==
    ASSUME core \in CoreType
    PROVE  \A k \in Keys : Same(core, Fresh, k)
BY DEF Fresh, CoreType, Same, Linked

LEMMA StepTells ==
    ASSUME NEW S, core \in CoreType, Step(S), \A d \in S : Tells(Fresh, d)
    PROVE  ToldOfChanges
<1>1. Tells(Fresh, core')
  BY DEF Step
<1>2. \A k \in Keys : Same(Fresh, core', k) \/ k \in core'.touched
  BY <1>1 DEF Tells
<1>3. \A k \in Keys : Same(core, core', k) \/ k \in core'.touched
  BY <1>2, FreshSame DEF Same
<1> QED BY <1>3, SameObservable DEF ToldOfChanges

LEMMA SettingsLose ==
    ASSUME NEW c \in CoreType, NEW e, NEW m, NEW b
    PROVE  /\ Loses(c, [c EXCEPT !.evict = e])
           /\ Loses(c, [c EXCEPT !.maxmemory = m])
           /\ Loses(c, [c EXCEPT !.hot_promote_on_get = b])
<1>1. ASSUME NEW d \in {[c EXCEPT !.evict = e], [c EXCEPT !.maxmemory = m],
                        [c EXCEPT !.hot_promote_on_get = b]}
      PROVE  Loses(c, d)
  <2>1. /\ d.hot = c.hot /\ d.cold = c.cold /\ d.payload = c.payload
        /\ d.type = c.type /\ d.expire_at = c.expire_at /\ d.touched = c.touched
    BY DEF CoreType
  <2> QED BY <2>1 DEF Loses, Same, Linked
<1> QED BY <1>1

LEMMA NextTells == Inv /\ Next => ToldOfChanges
<1> SUFFICES ASSUME Inv, Next PROVE ToldOfChanges
  OBVIOUS
<1>1. /\ Consistent(core) /\ Consistent(Fresh) /\ now \in Nat
      /\ Linked(Fresh) = Linked(core) /\ Due(Fresh) = Due(core)
      /\ core \in CoreType /\ Fresh \in CoreType
  BY FreshConsistent DEF Inv, Consistent
<1>2. ValLens \subseteq Nat /\ Types \subseteq AllTypes /\ Expiries \subseteq Nat
  BY <1>1, SizeAssumption, TypesAssumption, ExpiriesType
<1>3. ASSUME NEW k \in Keys, SetCmd(k) PROVE ToldOfChanges
  <2> DEFINE f == FindEntry(Fresh, k)
  <2>1. PICK p \in ValLens, t \in Expiries : Step({f}) \/ Step(EntrySetEx(f, k, p, t))
    BY <1>3 DEF SetCmd
  <2>2. Consistent(f) /\ Loses(Fresh, f) /\ p \in Nat /\ t \in Nat
    BY <1>1, <1>2, FindConsistent, FindLoses
  <2> HIDE DEF f
  <2>3. \A d \in EntrySetEx(f, k, p, t) : Tells(Fresh, d)
    BY <2>2, EntrySetTells, LosesTells, TellsChain
  <2> QED BY <1>1, <2>1, <2>2, <2>3, LosesTells, StepTells
<1>4. ASSUME NEW k \in Keys, SetKeepTtl(k) PROVE ToldOfChanges
  <2> DEFINE f == FindEntry(Fresh, k)
             t == f.expire_at[k]
  <2>1. PICK p \in ValLens : Step(EntrySetEx(f, k, p, t))
    BY <1>4 DEF SetKeepTtl
  <2>2. Consistent(f) /\ Loses(Fresh, f) /\ p \in Nat
    BY <1>1, <1>2, FindConsistent, FindLoses
  <2>3. t \in Nat
    BY <2>2 DEF Consistent, CoreType
  <2> HIDE DEF f, t
  <2>4. \A d \in EntrySetEx(f, k, p, t) : Tells(Fresh, d)
    BY <2>2, <2>3, EntrySetTells, LosesTells, TellsChain
  <2> QED BY <1>1, <2>1, <2>4, StepTells
<1>5. ASSUME NEW k \in Keys, GetSet(k) PROVE ToldOfChanges
  <2> DEFINE After(g, p) == IF k \in Linked(g) /\ g.type[k] # "string" THEN {g}
                            ELSE EntrySetEx(g, k, p, 0)
             S(p) == UNION {After(g, p) : g \in GetPtr(Fresh, k)}
  <2>1. PICK p \in ValLens : Step(S(p))
    BY <1>5 DEF GetSet
  <2>2. ASSUME NEW d \in S(p) PROVE Tells(Fresh, d)
    <3>1. PICK g \in GetPtr(Fresh, k) : d \in After(g, p)
      BY <2>2
    <3>2. Consistent(g) /\ Tells(Fresh, g) /\ p \in Nat
      BY <1>1, <1>2, GetPtrConsistent, GetPtrLoses, LosesTells
    <3>3. d = g \/ d \in EntrySetEx(g, k, p, 0)
      BY <3>1
    <3> QED BY <3>2, <3>3, EntrySetTells, TellsChain
  <2> HIDE DEF S
  <2> QED BY <1>1, <2>1, <2>2, StepTells
<1>6. ASSUME NEW k \in Keys, Get(k) PROVE ToldOfChanges
  BY <1>1, <1>6, GetPtrLoses, LosesTells, StepTells DEF Get
<1>7. ASSUME NEW k \in Keys, Lookup(k) PROVE ToldOfChanges
  BY <1>1, <1>7, FindLoses, LosesTells, StepTells DEF Lookup
<1>8. ASSUME NEW k \in Keys, AppendCmd(k) PROVE ToldOfChanges
  BY <1>1, <1>2, <1>8, AppendTells, StepTells DEF AppendCmd
<1>9. ASSUME NEW k \in Keys, IncrCmd(k) PROVE ToldOfChanges
  BY <1>1, <1>2, <1>9, IncrTells, StepTells DEF IncrCmd
<1>10. ASSUME NEW k \in Keys, ExpireCmd(k) PROVE ToldOfChanges
  BY <1>1, <1>2, <1>10, ExpireTells, StepTells DEF ExpireCmd
<1>11. ASSUME NEW k \in Keys, ObjectAddCmd(k) PROVE ToldOfChanges
  BY <1>1, <1>2, <1>11, ObjectAddTells, StepTells DEF ObjectAddCmd
<1>12. ASSUME NEW k \in Keys, ObjectRemoveCmd(k) PROVE ToldOfChanges
  BY <1>1, <1>2, <1>12, ObjectRemoveTells, StepTells DEF ObjectRemoveCmd
<1>13. ASSUME NEW k \in Keys, ListTrimCmd(k) PROVE ToldOfChanges
  BY <1>1, <1>2, <1>13, ObjectRemoveTells, StepTells DEF ListTrimCmd
<1>14. ASSUME NEW k \in Keys, ListRemCmd(k) PROVE ToldOfChanges
  BY <1>1, <1>2, <1>14, ObjectRemoveTells, StepTells DEF ListRemCmd
<1>15. ASSUME NEW k \in Keys, PinCmd(k) \/ UnpinCmd(k) PROVE ToldOfChanges
  BY <1>1, <1>15, PinLoses, LosesTells, StepTells DEF PinCmd, UnpinCmd
<1>16. ASSUME NEW j \in Keys, NEW k \in Keys, MSet(j, k) PROVE ToldOfChanges
  <2> DEFINE S(p, q) == UNION {EntrySetEx(d, k, q, 0) : d \in EntrySetEx(Fresh, j, p, 0)}
  <2>1. PICK p \in ValLens, q \in ValLens : Step(S(p, q))
    BY <1>16 DEF MSet
  <2>2. ASSUME NEW d \in S(p, q) PROVE Tells(Fresh, d)
    <3>1. PICK g \in EntrySetEx(Fresh, j, p, 0) : d \in EntrySetEx(g, k, q, 0)
      BY <2>2
    <3>2. Consistent(g) /\ Tells(Fresh, g) /\ p \in Nat /\ q \in Nat
      BY <1>1, <1>2, EntrySetConsistent, EntrySetTells
    <3> QED BY <3>1, <3>2, EntrySetTells, TellsChain
  <2> HIDE DEF S
  <2> QED BY <1>1, <2>1, <2>2, StepTells
<1>17. ASSUME NEW j \in Keys, NEW k \in Keys, MGet(j, k) PROVE ToldOfChanges
  <2> DEFINE S == UNION {GetPtr(d, k) : d \in GetPtr(Fresh, j)}
  <2>1. ASSUME NEW d \in S PROVE Tells(Fresh, d)
    <3>1. PICK g \in GetPtr(Fresh, j) : d \in GetPtr(g, k)
      BY <2>1
    <3>2. Consistent(g) /\ Loses(Fresh, g)
      BY <1>1, GetPtrConsistent, GetPtrLoses
    <3>3. Loses(g, d)
      BY <3>1, <3>2, GetPtrLoses
    <3> QED BY <3>2, <3>3, LosesChain, LosesTells
  <2>2. Step(S)
    BY <1>17 DEF MGet
  <2> HIDE DEF S
  <2> QED BY <1>1, <2>1, <2>2, StepTells
<1>18. ASSUME NEW j \in Keys, NEW k \in Keys, Del(j, k) PROVE ToldOfChanges
  <2> DEFINE g == DelBin(Fresh, j)
  <2>1. Consistent(g) /\ Loses(Fresh, g)
    BY <1>1, DelConsistent, DelLoses
  <2>2. Step({DelBin(g, k)})
    BY <1>18 DEF Del
  <2> HIDE DEF g
  <2>3. Loses(g, DelBin(g, k))
    BY <2>1, DelLoses
  <2>4. Tells(Fresh, DelBin(g, k))
    BY <2>1, <2>3, LosesChain, LosesTells
  <2> QED BY <1>1, <2>2, <2>4, StepTells
<1>19. ASSUME NEW j \in Keys, NEW k \in Keys, RenameCmd(j, k) PROVE ToldOfChanges
  BY <1>1, <1>19, RenameTells, StepTells DEF RenameCmd
<1>20. ASSUME FlushDbCmd PROVE ToldOfChanges
  BY <1>1, <1>20, FlushTells, StepTells DEF FlushDbCmd
<1>21. ASSUME LayoutCmd PROVE ToldOfChanges
  BY <1>1, <1>21, KnobAssumption, MigrateLoses, LosesTells, StepTells DEF LayoutCmd
<1>22. ASSUME AdaptLayout PROVE ToldOfChanges
  <2>1. PICK d \in {MigrateTo(Fresh, "hot_cold"), MigrateTo(Fresh, "flat"), Fresh} :
           Step({d})
    BY <1>22 DEF AdaptLayout
  <2>2. Tells(Fresh, d)
    BY <1>1, MigrateLoses, NothingLost, LosesTells
  <2> QED BY <1>1, <2>1, <2>2, StepTells
<1>23. ASSUME EvictCmd PROVE ToldOfChanges
  <2> DEFINE r(e) == [Fresh EXCEPT !.evict = e]
  <2>1. PICK e \in EvictNames : Step({r(e)}) \/ Step(MaybeEvict(r(e)))
    BY <1>23 DEF EvictCmd
  <2>2. Consistent(r(e)) /\ Loses(Fresh, r(e))
    BY <1>1, KnobAssumption, SettingsConsistent, SettingsLose
  <2> HIDE DEF r
  <2>3. \A d \in MaybeEvict(r(e)) \cup {r(e)} : Tells(Fresh, d)
    BY <2>2, EvictLoses, LosesChain, LosesTells
  <2> QED BY <1>1, <2>1, <2>3, StepTells
<1>24. ASSUME SetMaxmemory PROVE ToldOfChanges
  <2> DEFINE x(m) == [Fresh EXCEPT !.maxmemory = m]
  <2>1. PICK m \in MaxMemories : Step(MaybeEvict(x(m)))
    BY <1>24 DEF SetMaxmemory
  <2>2. Consistent(x(m)) /\ Loses(Fresh, x(m))
    BY <1>1, KnobAssumption, SettingsConsistent, SettingsLose
  <2> HIDE DEF x
  <2>3. \A d \in MaybeEvict(x(m)) : Tells(Fresh, d)
    BY <2>2, EvictLoses, LosesChain, LosesTells
  <2> QED BY <1>1, <2>1, <2>3, StepTells
<1>25. ASSUME SetPromoteOnGet PROVE ToldOfChanges
  <2> DEFINE b == ~ Fresh.hot_promote_on_get
  <2>1. Step({[Fresh EXCEPT !.hot_promote_on_get = b]})
    BY <1>25 DEF SetPromoteOnGet
  <2> HIDE DEF b
  <2> QED BY <1>1, <2>1, SettingsLose, LosesTells, StepTells
<1>26. ASSUME NEW X \in SUBSET Keys, ActiveExpire(X) PROVE ToldOfChanges
  BY <1>1, <1>26, FreeLoses, LosesTells, StepTells DEF ActiveExpire
<1>27. ASSUME ScanPurge PROVE ToldOfChanges
  <2>1. PICK X \in SUBSET (Linked(core) \cap Due(core)) : Step({FreeEntries(Fresh, X)})
    BY <1>27 DEF ScanPurge
  <2>2. X \in SUBSET Keys
    BY <1>1 DEF Linked, CoreType
  <2> QED BY <1>1, <2>1, <2>2, FreeLoses, LosesTells, StepTells
<1>28. ASSUME Tick PROVE ToldOfChanges
  <2>1. core' = Fresh
    BY <1>28 DEF Tick
  <2> QED BY <1>1, <2>1, FreshSame, SameObservable DEF ToldOfChanges
<1> QED BY <1>3, <1>4, <1>5, <1>6, <1>7, <1>8, <1>9, <1>10, <1>11, <1>12, <1>13,
           <1>14, <1>15, <1>16, <1>17, <1>18, <1>19, <1>20, <1>21, <1>22, <1>23,
           <1>24, <1>25, <1>26, <1>27, <1>28 DEF Next

\* WATCH sees every change: whichever command, sampled eviction or expiry
\* cycle alters what is stored under a key, ar_watch_touch has been called
\* for that key when the step ends, for any number of keys.
THEOREM WatchIsTold == Spec => WatchSeesEveryChange
<1>1. Inv /\ [Next]_vars => [ToldOfChanges]_vars
  BY NextTells
<1>2. Spec => [][ToldOfChanges]_vars
  BY <1>1, InvAlways, PTL DEF Spec
<1> QED BY <1>2 DEF WatchSeesEveryChange, ToldOfChanges

-----------------------------------------------------------------------------
(***************************************************************************)
(* used_memory covers the live entries (MemoryCovered), and eviction       *)
(* spares what it must spare (EvictionSpares).                             *)
(*                                                                         *)
(* A ledger books the bytes of each key (0 for a key that is not linked)   *)
(* under the key's type.  What the counters hold beyond the ledger is what *)
(* LREM has left booked, at most MemBound.                                 *)
(***************************************************************************)

\* Bytes is the sum of a function.
LEMMA BytesTotal ==
    ASSUME NEW c, NEW S \in SUBSET Keys, NEW w, \A k \in S : w[k] = EntryBytes(c, k)
    PROVE  Bytes(c, S) = Total(w, S)
<1> DEFINE A(g) == [s \in SUBSET S |-> IF s = {} THEN 0
                       ELSE EntryBytes(c, Chosen(s)) + g[s \ {Chosen(s)}]]
           B(g) == [s \in SUBSET S |-> IF s = {} THEN 0
                       ELSE w[Chosen(s)] + g[s \ {Chosen(s)}]]
<1>1. ASSUME NEW g PROVE A(g) = B(g)
  <2>1. ASSUME NEW s \in SUBSET S, s # {} PROVE EntryBytes(c, Chosen(s)) = w[Chosen(s)]
    BY <2>1 DEF Chosen
  <2> QED BY <2>1
<1>2. Bytes(c, S) = (CHOOSE g : g = A(g))[S]
  BY DEF Bytes, MapThenSumSet, MapThenFoldSet, Chosen
<1>3. Total(w, S) = (CHOOSE g : g = B(g))[S]
  BY DEF Total, MapThenSumSet, MapThenFoldSet, Chosen
<1> HIDE DEF A, B
<1>4. (CHOOSE g : g = A(g)) = (CHOOSE g : g = B(g))
  BY <1>1
<1> QED BY <1>2, <1>3, <1>4

Weight(c) == [k \in Keys |-> IF k \in Linked(c) THEN EntryBytes(c, k) ELSE 0]

OfKind(e, ty, t) == [k \in Keys |-> IF ty[k] = t THEN e[k] ELSE 0]

SumOfTypes(tb) == tb["string"] + tb["hash"] + tb["list"] + tb["zset"]

Ledger(e, ty, tb, m) ==
    /\ \A t \in AllTypes : Total(OfKind(e, ty, t), Keys) <= tb[t]
    /\ m = SumOfTypes(tb)
    /\ m <= Total(e, Keys) + MemBound

\* Every byte is booked under one type.
LEMMA KindsAddUp ==
    ASSUME NEW e \in [Keys -> Nat], NEW ty \in [Keys -> AllTypes]
    PROVE  /\ Total(e, Keys) = Total(OfKind(e, ty, "string"), Keys)
                             + Total(OfKind(e, ty, "hash"), Keys)
                             + Total(OfKind(e, ty, "list"), Keys)
                             + Total(OfKind(e, ty, "zset"), Keys)
           /\ Total(e, Keys) \in Nat
           /\ \A t \in AllTypes : Total(OfKind(e, ty, t), Keys) \in Nat
<1> DEFINE s == OfKind(e, ty, "string")
           h == OfKind(e, ty, "hash")
           l == OfKind(e, ty, "list")
           z == OfKind(e, ty, "zset")
           sh == [k \in Keys |-> s[k] + h[k]]
           lz == [k \in Keys |-> l[k] + z[k]]
<1>1. \A t \in AllTypes : \A k \in Keys : OfKind(e, ty, t)[k] \in Nat
  BY DEF OfKind
<1>2. \A k \in Keys : s[k] \in Nat /\ h[k] \in Nat /\ l[k] \in Nat /\ z[k] \in Nat
  BY <1>1 DEF AllTypes
<1>3. \A k \in Keys : e[k] = sh[k] + lz[k]
  BY DEF OfKind, AllTypes
<1> HIDE DEF s, h, l, z
<1>4. \A k \in Keys : sh[k] \in Nat /\ lz[k] \in Nat /\ sh[k] = s[k] + h[k] /\ lz[k] = l[k] + z[k]
  BY <1>2
<1> HIDE DEF sh, lz
<1>5. Total(sh, Keys) = Total(s, Keys) + Total(h, Keys)
  BY <1>2, <1>4, KeysAssumption, TotalPlus
<1>6. Total(lz, Keys) = Total(l, Keys) + Total(z, Keys)
  BY <1>2, <1>4, KeysAssumption, TotalPlus
<1>7. Total(e, Keys) = Total(sh, Keys) + Total(lz, Keys)
  BY <1>3, <1>4, KeysAssumption, TotalPlus
<1>8. \A t \in AllTypes : Total(OfKind(e, ty, t), Keys) \in Nat
  BY <1>1, KeysAssumption, TotalPick
<1>9. Total(e, Keys) \in Nat
  BY KeysAssumption, TotalPick
<1>10. /\ Total(s, Keys) \in Nat /\ Total(h, Keys) \in Nat
       /\ Total(l, Keys) \in Nat /\ Total(z, Keys) \in Nat
  BY <1>8 DEF s, h, l, z, AllTypes
<1>11. Total(e, Keys) = Total(s, Keys) + Total(h, Keys) + Total(l, Keys) + Total(z, Keys)
  BY <1>5, <1>6, <1>7, <1>10
<1> QED BY <1>8, <1>9, <1>11 DEF s, h, l, z

\* A ledger covers what it books.
LEMMA LedgerCovers ==
    ASSUME NEW e \in [Keys -> Nat], NEW ty \in [Keys -> AllTypes],
           NEW tb \in [AllTypes -> Nat], NEW m, Ledger(e, ty, tb, m)
    PROVE  /\ Total(e, Keys) <= m /\ m \in Nat
           /\ \A k \in Keys : e[k] <= tb[ty[k]] /\ e[k] <= m
<1>1. /\ Total(e, Keys) = Total(OfKind(e, ty, "string"), Keys)
                             + Total(OfKind(e, ty, "hash"), Keys)
                             + Total(OfKind(e, ty, "list"), Keys)
                             + Total(OfKind(e, ty, "zset"), Keys)
      /\ Total(e, Keys) \in Nat
      /\ \A t \in AllTypes : Total(OfKind(e, ty, t), Keys) \in Nat
  BY KindsAddUp
<1>2. "string" \in AllTypes /\ "hash" \in AllTypes /\ "list" \in AllTypes /\ "zset" \in AllTypes
  BY DEF AllTypes
<1>3. m = SumOfTypes(tb) /\ \A t \in AllTypes : Total(OfKind(e, ty, t), Keys) <= tb[t]
  BY DEF Ledger
<1>4. Total(e, Keys) <= m /\ m \in Nat
  BY <1>1, <1>2, <1>3 DEF SumOfTypes
<1>5. ASSUME NEW k \in Keys PROVE e[k] <= tb[ty[k]] /\ e[k] <= m
  <2> DEFINE o == OfKind(e, ty, ty[k])
  <2>1. o[k] = e[k] /\ \A j \in Keys : o[j] \in Nat
    BY DEF OfKind
  <2> HIDE DEF o
  <2>2. Total(o, Keys) = o[k] + Total(o, Keys \ {k}) /\ IsFiniteSet(Keys \ {k})
    <3>1. IsFiniteSet(Keys) /\ IsFiniteSet(Keys \ {k})
      BY KeysAssumption, FS_Subset
    <3> QED BY <2>1, <3>1, TotalPick
  <2>3. Total(o, Keys \ {k}) \in Nat
    BY <2>1, <2>2, TotalPick
  <2>4. e[k] <= Total(o, Keys) /\ e[k] \in Nat
    BY <2>1, <2>2, <2>3
  <2>5. ty[k] \in AllTypes /\ Total(o, Keys) <= tb[ty[k]] /\ Total(o, Keys) \in Nat
    BY <1>1, <1>3 DEF o
  <2>6. \A t \in AllTypes : tb[t] <= m /\ tb[t] \in Nat
    <3>1. /\ tb["string"] \in Nat /\ tb["hash"] \in Nat
          /\ tb["list"] \in Nat /\ tb["zset"] \in Nat
      BY <1>2
    <3>2. m = tb["string"] + tb["hash"] + tb["list"] + tb["zset"]
      BY <1>3 DEF SumOfTypes
    <3>3. /\ tb["string"] <= m /\ tb["hash"] <= m
          /\ tb["list"] <= m /\ tb["zset"] <= m
      BY <3>1, <3>2
    <3> QED BY <3>1, <3>3 DEF AllTypes
  <2>7. tb[ty[k]] <= m /\ tb[ty[k]] \in Nat
    BY <2>5, <2>6
  <2> QED BY <1>4, <2>4, <2>5, <2>7
<1> QED BY <1>4, <1>5

\* x bytes are booked out under type a and b bytes in under type u.
Rebooked(tb, tb2, a, x, u, b) ==
    \A t \in AllTypes :
        tb2[t] = tb[t] - (IF a = t THEN x ELSE 0) + (IF u = t THEN b ELSE 0)

\* One key takes another size, another type, or both.
LEMMA LedgerPut ==
    ASSUME NEW e \in [Keys -> Nat], NEW ty \in [Keys -> AllTypes],
           NEW tb \in [AllTypes -> Nat], NEW m, Ledger(e, ty, tb, m),
           NEW k \in Keys, NEW b \in Nat, NEW u \in AllTypes,
           NEW e2, e2 = [e EXCEPT ![k] = b],
           NEW ty2, ty2 = [ty EXCEPT ![k] = u],
           NEW tb2, Rebooked(tb, tb2, ty[k], e[k], u, b),
           NEW m2, m2 = m - e[k] + b
    PROVE  Ledger(e2, ty2, tb2, m2)
<1>1. e2 \in [Keys -> Nat] /\ ty2 \in [Keys -> AllTypes] /\ ty[k] \in AllTypes /\ e[k] \in Nat
  OBVIOUS
<1>2. m \in Nat /\ e[k] <= tb[ty[k]] /\ e[k] <= m
  BY LedgerCovers
<1>3. Total(e2, Keys) + e[k] = Total(e, Keys) + b
  <2>1. e2[k] = b /\ \A j \in Keys \ {k} : e[j] = e2[j]
    OBVIOUS
  <2>2. \A j \in Keys : e[j] \in Nat /\ e2[j] \in Nat
    BY <1>1
  <2>3. Total(e2, Keys) + e[k] = Total(e, Keys) + e2[k]
    <3>1. IsFiniteSet(Keys)
      BY KeysAssumption
    <3> QED BY ONLY <2>1, <2>2, <3>1, k \in Keys, TotalChange
  <2> QED BY <2>1, <2>3
<1>4. Total(e, Keys) \in Nat /\ Total(e2, Keys) \in Nat
  BY <1>1, KeysAssumption, TotalPick
<1>5. ASSUME NEW t \in AllTypes PROVE Total(OfKind(e2, ty2, t), Keys) <= tb2[t]
  <2> DEFINE old == OfKind(e, ty, t)
             new == OfKind(e2, ty2, t)
             x == e[k]
             a == ty[k]
  <2>1. /\ \A j \in Keys : old[j] \in Nat /\ new[j] \in Nat
        /\ \A j \in Keys \ {k} : old[j] = new[j]
        /\ old[k] = IF a = t THEN x ELSE 0
        /\ new[k] = IF u = t THEN b ELSE 0
    BY <1>1 DEF OfKind
  <2>2. Total(old, Keys) <= tb[t]
    BY DEF Ledger
  <2>3. tb2[t] = tb[t] - (IF a = t THEN x ELSE 0) + (IF u = t THEN b ELSE 0)
    BY DEF Rebooked
  <2>4. tb[t] \in Nat /\ x \in Nat
    OBVIOUS
  <2> HIDE DEF old, new, x, a
  <2>5. Total(new, Keys) + old[k] = Total(old, Keys) + new[k]
    <3>1. /\ \A j \in Keys : old[j] \in Nat /\ new[j] \in Nat
          /\ \A j \in Keys \ {k} : old[j] = new[j]
      BY <2>1
    <3>2. IsFiniteSet(Keys)
      BY KeysAssumption
    <3> QED BY ONLY <3>1, <3>2, k \in Keys, TotalChange
  <2>6. Total(old, Keys) \in Nat /\ Total(new, Keys) \in Nat
    BY <2>1, KeysAssumption, TotalPick
  <2>7. Total(new, Keys) <= tb2[t]
    BY <2>1, <2>2, <2>3, <2>4, <2>5, <2>6
  <2> QED BY <2>7 DEF new
<1>6. m2 = SumOfTypes(tb2)
  <2>1. m = SumOfTypes(tb)
    BY DEF Ledger
  <2>2. \A t \in AllTypes :
           tb2[t] = tb[t] - (IF ty[k] = t THEN e[k] ELSE 0) + (IF u = t THEN b ELSE 0)
    BY DEF Rebooked
  <2>3. \A t \in AllTypes : tb[t] \in Nat
    OBVIOUS
  <2> DEFINE a == ty[k]
             x == e[k]
  <2>4. a \in AllTypes /\ x \in Nat /\ m2 = m - x + b
    BY <1>1
  <2>5. \A t \in AllTypes : tb2[t] = tb[t] - (IF a = t THEN x ELSE 0) + (IF u = t THEN b ELSE 0)
    BY <2>2
  <2> HIDE DEF a, x
  <2>6. SumOfTypes(tb2) = SumOfTypes(tb) - x + b
    BY <2>3, <2>4, <2>5 DEF SumOfTypes, AllTypes
  <2> QED BY <2>1, <2>4, <2>6
<1>7. m2 <= Total(e2, Keys) + MemBound
  <2>1. m <= Total(e, Keys) + MemBound
    BY DEF Ledger
  <2> QED BY <1>1, <1>2, <1>3, <1>4, <2>1, KnobAssumption
<1> QED BY <1>5, <1>6, <1>7 DEF Ledger

\* Keys leave the ledger with all that is booked for them.
PartOf(F, ty, t) == {k \in F : ty[k] = t}

LEMMA LedgerFree ==
    ASSUME NEW e \in [Keys -> Nat], NEW ty \in [Keys -> AllTypes],
           NEW tb \in [AllTypes -> Nat], NEW m, Ledger(e, ty, tb, m),
           NEW F \in SUBSET Keys, NEW ty2 \in [Keys -> AllTypes],
           \A k \in Keys \ F : ty2[k] = ty[k],
           NEW e2, e2 = [k \in Keys |-> IF k \in F THEN 0 ELSE e[k]],
           NEW tb2, NEW m2, m2 = Saturate(m - Total(e, F)),
           \A t \in AllTypes : tb2[t] = Saturate(tb[t] - Total(e, PartOf(F, ty, t)))
    PROVE  /\ Ledger(e2, ty2, tb2, m2)
           /\ m2 = m - Total(e, F) /\ Total(e, F) \in Nat
<1> DEFINE ef == [k \in Keys |-> IF k \in F THEN e[k] ELSE 0]
<1>1. e2 \in [Keys -> Nat] /\ ef \in [Keys -> Nat] /\ IsFiniteSet(Keys)
  BY KeysAssumption
<1>2. Total(e, Keys) = Total(e2, Keys) + Total(ef, Keys)
  <2>1. \A k \in Keys : e2[k] \in Nat /\ ef[k] \in Nat /\ e[k] = e2[k] + ef[k]
    OBVIOUS
  <2> HIDE DEF ef
  <2> QED BY <1>1, <2>1, TotalPlus
<1>3. Total(ef, Keys) = Total(e, F)
  <2>1. \A k \in Keys : e[k] \in Nat /\ ef[k] = IF k \in F THEN e[k] ELSE 0
    OBVIOUS
  <2> HIDE DEF ef
  <2> QED BY <1>1, <2>1, TotalPart
<1>4. Total(e, Keys) \in Nat /\ Total(e2, Keys) \in Nat /\ Total(ef, Keys) \in Nat
  BY <1>1, KindsAddUp
<1>5. m <= Total(e, Keys) + MemBound /\ m \in Nat /\ Total(e, Keys) <= m
  BY LedgerCovers DEF Ledger
<1>6. m2 = m - Total(e, F) /\ Total(e, F) \in Nat /\ m2 <= Total(e2, Keys) + MemBound
  <2> HIDE DEF ef
  <2> QED BY <1>2, <1>3, <1>4, <1>5, KnobAssumption DEF Saturate
<1>7. ASSUME NEW t \in AllTypes
      PROVE  /\ tb2[t] = tb[t] - Total(OfKind(ef, ty, t), Keys)
             /\ Total(OfKind(e2, ty2, t), Keys) <= tb2[t]
  <2> DEFINE P == PartOf(F, ty, t)
             o == OfKind(e, ty, t)
             o2 == OfKind(e2, ty2, t)
             of == OfKind(ef, ty, t)
  <2>1. \A k \in Keys : o2[k] \in Nat /\ of[k] \in Nat /\ o[k] = o2[k] + of[k]
    BY DEF OfKind
  <2>2. \A k \in Keys : e[k] \in Nat /\ of[k] = IF k \in P THEN e[k] ELSE 0
    BY DEF OfKind, PartOf
  <2>3. P \in SUBSET Keys /\ tb[t] \in Nat /\ tb2[t] = Saturate(tb[t] - Total(e, P))
    BY DEF PartOf
  <2>4. Total(o, Keys) <= tb[t]
    BY DEF Ledger
  <2>5. Total(o2, Keys) \in Nat /\ Total(of, Keys) \in Nat
    BY <1>1, KindsAddUp
  <2> HIDE DEF P, o, o2, of, ef
  <2>6. Total(o, Keys) = Total(o2, Keys) + Total(of, Keys)
    BY <1>1, <2>1, TotalPlus
  <2>7. Total(of, Keys) = Total(e, P)
    BY <1>1, <2>2, <2>3, TotalPart
  <2>8. tb2[t] = tb[t] - Total(of, Keys) /\ Total(o2, Keys) <= tb2[t]
    BY <2>3, <2>4, <2>5, <2>6, <2>7 DEF Saturate
  <2> QED BY <2>8 DEF of, o2
<1>8. m2 = SumOfTypes(tb2)
  <2> DEFINE x(t) == Total(OfKind(ef, ty, t), Keys)
  <2>1. "string" \in AllTypes /\ "hash" \in AllTypes /\ "list" \in AllTypes /\ "zset" \in AllTypes
    BY DEF AllTypes
  <2>2. \A t \in AllTypes : tb2[t] = tb[t] - x(t) /\ x(t) \in Nat /\ tb[t] \in Nat
    BY <1>1, <1>7, KindsAddUp
  <2>3. Total(ef, Keys) = x("string") + x("hash") + x("list") + x("zset")
    BY <1>1, KindsAddUp
  <2>4. m = tb["string"] + tb["hash"] + tb["list"] + tb["zset"]
    BY DEF Ledger, SumOfTypes
  <2> HIDE DEF x, ef
  <2>5. m - Total(ef, Keys) = tb2["string"] + tb2["hash"] + tb2["list"] + tb2["zset"]
    BY <2>1, <2>2, <2>3, <2>4
  <2> QED BY <1>3, <1>6, <2>5 DEF SumOfTypes
<1> QED BY <1>6, <1>7, <1>8 DEF Ledger

\* A key shrinks and its bytes stay booked: what LREM does to the list it
\* empties, while the memory in use is within the bound.
LEMMA LedgerLeak ==
    ASSUME NEW e \in [Keys -> Nat], NEW ty \in [Keys -> AllTypes],
           NEW tb \in [AllTypes -> Nat], NEW m, Ledger(e, ty, tb, m),
           NEW e2 \in [Keys -> Nat], \A k \in Keys : e2[k] <= e[k],
           m <= MemBound
    PROVE  Ledger(e2, ty, tb, m)
<1>1. IsFiniteSet(Keys) /\ m \in Nat
  BY KeysAssumption, LedgerCovers
<1>2. ASSUME NEW t \in AllTypes PROVE Total(OfKind(e2, ty, t), Keys) <= tb[t]
  <2> DEFINE o == OfKind(e, ty, t)
             o2 == OfKind(e2, ty, t)
  <2>1. \A k \in Keys : o2[k] \in Nat /\ o[k] \in Nat /\ o2[k] <= o[k]
    BY DEF OfKind
  <2>2. Total(o, Keys) <= tb[t] /\ tb[t] \in Nat
    BY DEF Ledger
  <2>3. Total(o2, Keys) \in Nat /\ Total(o, Keys) \in Nat
    BY KindsAddUp
  <2> HIDE DEF o, o2
  <2>4. Total(o2, Keys) <= Total(o, Keys)
    BY <1>1, <2>1, TotalBelow
  <2>5. Total(o2, Keys) <= tb[t]
    BY <2>2, <2>3, <2>4
  <2> QED BY <2>5 DEF o2
<1>3. m <= Total(e2, Keys) + MemBound
  BY <1>1, KindsAddUp, KnobAssumption
<1>4. m = SumOfTypes(tb)
  BY DEF Ledger
<1> QED BY <1>2, <1>3, <1>4 DEF Ledger

-----------------------------------------------------------------------------
(* The ledger of a record.                                                 *)

Covered(c) ==
    /\ \A k \in Keys : c.payload[k] <= LargestPayload
    /\ Ledger(Weight(c), c.type, c.type_bytes, c.used_memory)

LEMMA WeightType ==
    ASSUME NEW c \in CoreType
    PROVE  /\ Weight(c) \in [Keys -> Nat]
           /\ \A k \in Keys : EntryBytes(c, k) \in Nat
           /\ c.payload \in [Keys -> Nat] /\ c.type \in [Keys -> AllTypes]
           /\ c.type_bytes \in [AllTypes -> Nat] /\ c.used_memory \in Nat
<1>1. /\ c.payload \in [Keys -> Nat] /\ c.type \in [Keys -> AllTypes]
      /\ c.type_bytes \in [AllTypes -> Nat] /\ c.used_memory \in Nat
  BY DEF CoreType
<1>2. \A k \in Keys : EntryBytes(c, k) \in Nat
  BY <1>1, KeysAssumption, SizeAssumption DEF EntryBytes
<1> QED BY <1>1, <1>2 DEF Weight

\* The largest payload is at least what clients write.
LEMMA LargestCovers ==
    /\ LargestPayload \in Nat
    /\ ObjBase \in Nat /\ ObjBase <= LargestPayload
    /\ \A p \in ValLens : p \in Nat /\ p <= LargestPayload
                          /\ ObjBase + p <= LargestPayload
    /\ MaxPayload \in Nat /\ MaxPayload <= LargestPayload
<1> DEFINE S == ValLens \cup {MaxPayload}
           M == Max(S)
<1>1. S \in SUBSET Nat /\ S # {} /\ MaxPayload \in S /\ ObjBase \in Nat
  BY SizeAssumption, KnobAssumption
<1>2. IsFiniteSet(S)
  BY RoomAssumption, FS_AddElement
<1>3. M \in Nat /\ \A y \in S : y \in Nat /\ y <= M
  <2> HIDE DEF S
  <2> QED BY <1>1, <1>2, MaxOfFinite
<1>4. LargestPayload = ObjBase + M
  BY DEF LargestPayload
<1>5. \A p \in ValLens : p \in Nat /\ p <= M
  BY <1>3
<1>6. MaxPayload \in Nat /\ MaxPayload <= M
  BY <1>3
<1> HIDE DEF S, M
<1> QED BY <1>1, <1>3, <1>4, <1>5, <1>6

\* What is booked fits in a word.
LEMMA LedgerFits ==
    ASSUME NEW e \in [Keys -> Nat], NEW ty \in [Keys -> AllTypes],
           NEW tb \in [AllTypes -> Nat], NEW m, Ledger(e, ty, tb, m),
           \A k \in Keys : e[k] <= KeyLen[k] + LargestPayload + Shell
    PROVE  m \in Nat /\ m < Word /\ m % Word = m
<1> DEFINE w == [k \in Keys |-> KeyLen[k] + LargestPayload + Shell]
<1>1. \A k \in Keys : w[k] \in Nat /\ w[k] = KeyLen[k] + LargestPayload + Shell
  BY LargestCovers, KeysAssumption, SizeAssumption
<1>2. Capacity = Total(w, Keys)
  <2> DEFINE A(g) == [s \in SUBSET Keys |-> IF s = {} THEN 0
                         ELSE (KeyLen[Chosen(s)] + LargestPayload + Shell) + g[s \ {Chosen(s)}]]
             B(g) == [s \in SUBSET Keys |-> IF s = {} THEN 0
                         ELSE w[Chosen(s)] + g[s \ {Chosen(s)}]]
  <2>1. ASSUME NEW g PROVE A(g) = B(g)
    <3>1. ASSUME NEW s \in SUBSET Keys, s # {}
          PROVE  KeyLen[Chosen(s)] + LargestPayload + Shell = w[Chosen(s)]
      BY <3>1 DEF Chosen
    <3> HIDE DEF w
    <3> QED BY <3>1
  <2>2. Capacity = (CHOOSE g : g = A(g))[Keys]
    BY DEF Capacity, MapThenSumSet, MapThenFoldSet, Chosen
  <2>3. Total(w, Keys) = (CHOOSE g : g = B(g))[Keys]
    BY DEF Total, MapThenSumSet, MapThenFoldSet, Chosen
  <2> HIDE DEF A, B, w
  <2>4. (CHOOSE g : g = A(g)) = (CHOOSE g : g = B(g))
    BY <2>1
  <2> QED BY <2>2, <2>3, <2>4
<1>3. IsFiniteSet(Keys) /\ \A k \in Keys : e[k] \in Nat /\ w[k] \in Nat /\ e[k] <= w[k]
  BY <1>1, KeysAssumption
<1> HIDE DEF w
<1>4. Total(e, Keys) <= Capacity
  BY <1>2, <1>3, TotalBelow
<1>5. Total(e, Keys) \in Nat /\ Capacity \in Nat
  BY <1>2, <1>3, TotalPick
<1>6. m \in Nat /\ m <= Total(e, Keys) + MemBound
  BY LedgerCovers DEF Ledger
<1>7. m < Word
  BY <1>4, <1>5, <1>6, RoomAssumption, KnobAssumption, SizeAssumption
<1> QED BY <1>6, <1>7, SizeAssumption

\* The ledger reads the tables, the payloads, the types and two counters.
LEMMA SameCovered ==
    ASSUME NEW c, Covered(c), NEW d, Linked(d) = Linked(c), d.payload = c.payload,
           d.type = c.type, d.type_bytes = c.type_bytes,
           d.used_memory = c.used_memory
    PROVE  Covered(d)
<1>1. \A k : EntryBytes(d, k) = EntryBytes(c, k)
  BY DEF EntryBytes
<1>2. Weight(d) = Weight(c)
  BY <1>1 DEF Weight
<1> QED BY <1>2 DEF Covered

\* Freeing linked entries.
LEMMA FreeCovered ==
    ASSUME NEW c \in CoreType, Covered(c), NEW F \in SUBSET Linked(c)
    PROVE  /\ Covered(FreeEntries(c, F))
           /\ FreeEntries(c, F).used_memory <= c.used_memory
<1> DEFINE x == DiscountKeys(c, F)
           y == DiscountBytes(x, F)
           z == Unlink(y, F)
           d == FreeEntries(c, F)
<1>0. F \in SUBSET Keys /\ Linked(c) \in SUBSET Keys
  BY DEF CoreType, Linked
<1>1. /\ x \in CoreType /\ x.payload = c.payload /\ x.type = c.type
      /\ x.type_bytes = c.type_bytes /\ x.used_memory = c.used_memory
      /\ x.hot = c.hot /\ x.cold = c.cold
  BY SaturateType DEF DiscountKeys, CoreType
<1> HIDE DEF x
<1>2. \A S \in SUBSET F : Bytes(x, S) = Total(Weight(c), S)
  <2> TAKE S \in SUBSET F
  <2>1. \A k \in S : Weight(c)[k] = EntryBytes(x, k)
    BY <1>0, <1>1 DEF Weight, EntryBytes
  <2> QED BY <1>0, <2>1, BytesTotal
<1>3. /\ y \in CoreType /\ y.payload = x.payload /\ y.type = x.type
      /\ y.hot = x.hot /\ y.cold = x.cold
      /\ y.type_bytes = [t \in AllTypes |->
            Saturate(x.type_bytes[t] - Bytes(x, {k \in F : x.type[k] = t}))]
      /\ y.used_memory = Saturate(x.used_memory - Bytes(x, F))
  BY <1>1, SaturateType DEF DiscountBytes, CoreType
<1> HIDE DEF y
<1>4. /\ z.payload = [k \in Keys |-> IF k \in F THEN 0 ELSE y.payload[k]]
      /\ z.type = [k \in Keys |-> IF k \in F THEN "string" ELSE y.type[k]]
      /\ z.type_bytes = y.type_bytes /\ z.used_memory = y.used_memory
      /\ z.hot = y.hot \ F /\ z.cold = y.cold \ F
      /\ z \in CoreType
  BY <1>3 DEF Unlink, CoreType, AllTypes
<1> HIDE DEF z
<1>5. /\ d.payload = z.payload /\ d.type = z.type
      /\ d.type_bytes = z.type_bytes /\ d.used_memory = z.used_memory
      /\ d.hot = z.hot /\ d.cold = z.cold
  <2>1. d = WatchTouch(z, F)
    BY DEF FreeEntries, z, y, x
  <2> QED BY <1>4, <2>1 DEF WatchTouch, CoreType
<1> HIDE DEF d
<1>6. Linked(d) = Linked(c) \ F
  BY <1>1, <1>3, <1>4, <1>5 DEF Linked
<1> DEFINE e == Weight(c)
           e2 == [k \in Keys |-> IF k \in F THEN 0 ELSE e[k]]
<1>7. Weight(d) = e2
  <2>1. \A k \in Keys : Weight(d)[k] = e2[k]
    <3> TAKE k \in Keys
    <3>1. CASE k \in F
      BY <1>6, <3>1 DEF Weight
    <3>2. CASE k \notin F
      BY <1>1, <1>3, <1>4, <1>5, <1>6, <3>2 DEF Weight, EntryBytes
    <3> QED BY <3>1, <3>2
  <2> QED BY <2>1 DEF Weight
<1>8. \A t \in AllTypes :
         d.type_bytes[t] = Saturate(c.type_bytes[t] - Total(e, PartOf(F, c.type, t)))
  <2> TAKE t \in AllTypes
  <2> DEFINE P == {k \in F : x.type[k] = t}
  <2>1. P = PartOf(F, c.type, t) /\ P \in SUBSET F
    BY <1>1 DEF PartOf
  <2>2. d.type_bytes[t] = Saturate(x.type_bytes[t] - Bytes(x, P))
    BY <1>3, <1>4, <1>5
  <2> HIDE DEF P, e
  <2>3. Bytes(x, P) = Total(Weight(c), P)
    BY <1>2, <2>1
  <2> QED BY <1>1, <2>1, <2>2, <2>3 DEF e
<1>9. d.used_memory = Saturate(c.used_memory - Total(e, F))
  <2>1. Bytes(x, F) = Total(e, F)
    BY <1>2
  <2> QED BY <1>1, <1>3, <1>4, <1>5, <2>1
<1>10. d.type \in [Keys -> AllTypes] /\ \A k \in Keys \ F : d.type[k] = c.type[k]
  BY <1>1, <1>3, <1>4, <1>5, WeightType DEF AllTypes
<1>11. /\ Ledger(e2, d.type, d.type_bytes, d.used_memory)
       /\ d.used_memory = c.used_memory - Total(e, F) /\ Total(e, F) \in Nat
  <2>1. /\ e \in [Keys -> Nat] /\ c.type \in [Keys -> AllTypes]
        /\ c.type_bytes \in [AllTypes -> Nat]
        /\ Ledger(e, c.type, c.type_bytes, c.used_memory)
    BY WeightType DEF Covered
  <2>2. e2 = [k \in Keys |-> IF k \in F THEN 0 ELSE e[k]]
    OBVIOUS
  <2> HIDE DEF e, e2
  <2> QED BY <1>0, <1>8, <1>9, <1>10, <2>1, <2>2, LedgerFree
<1>12. \A k \in Keys : d.payload[k] <= LargestPayload
  BY <1>1, <1>3, <1>4, <1>5, LargestCovers DEF Covered
<1>13. d.used_memory <= c.used_memory
  <2>1. c.used_memory \in Nat
    BY WeightType
  <2> HIDE DEF e
  <2> QED BY <1>11, <2>1
<1> HIDE DEF e, e2
<1>14. Covered(d)
  BY <1>7, <1>11, <1>12 DEF Covered
<1> QED BY <1>13, <1>14 DEF d

\* One entry changes its size or type, or is linked: the counters can follow
\* without wrapping.
LEMMA Rebook ==
    ASSUME NEW c \in CoreType, Covered(c), NEW k \in Keys, NEW u \in AllTypes,
           NEW b \in Nat, b <= KeyLen[k] + LargestPayload + Shell,
           NEW x, x = Weight(c)[k]
    PROVE  /\ x \in Nat /\ x <= c.used_memory /\ x <= c.type_bytes[c.type[k]]
           /\ c.used_memory - x + b \in Nat
           /\ (c.used_memory - x + b) % Word = c.used_memory - x + b
           /\ c.used_memory < Word
           /\ \A tb, e, ty :
                 /\ Rebooked(c.type_bytes, tb, c.type[k], x, u, b)
                 /\ e = [Weight(c) EXCEPT ![k] = b]
                 /\ ty = [c.type EXCEPT ![k] = u]
                 => Ledger(e, ty, tb, c.used_memory - x + b)
<1> DEFINE w == Weight(c)
           v == [w EXCEPT ![k] = b]
           vt == [c.type EXCEPT ![k] = u]
           m == c.used_memory
           m2 == m - x + b
<1>1. /\ w \in [Keys -> Nat] /\ c.type \in [Keys -> AllTypes]
      /\ c.type_bytes \in [AllTypes -> Nat] /\ m \in Nat
      /\ Ledger(w, c.type, c.type_bytes, m)
  BY WeightType DEF Covered
<1>2. \A j \in Keys : w[j] <= KeyLen[j] + LargestPayload + Shell
  <2> TAKE j \in Keys
  <2>1. c.payload[j] <= LargestPayload /\ c.payload[j] \in Nat
    BY WeightType DEF Covered
  <2> QED BY <2>1, KeysAssumption, SizeAssumption, LargestCovers DEF Weight, EntryBytes
<1>3. x = w[k]
  OBVIOUS
<1> HIDE DEF w, m
<1>4. m < Word
  BY <1>1, <1>2, LedgerFits
<1>5. x \in Nat /\ x <= m /\ x <= c.type_bytes[c.type[k]]
  BY <1>1, <1>3, LedgerCovers
<1>6. m2 \in Nat
  BY <1>1, <1>5
<1>7. ASSUME NEW tb, Rebooked(c.type_bytes, tb, c.type[k], x, u, b)
      PROVE  Ledger(v, vt, tb, m2)
  <2> DEFINE ty == c.type
             old == c.type_bytes
  <2>1. /\ w \in [Keys -> Nat] /\ ty \in [Keys -> AllTypes]
        /\ old \in [AllTypes -> Nat] /\ Ledger(w, ty, old, m)
    BY <1>1
  <2>2. Rebooked(old, tb, ty[k], w[k], u, b)
    BY <1>3, <1>7
  <2>3. m2 = m - w[k] + b /\ v = [w EXCEPT ![k] = b] /\ vt = [ty EXCEPT ![k] = u]
    BY <1>3
  <2> HIDE DEF v, vt, ty, old, m2
  <2> QED BY <2>1, <2>2, <2>3, LedgerPut
<1>8. m2 % Word = m2
  <2> DEFINE tb == [t \in AllTypes |-> c.type_bytes[t]
                 - (IF c.type[k] = t THEN x ELSE 0) + (IF u = t THEN b ELSE 0)]
  <2>1. \A t \in AllTypes : tb[t] = c.type_bytes[t]
                 - (IF c.type[k] = t THEN x ELSE 0) + (IF u = t THEN b ELSE 0)
    OBVIOUS
  <2>2. \A t \in AllTypes : tb[t] \in Nat
    BY <1>1, <1>5, <2>1
  <2>3. tb \in [AllTypes -> Nat]
    BY <2>2
  <2> HIDE DEF tb
  <2>4. Ledger(v, vt, tb, m2)
    BY <1>7, <2>1 DEF Rebooked
  <2>5. v \in [Keys -> Nat] /\ vt \in [Keys -> AllTypes]
    BY <1>1
  <2>6. \A j \in Keys : v[j] <= KeyLen[j] + LargestPayload + Shell
    BY <1>1, <1>2
  <2> HIDE DEF v, vt, m2
  <2> QED BY <2>3, <2>4, <2>5, <2>6, LedgerFits
<1> QED BY <1>4, <1>5, <1>6, <1>7, <1>8 DEF w, m

\* A new entry.
LEMMA LinkCovered ==
    ASSUME NEW c \in CoreType, Covered(c), NEW k \in Keys \ Linked(c),
           NEW ty \in AllTypes, NEW p \in Nat, p <= LargestPayload
    PROVE  /\ Covered(LinkNew(c, k, ty, p))
           /\ LinkNew(c, k, ty, p).used_memory
                 = c.used_memory + (KeyLen[k] + p + Shell)
<1> DEFINE d == LinkNew(c, k, ty, p)
           tot == KeyLen[k] + p + Shell
           m == c.used_memory
<1>1. /\ d.hot = c.hot \cup {k} /\ d.cold = c.cold
      /\ d.payload = [c.payload EXCEPT ![k] = p]
      /\ d.type = [c.type EXCEPT ![k] = ty]
      /\ d.used_memory = (c.used_memory + tot) % Word
      /\ d.type_bytes = [c.type_bytes EXCEPT ![ty] = @ + tot]
  BY DEF LinkNew, CoreType
<1> HIDE DEF d
<1>2. tot \in Nat /\ tot <= KeyLen[k] + LargestPayload + Shell
  BY KeysAssumption, SizeAssumption, LargestCovers
<1> DEFINE x == Weight(c)[k]
<1>3. x = 0
  BY DEF Weight
<1> HIDE DEF x
<1>4. Linked(d) = Linked(c) \cup {k}
  BY <1>1 DEF Linked
<1>5. Weight(d) = [Weight(c) EXCEPT ![k] = tot]
  <2>1. EntryBytes(d, k) = tot
    BY <1>1, WeightType DEF EntryBytes
  <2>2. \A j \in Keys \ {k} : EntryBytes(d, j) = EntryBytes(c, j)
    BY <1>1, WeightType DEF EntryBytes
  <2> HIDE DEF tot
  <2> QED BY <1>4, <2>1, <2>2 DEF Weight
<1>6. Rebooked(c.type_bytes, d.type_bytes, c.type[k], x, ty, tot)
  <2>1. c.type_bytes \in [AllTypes -> Nat]
    BY WeightType
  <2> HIDE DEF tot
  <2> QED BY <1>1, <1>2, <1>3, <2>1 DEF Rebooked
<1> HIDE DEF tot
<1>7. /\ m - x + tot \in Nat /\ (m - x + tot) % Word = m - x + tot
      /\ Ledger(Weight(d), d.type, d.type_bytes, m - x + tot)
  <2>1. x = Weight(c)[k]
    BY DEF x
  <2>2. /\ m - x + tot \in Nat /\ (m - x + tot) % Word = m - x + tot
        /\ \A tb, e, tys : /\ Rebooked(c.type_bytes, tb, c.type[k], x, ty, tot)
                           /\ e = [Weight(c) EXCEPT ![k] = tot]
                           /\ tys = [c.type EXCEPT ![k] = ty]
                           => Ledger(e, tys, tb, m - x + tot)
    BY <1>2, <2>1, Rebook
  <2> QED BY <1>1, <1>5, <1>6, <2>2
<1>8. m - x + tot = m + tot
  BY <1>2, <1>3, WeightType
<1>9. \A j \in Keys : d.payload[j] <= LargestPayload
  BY <1>1, WeightType DEF Covered
<1> QED BY <1>1, <1>7, <1>8, <1>9 DEF Covered, d, tot

\* An entry takes another size or type, and the counters follow.
LEMMA EntryCovered ==
    ASSUME NEW c \in CoreType, Covered(c), NEW k \in Linked(c),
           NEW u \in AllTypes, NEW p \in Nat, p <= LargestPayload, NEW d,
           Linked(d) = Linked(c),
           d.payload = [c.payload EXCEPT ![k] = p],
           d.type = [c.type EXCEPT ![k] = u],
           NEW x, x = EntryBytes(c, k), NEW b, b = KeyLen[k] + p + Shell,
           Rebooked(c.type_bytes, d.type_bytes, c.type[k], x, u, b),
           d.used_memory = c.used_memory - x + b
    PROVE  Covered(d)
<1> DEFINE m == c.used_memory
<1>1. k \in Keys /\ c.payload \in [Keys -> Nat]
  BY DEF CoreType, Linked
<1>2. b \in Nat /\ b <= KeyLen[k] + LargestPayload + Shell
  BY <1>1, KeysAssumption, SizeAssumption, LargestCovers
<1>3. Weight(c)[k] = x
  BY <1>1 DEF Weight
<1>4. Weight(d) = [Weight(c) EXCEPT ![k] = b]
  <2>1. EntryBytes(d, k) = b
    BY <1>1 DEF EntryBytes
  <2>2. \A j \in Keys \ {k} : EntryBytes(d, j) = EntryBytes(c, j)
    BY <1>1 DEF EntryBytes
  <2> QED BY <2>1, <2>2 DEF Weight
<1>5. Ledger(Weight(d), d.type, d.type_bytes, m - x + b)
  <2>1. \A tb, e, ty : /\ Rebooked(c.type_bytes, tb, c.type[k], x, u, b)
                       /\ e = [Weight(c) EXCEPT ![k] = b]
                       /\ ty = [c.type EXCEPT ![k] = u]
                       => Ledger(e, ty, tb, m - x + b)
    BY <1>1, <1>2, <1>3, Rebook
  <2> QED BY <1>4, <2>1
<1>6. \A j \in Keys : d.payload[j] <= LargestPayload
  BY <1>1 DEF Covered
<1> QED BY <1>5, <1>6 DEF Covered

\* What is booked for an entry, and room for what replaces it.
LEMMA EntryBooked ==
    ASSUME NEW c \in CoreType, Covered(c), NEW k \in Linked(c),
           NEW p \in Nat, p <= LargestPayload
    PROVE  LET x == EntryBytes(c, k)
               b == KeyLen[k] + p + Shell
               m == c.used_memory
           IN  /\ x = KeyLen[k] + c.payload[k] + Shell
               /\ x \in Nat /\ x <= m /\ x <= c.type_bytes[c.type[k]]
               /\ m \in Nat /\ m < Word /\ m % Word = m
               /\ m - x + b \in Nat /\ (m - x + b) % Word = m - x + b
<1> DEFINE x == EntryBytes(c, k)
           b == KeyLen[k] + p + Shell
           m == c.used_memory
<1>1. k \in Keys /\ c.type[k] \in AllTypes /\ m \in Nat
  BY DEF CoreType, Linked
<1>2. b \in Nat /\ b <= KeyLen[k] + LargestPayload + Shell
  BY <1>1, KeysAssumption, SizeAssumption, LargestCovers
<1>3. Weight(c)[k] = x
  BY <1>1 DEF Weight
<1>4. x = KeyLen[k] + c.payload[k] + Shell
  BY DEF EntryBytes
<1> HIDE DEF x, b
<1>5. /\ x \in Nat /\ x <= m /\ x <= c.type_bytes[c.type[k]]
      /\ m - x + b \in Nat /\ (m - x + b) % Word = m - x + b /\ m < Word
  BY <1>1, <1>2, <1>3, Rebook
<1>6. m % Word = m
  BY <1>1, <1>5, SizeAssumption
<1> QED BY <1>1, <1>4, <1>5, <1>6 DEF x, b

LEMMA ReplaceCovered ==
    ASSUME NEW c \in CoreType, Covered(c), NEW k \in Linked(c),
           NEW p \in Nat, p <= LargestPayload
    PROVE  /\ Covered(ReplaceByString(c, k, p))
           /\ ReplaceByString(c, k, p).used_memory = c.used_memory - c.payload[k] + p
<1> DEFINE d == ReplaceByString(c, k, p)
           old == c.payload[k]
           ty == c.type[k]
           x == EntryBytes(c, k)
           b == KeyLen[k] + p + Shell
           m == c.used_memory
           tb == c.type_bytes
           len == KeyLen[k]
<1>1. /\ k \in Keys /\ ty \in AllTypes /\ old \in Nat /\ tb \in [AllTypes -> Nat]
      /\ len \in Nat /\ Shell \in Nat
  BY KeysAssumption, SizeAssumption DEF CoreType, Linked
<1>2. /\ x = len + old + Shell
      /\ x \in Nat /\ x <= m /\ x <= tb[ty]
      /\ m \in Nat /\ m < Word /\ m % Word = m
      /\ m - x + b \in Nat /\ (m - x + b) % Word = m - x + b
  BY EntryBooked
<1>3. b = len + p + Shell
  OBVIOUS
<1>4. /\ d.hot = c.hot /\ d.cold = c.cold
      /\ d.payload = [c.payload EXCEPT ![k] = p]
      /\ d.type = [c.type EXCEPT ![k] = "string"]
  BY DEF ReplaceByString, CoreType
<1>5. ty = "string" =>
         /\ d.used_memory = (((m - old) % Word) + p) % Word
         /\ d.type_bytes = [tb EXCEPT !["string"] = Saturate(@ - old) + p]
  BY DEF ReplaceByString, CoreType
<1>6. ty # "string" =>
         /\ d.used_memory = (Saturate(m - old) + p) % Word
         /\ d.type_bytes = [tb EXCEPT ![ty] = Saturate(@ - x),
                                      !["string"] = @ + len + Shell + p]
  BY DEF ReplaceByString, CoreType
<1> HIDE DEF d, old, ty, m, tb, len
<1>7. (m - old) \in Nat /\ (m - old) % Word = m - old /\ m - old + p = m - x + b
  <2> HIDE DEF x, b
  <2>1. Word \in Nat \ {0}
    BY SizeAssumption
  <2>2. (m - old) \in Nat /\ m - old < Word /\ m - old + p = m - x + b
    <3>1. x = len + old + Shell /\ x \in Nat /\ x <= m /\ m \in Nat /\ m < Word
      BY <1>2
    <3> QED BY <1>1, <1>3, <2>1, <3>1
  <2> DEFINE y == m - old
  <2>3. y \in Nat /\ y < Word
    BY <2>2
  <2> HIDE DEF y
  <2>4. y % Word = y
    BY <2>1, <2>3
  <2> QED BY <2>2, <2>4 DEF y
<1>8. d.used_memory = m - x + b
  <2> HIDE DEF x, b
  <2> QED BY <1>2, <1>5, <1>6, <1>7 DEF Saturate
<1>9. "string" \in AllTypes /\ tb["string"] \in Nat
  BY <1>1 DEF AllTypes
<1>10. Rebooked(tb, d.type_bytes, ty, x, "string", b)
  <2> HIDE DEF x, b
  <2>1. ASSUME NEW t \in AllTypes
        PROVE  d.type_bytes[t] = tb[t] - (IF ty = t THEN x ELSE 0)
                                       + (IF "string" = t THEN b ELSE 0)
    <3>1. tb[t] \in Nat
      BY <1>1
    <3>2. CASE ty = "string"
      <4>1. Saturate(tb["string"] - old) + p = tb["string"] - x + b
        BY <1>1, <1>2, <1>3, <1>9, <3>2 DEF Saturate
      <4>2. d.type_bytes[t] = IF t = "string" THEN tb["string"] - x + b ELSE tb[t]
        BY <1>1, <1>5, <3>2, <4>1
      <4>3. b \in Int
        BY <1>1, <1>3
      <4> QED BY <1>2, <1>9, <3>1, <3>2, <4>2, <4>3
    <3>3. CASE ty # "string"
      <4>1. Saturate(tb[ty] - x) = tb[ty] - x /\ tb[ty] \in Nat
        BY <1>1, <1>2 DEF Saturate
      <4>2. d.type_bytes[t] = IF t = "string" THEN tb["string"] + len + Shell + p
                              ELSE IF t = ty THEN tb[ty] - x ELSE tb[t]
        BY <1>1, <1>6, <1>9, <3>3, <4>1
      <4>3. b \in Int /\ tb["string"] + len + Shell + p = tb["string"] + b
        BY <1>1, <1>3, <1>9
      <4> QED BY <1>2, <1>9, <3>1, <3>3, <4>1, <4>2, <4>3
    <3> QED BY <3>2, <3>3
  <2> QED BY <2>1 DEF Rebooked
<1>11. Linked(d) = Linked(c)
  BY <1>4 DEF Linked
<1>12. Covered(d)
  <2>1. /\ Rebooked(c.type_bytes, d.type_bytes, c.type[k], x, "string", b)
        /\ d.used_memory = c.used_memory - x + b
    BY <1>8, <1>10 DEF m, tb, ty
  <2>2. x = EntryBytes(c, k) /\ b = KeyLen[k] + p + Shell
    OBVIOUS
  <2> HIDE DEF x, b
  <2> QED BY <1>4, <1>9, <1>11, <2>1, <2>2, EntryCovered
<1> QED BY <1>7, <1>8, <1>12 DEF d, m, old

LEMMA ResizeCovered ==
    ASSUME NEW c \in CoreType, Covered(c), NEW k \in Linked(c),
           NEW p \in Nat, p <= LargestPayload
    PROVE  LET d == ResizeObject(c, k, p) IN
           /\ Covered(d)
           /\ d.used_memory = c.used_memory - c.payload[k] + p
<1> DEFINE d == ResizeObject(c, k, p)
           old == c.payload[k]
           ty == c.type[k]
           x == EntryBytes(c, k)
           b == KeyLen[k] + p + Shell
           m == c.used_memory
           tb == c.type_bytes
           len == KeyLen[k]
<1>1. /\ k \in Keys /\ ty \in AllTypes /\ old \in Nat /\ tb \in [AllTypes -> Nat]
      /\ len \in Nat /\ Shell \in Nat /\ Word \in Nat \ {0}
  BY KeysAssumption, SizeAssumption DEF CoreType, Linked
<1>2. /\ x = len + old + Shell
      /\ x \in Nat /\ x <= m /\ x <= tb[ty]
      /\ m \in Nat /\ m < Word
      /\ m - x + b \in Nat /\ (m - x + b) % Word = m - x + b
  BY EntryBooked
<1>3. b = len + p + Shell
  OBVIOUS
<1>4. /\ d.hot = c.hot /\ d.cold = c.cold
      /\ d.payload = [c.payload EXCEPT ![k] = p]
      /\ d.type = c.type
      /\ d.used_memory = IF p >= old THEN (m + (p - old)) % Word
                                     ELSE Saturate(m - (old - p))
      /\ d.type_bytes = [tb EXCEPT ![ty] = IF p >= old THEN @ + (p - old)
                                           ELSE Saturate(@ - (old - p))]
  BY DEF ResizeObject, CoreType
<1>5. c.type = [c.type EXCEPT ![k] = ty]
  BY WeightType
<1> HIDE DEF d, old, ty, m, tb, len, x, b
<1>6. m - x + b = m - old + p /\ m - x + b = m + (p - old) /\ m - x + b = m - (old - p)
  BY <1>1, <1>2, <1>3
<1>7. d.used_memory = m - x + b
  <2>1. CASE p >= old
    BY <1>1, <1>2, <1>4, <1>6, <2>1
  <2>2. CASE ~ (p >= old)
    BY <1>1, <1>2, <1>4, <1>6, <2>2 DEF Saturate
  <2> QED BY <2>1, <2>2
<1>8. tb[ty] \in Nat /\ d.type_bytes[ty] = tb[ty] - x + b
  <2>1. tb[ty] \in Nat /\ tb[ty] - x + b = tb[ty] + (p - old)
        /\ tb[ty] - x + b = tb[ty] - (old - p) /\ b \in Nat
    BY <1>1, <1>2, <1>3
  <2>2. d.type_bytes[ty] = IF p >= old THEN tb[ty] + (p - old)
                                       ELSE Saturate(tb[ty] - (old - p))
    BY <1>1, <1>4
  <2>3. tb[ty] - x + b \in Nat
    BY <1>1, <1>2, <2>1
  <2> QED BY <2>1, <2>2, <2>3 DEF Saturate
<1>9. Rebooked(tb, d.type_bytes, ty, x, ty, b)
  <2>1. ASSUME NEW t \in AllTypes
        PROVE  d.type_bytes[t] = tb[t] - (IF ty = t THEN x ELSE 0)
                                       + (IF ty = t THEN b ELSE 0)
    <3>1. tb[t] \in Nat
      BY <1>1
    <3>2. CASE t = ty
      BY <1>8, <3>1, <3>2
    <3>3. CASE t # ty
      <4>1. d.type_bytes[t] = tb[t]
        BY <1>1, <1>4, <3>3
      <4> QED BY <3>1, <3>3, <4>1
    <3> QED BY <3>2, <3>3
  <2> QED BY <2>1 DEF Rebooked
<1>10. Linked(d) = Linked(c)
  BY <1>4 DEF Linked
<1>11. Covered(d)
  <2>1. /\ Rebooked(c.type_bytes, d.type_bytes, c.type[k], x, ty, b)
        /\ d.used_memory = c.used_memory - x + b
    BY <1>7, <1>9 DEF m, tb, ty
  <2>2. x = EntryBytes(c, k) /\ b = KeyLen[k] + p + Shell
    BY DEF x, b
  <2>3. d.type = [c.type EXCEPT ![k] = ty]
    BY <1>4, <1>5
  <2>4. ty \in AllTypes /\ d.payload = [c.payload EXCEPT ![k] = p]
    BY <1>1, <1>4
  <2> QED BY <1>10, <2>1, <2>2, <2>3, <2>4, EntryCovered
<1> QED BY <1>6, <1>7, <1>11 DEF d, m, old

\* RENAME: the entry takes the length of its new name.
LEMMA MoveCovered ==
    ASSUME NEW c \in CoreType, Covered(c), NEW k \in Linked(c),
           NEW n \in Keys \ Linked(c)
    PROVE  Covered(MoveEntry(c, k, n))
<1> DEFINE d == MoveEntry(c, k, n)
           old == c.payload[k]
           ty == c.type[k]
           x == EntryBytes(c, k)
           b == KeyLen[n] + c.payload[k] + Shell
           m == c.used_memory
           tb == c.type_bytes
           e == Weight(c)
           e1 == [e EXCEPT ![k] = 0]
           ty1 == [c.type EXCEPT ![k] = "string"]
           tb1 == [tb EXCEPT ![ty] = @ - x]
           m1 == m - x
           Longer(y) == IF KeyLen[n] >= KeyLen[k] THEN y + (KeyLen[n] - KeyLen[k])
                                                  ELSE Saturate(y - (KeyLen[k] - KeyLen[n]))
<1>1. /\ k \in Keys /\ ty \in AllTypes /\ old \in Nat /\ tb \in [AllTypes -> Nat]
      /\ KeyLen[k] \in Nat /\ KeyLen[n] \in Nat /\ Shell \in Nat /\ Word \in Nat \ {0}
      /\ k # n /\ old <= LargestPayload /\ "string" \in AllTypes
  BY KeysAssumption, SizeAssumption DEF CoreType, Linked, Covered, AllTypes
<1>2. /\ x = KeyLen[k] + old + Shell
      /\ x \in Nat /\ x <= m /\ x <= tb[ty] /\ m \in Nat
  <2>1. 0 \in Nat /\ 0 <= LargestPayload
    BY LargestCovers
  <2> QED BY <2>1, EntryBooked
<1>3. b = KeyLen[n] + old + Shell /\ b \in Nat
  BY <1>1
<1>4. /\ d.hot = (c.hot \ {k}) \cup {n} /\ d.cold = c.cold \ {k}
      /\ d.payload = [c.payload EXCEPT ![n] = old, ![k] = 0]
      /\ d.type = [c.type EXCEPT ![n] = ty, ![k] = "string"]
      /\ d.used_memory = Longer(m) % Word
      /\ d.type_bytes = [tb EXCEPT ![ty] = Longer(@)]
  BY DEF MoveEntry, CoreType
<1>5. /\ e \in [Keys -> Nat] /\ c.type \in [Keys -> AllTypes]
      /\ Ledger(e, c.type, tb, m) /\ c.payload \in [Keys -> Nat]
  BY WeightType DEF Covered
<1>6. e[k] = x /\ e[n] = 0
  BY <1>1 DEF Weight
<1>7. Linked(d) = (Linked(c) \ {k}) \cup {n}
  BY <1>1, <1>4 DEF Linked
<1>8. Weight(d) = [e1 EXCEPT ![n] = b]
  <2>1. EntryBytes(d, n) = b
    BY <1>1, <1>4, <1>5 DEF EntryBytes
  <2>2. \A j \in Keys \ {k, n} : EntryBytes(d, j) = EntryBytes(c, j)
    BY <1>1, <1>4, <1>5 DEF EntryBytes
  <2>3. Weight(d)[n] = b /\ Weight(d)[k] = 0
    BY <1>1, <1>7, <2>1 DEF Weight
  <2>4. \A j \in Keys \ {k, n} : Weight(d)[j] = e[j]
    BY <1>7, <2>2 DEF Weight
  <2>5. Weight(d) = [j \in Keys |-> Weight(d)[j]]
    BY DEF Weight
  <2> HIDE DEF b, e
  <2> QED BY <1>1, <1>5, <2>3, <2>4, <2>5
<1>9. d.type = [ty1 EXCEPT ![n] = ty]
  BY <1>1, <1>4, <1>5
<1>10. \A y \in Nat : y >= x => Longer(y) = y - x + b /\ Longer(y) \in Nat
  <2> TAKE y \in Nat
  <2> HAVE y >= x
  <2> HIDE DEF b, x, old
  <2> QED BY <1>1, <1>2, <1>3 DEF Saturate
<1> HIDE DEF d, old, x, b, m, tb, e, ty, Longer
<1>11. Ledger(e1, ty1, tb1, m1)
  <2>1. \A t \in AllTypes : tb[t] \in Nat
    BY <1>1
  <2>2. Rebooked(tb, tb1, c.type[k], e[k], "string", 0)
    BY <1>1, <1>2, <1>6, <2>1 DEF Rebooked, ty
  <2>3. m1 = m - e[k] + 0
    BY <1>2, <1>6
  <2> HIDE DEF m1, tb1
  <2>4. 0 \in Nat
    OBVIOUS
  <2> QED BY <1>1, <1>5, <2>2, <2>3, <2>4, LedgerPut
<1>12. /\ e1 \in [Keys -> Nat] /\ ty1 \in [Keys -> AllTypes]
       /\ tb1 \in [AllTypes -> Nat] /\ e1[n] = 0 /\ m1 \in Nat
  BY <1>1, <1>2, <1>5, <1>6
<1>13. \A t \in AllTypes : d.type_bytes[t] = tb1[t] + (IF ty = t THEN b ELSE 0)
  <2> TAKE t \in AllTypes
  <2>1. tb[t] \in Nat /\ tb[ty] \in Nat
    BY <1>1
  <2>2. CASE t = ty
    <3>1. d.type_bytes[t] = tb[ty] - x + b /\ tb1[t] = tb[ty] - x
      BY <1>1, <1>2, <1>4, <1>10, <2>1, <2>2
    <3> QED BY <2>2, <3>1
  <2>3. CASE t # ty
    <3>1. d.type_bytes[t] = tb[t] /\ tb1[t] = tb[t]
      BY <1>1, <1>4, <2>3
    <3> QED BY <2>1, <2>3, <3>1
  <2> QED BY <2>2, <2>3
<1>14. Ledger(Weight(d), d.type, d.type_bytes, m1 + b)
  <2>1. Rebooked(tb1, d.type_bytes, ty1[n], e1[n], ty, b)
    <3>1. \A t \in AllTypes : tb1[t] \in Nat
      BY <1>12
    <3> HIDE DEF tb1, ty1, e1
    <3> QED BY <1>3, <1>12, <1>13, <3>1 DEF Rebooked
  <2>2. m1 + b = m1 - e1[n] + b
    BY <1>3, <1>12
  <2> DEFINE e2 == Weight(d)
             ty2 == d.type
             tb2 == d.type_bytes
             m2 == m1 + b
  <2>3. /\ e1 \in [Keys -> Nat] /\ ty1 \in [Keys -> AllTypes]
        /\ tb1 \in [AllTypes -> Nat] /\ n \in Keys /\ b \in Nat /\ ty \in AllTypes
    BY <1>1, <1>3, <1>12
  <2>4. /\ e2 = [e1 EXCEPT ![n] = b] /\ ty2 = [ty1 EXCEPT ![n] = ty]
        /\ Rebooked(tb1, tb2, ty1[n], e1[n], ty, b)
        /\ m2 = m1 - e1[n] + b
    BY <1>8, <1>9, <2>1, <2>2
  <2> HIDE DEF m1, tb1, ty1, e1, m2, e2, ty2, tb2
  <2>5. Ledger(e2, ty2, tb2, m2)
    BY <1>11, <2>3, <2>4, LedgerPut
  <2> QED BY <2>5 DEF m2, e2, ty2, tb2
<1>15. d.payload \in [Keys -> Nat] /\ \A j \in Keys : d.payload[j] <= LargestPayload
  BY <1>1, <1>4, <1>5, LargestCovers DEF Covered
<1>16. d.used_memory = m1 + b
  <2>1. \A j \in Keys : Weight(d)[j] <= KeyLen[j] + LargestPayload + Shell
    <3> TAKE j \in Keys
    <3>1. d.payload[j] \in Nat /\ d.payload[j] <= LargestPayload /\ KeyLen[j] \in Nat
      BY <1>15, KeysAssumption
    <3> QED BY <1>1, <3>1, LargestCovers DEF Weight, EntryBytes
  <2>2. \A t \in AllTypes : d.type_bytes[t] \in Nat
    <3> TAKE t \in AllTypes
    <3>1. tb1[t] \in Nat
      BY <1>12
    <3> HIDE DEF tb1
    <3> QED BY <1>3, <1>13, <3>1
  <2>3. d.type_bytes \in [AllTypes -> Nat]
    <3>1. d.type_bytes = [t \in AllTypes |-> d.type_bytes[t]]
      BY <1>1, <1>4
    <3> QED BY <2>2, <3>1
  <2>4. Weight(d) \in [Keys -> Nat]
    BY <1>3, <1>8, <1>12
  <2>5. d.type \in [Keys -> AllTypes]
    BY <1>1, <1>9, <1>12
  <2> HIDE DEF m1
  <2>6. (m1 + b) % Word = m1 + b
    BY <1>14, <2>1, <2>3, <2>4, <2>5, LedgerFits
  <2>7. Longer(m) = m1 + b
    BY <1>2, <1>10 DEF m1
  <2> QED BY <1>4, <2>6, <2>7
<1> QED BY <1>14, <1>15, <1>16 DEF Covered, d

\* LREM empties a list: what it leaves booked.
LEMMA LeakCovered ==
    ASSUME NEW c \in CoreType, Covered(c), NEW k \in Linked(c),
           c.used_memory <= MemBound, ObjBase <= c.payload[k]
    PROVE  /\ Covered([c EXCEPT !.payload[k] = ObjBase])
           /\ [c EXCEPT !.payload[k] = ObjBase] \in CoreType
           /\ Linked([c EXCEPT !.payload[k] = ObjBase]) = Linked(c)
<1> DEFINE d == [c EXCEPT !.payload[k] = ObjBase]
<1>1. ObjBase \in Nat /\ ObjBase <= LargestPayload
  BY LargestCovers
<1>2. /\ d \in CoreType /\ d.hot = c.hot /\ d.cold = c.cold
      /\ d.payload = [c.payload EXCEPT ![k] = ObjBase]
      /\ d.type = c.type /\ d.type_bytes = c.type_bytes
      /\ d.used_memory = c.used_memory
  BY <1>1 DEF CoreType
<1> HIDE DEF d
<1>3. Linked(d) = Linked(c)
  BY <1>2 DEF Linked
<1>4. /\ Weight(c) \in [Keys -> Nat] /\ Weight(d) \in [Keys -> Nat]
      /\ c.type \in [Keys -> AllTypes] /\ c.type_bytes \in [AllTypes -> Nat]
      /\ c.payload \in [Keys -> Nat]
  BY <1>2, WeightType
<1>5. \A j \in Keys : Weight(d)[j] <= Weight(c)[j]
  <2> TAKE j \in Keys
  <2>1. d.payload[j] <= c.payload[j] /\ d.payload[j] \in Nat /\ c.payload[j] \in Nat
    BY <1>1, <1>2, <1>4
  <2>2. EntryBytes(d, j) <= EntryBytes(c, j)
    BY <2>1, KeysAssumption, SizeAssumption DEF EntryBytes
  <2> QED BY <1>3, <2>2 DEF Weight
<1>6. Ledger(Weight(d), d.type, d.type_bytes, d.used_memory)
  <2>1. Ledger(Weight(c), c.type, c.type_bytes, c.used_memory)
    BY DEF Covered
  <2> QED BY <1>2, <1>4, <1>5, <2>1, LedgerLeak
<1>7. \A j \in Keys : d.payload[j] <= LargestPayload
  BY <1>1, <1>2, <1>4 DEF Covered
<1> QED BY <1>2, <1>3, <1>6, <1>7 DEF Covered, d

\* An empty dictionary.
LEMMA BlankCovered ==
    ASSUME NEW d \in CoreType, Linked(d) = {}, \A k \in Keys : d.payload[k] = 0,
           \A t \in AllTypes : d.type_bytes[t] = 0, d.used_memory = 0
    PROVE  Covered(d)
<1>1. \A k \in Keys : Weight(d)[k] = 0
  BY DEF Weight
<1>2. IsFiniteSet(Keys)
  BY KeysAssumption
<1>3. \A t \in AllTypes : Total(OfKind(Weight(d), d.type, t), Keys) = 0
  <2> TAKE t \in AllTypes
  <2>1. \A k \in Keys : OfKind(Weight(d), d.type, t)[k] = 0
    BY <1>1 DEF OfKind
  <2> QED BY <1>2, <2>1, TotalZero
<1>4. Total(Weight(d), Keys) = 0
  BY <1>1, <1>2, TotalZero
<1>5. Ledger(Weight(d), d.type, d.type_bytes, d.used_memory)
  BY <1>3, <1>4, KnobAssumption DEF Ledger, SumOfTypes, AllTypes
<1> QED BY <1>5, LargestCovers DEF Covered

-----------------------------------------------------------------------------
(* The record as a whole, and what its entries go through.                 *)

Sound(c) == Consistent(c) /\ Covered(c)

\* Nothing happens to the entries outside K but a move between the tables.
Keeps(c, d, K) ==
    /\ d.evict = c.evict /\ d.maxmemory = c.maxmemory
    /\ \A k \in Linked(c) \ K : /\ k \in Linked(d)
                                /\ d.expire_at[k] = c.expire_at[k]
                                /\ k \in c.pinned => k \in d.pinned

\* g more bytes fit under the limit.
Affords(c, g) == c.maxmemory = 0 \/ c.used_memory + g <= c.maxmemory

\* What a write that adds at most g bytes may do to the entries outside K:
\* those that are not due stay, whatever is sampled, if they are pinned and a
\* built-in kernel evicts, or if the g bytes fit.
Protects(c, d, K, g) ==
    /\ d.evict = c.evict /\ d.maxmemory = c.maxmemory
    /\ \A k \in Linked(c) \ (K \cup Due(c)) :
          k \in c.pinned /\ c.evict # "plugin" =>
              k \in Linked(d) /\ k \in d.pinned /\ d.expire_at[k] = c.expire_at[k]
    /\ Affords(c, g) =>
          /\ d.used_memory <= c.used_memory + g
          /\ \A k \in Linked(c) \ (K \cup Due(c)) :
                k \in Linked(d) /\ d.expire_at[k] = c.expire_at[k]

LEMMA KeepsProtects ==
    ASSUME NEW c, NEW d, NEW K, NEW g, Keeps(c, d, K),
           d.used_memory <= c.used_memory + g
    PROVE  Protects(c, d, K, g)
BY DEF Keeps, Protects

LEMMA KeepsChain ==
    ASSUME NEW c, NEW d, NEW e, NEW K, Keeps(c, d, K), Keeps(d, e, K)
    PROVE  Keeps(c, e, K)
BY DEF Keeps

LEMMA ProtectsMore ==
    ASSUME NEW c \in CoreType, NEW d \in CoreType, NEW K, NEW L, NEW g \in Nat, NEW h \in Nat,
           Protects(c, d, K, g), K \subseteq L, g <= h
    PROVE  Protects(c, d, L, h)
<1>1. c.used_memory \in Nat /\ d.used_memory \in Nat /\ c.maxmemory \in Nat
  BY DEF CoreType
<1>2. Affords(c, h) => Affords(c, g)
  BY <1>1 DEF Affords
<1>3. d.used_memory <= c.used_memory + g => d.used_memory <= c.used_memory + h
  BY <1>1
<1> QED BY <1>2, <1>3 DEF Protects

LEMMA ProtectsChain ==
    ASSUME NEW c \in CoreType, NEW d \in CoreType, NEW e \in CoreType,
           NEW K, NEW g \in Nat, NEW h \in Nat,
           Protects(c, d, K, g), Protects(d, e, K, h)
    PROVE  Protects(c, e, K, g + h)
<1>1. /\ c.used_memory \in Nat /\ d.used_memory \in Nat /\ e.used_memory \in Nat
      /\ c.maxmemory \in Nat
  BY DEF CoreType
<1>2. d.evict = c.evict /\ d.maxmemory = c.maxmemory /\ e.evict = d.evict
      /\ e.maxmemory = d.maxmemory
  BY DEF Protects
<1>3. ASSUME NEW k \in Linked(c) \ (K \cup Due(c)), k \in Linked(d),
             d.expire_at[k] = c.expire_at[k]
      PROVE  k \in Linked(d) \ (K \cup Due(d))
  BY <1>3 DEF Due, HasTtl
<1>4. ASSUME NEW k \in Linked(c) \ (K \cup Due(c)), k \in c.pinned, c.evict # "plugin"
      PROVE  k \in Linked(e) /\ k \in e.pinned /\ e.expire_at[k] = c.expire_at[k]
  BY <1>2, <1>3, <1>4 DEF Protects
<1>5. ASSUME Affords(c, g + h)
      PROVE  /\ e.used_memory <= c.used_memory + (g + h)
             /\ \A k \in Linked(c) \ (K \cup Due(c)) :
                   k \in Linked(e) /\ e.expire_at[k] = c.expire_at[k]
  <2>1. Affords(c, g)
    BY <1>1, <1>5 DEF Affords
  <2>2. d.used_memory <= c.used_memory + g
    BY <2>1 DEF Protects
  <2>3. Affords(d, h)
    BY <1>1, <1>2, <1>5, <2>2 DEF Affords
  <2>4. e.used_memory <= d.used_memory + h
    BY <2>3 DEF Protects
  <2>5. ASSUME NEW k \in Linked(c) \ (K \cup Due(c))
        PROVE  k \in Linked(e) /\ e.expire_at[k] = c.expire_at[k]
    <3>1. k \in Linked(d) /\ d.expire_at[k] = c.expire_at[k]
      BY <2>1 DEF Protects
    <3> QED BY <1>3, <2>3, <3>1 DEF Protects
  <2> QED BY <1>1, <2>2, <2>4, <2>5
<1> QED BY <1>2, <1>4, <1>5 DEF Protects

-----------------------------------------------------------------------------
(* The single changes of the record.                                       *)

LEMMA FreeSound ==
    ASSUME NEW c, Sound(c), NEW F \in SUBSET Linked(c)
    PROVE  LET d == FreeEntries(c, F) IN
           /\ Sound(d) /\ Linked(d) = Linked(c) \ F
           /\ Keeps(c, d, F) /\ d.used_memory <= c.used_memory
<1> DEFINE d == FreeEntries(c, F)
           x == DiscountKeys(c, F)
           y == DiscountBytes(x, F)
           z == Unlink(y, F)
<1>1. c \in CoreType /\ F \in SUBSET Keys /\ Linked(c) \in SUBSET Keys
  BY DEF Sound, Consistent, CoreType, Linked
<1>2. Consistent(d) /\ Linked(d) = Linked(c) \ F
  BY FreeConsistent DEF Sound
<1>3. Covered(d) /\ d.used_memory <= c.used_memory
  BY <1>1, FreeCovered DEF Sound
<1>4. /\ x \in CoreType /\ x.evict = c.evict /\ x.maxmemory = c.maxmemory
      /\ x.expire_at = c.expire_at /\ x.pinned = c.pinned
  BY <1>1, SaturateType DEF DiscountKeys, CoreType
<1>5. d = WatchTouch(z, F)
  BY DEF FreeEntries
<1> HIDE DEF x, d
<1>6. /\ y \in CoreType /\ y.evict = x.evict /\ y.maxmemory = x.maxmemory
      /\ y.expire_at = x.expire_at /\ y.pinned = x.pinned
  BY <1>4, SaturateType DEF DiscountBytes, CoreType
<1> HIDE DEF y
<1>7. /\ z \in CoreType /\ z.evict = y.evict /\ z.maxmemory = y.maxmemory
      /\ z.expire_at = [k \in Keys |-> IF k \in F THEN 0 ELSE y.expire_at[k]]
      /\ z.pinned = y.pinned \ F
  BY <1>6 DEF Unlink, CoreType, AllTypes
<1> HIDE DEF z
<1>8. /\ d.evict = z.evict /\ d.maxmemory = z.maxmemory
      /\ d.expire_at = z.expire_at /\ d.pinned = z.pinned
  BY <1>5, <1>7 DEF WatchTouch, CoreType
<1>9. Keeps(c, d, F)
  BY <1>1, <1>2, <1>4, <1>6, <1>7, <1>8 DEF Keeps
<1> QED BY <1>2, <1>3, <1>9 DEF Sound, d

\* A lookup frees at most the entry it is for.
LEMMA FindSound ==
    ASSUME NEW c, Sound(c), NEW k \in Keys
    PROVE  LET d == FindEntry(c, k) IN
           Sound(d) /\ Keeps(c, d, {k}) /\ d.used_memory <= c.used_memory
<1>1. CASE k \in Linked(c) \cap Due(c)
  <2>1. {k} \in SUBSET Linked(c) /\ FindEntry(c, k) = FreeEntries(c, {k})
    BY <1>1 DEF FindEntry
  <2> QED BY <2>1, FreeSound
<1>2. CASE k \notin Linked(c) \cap Due(c)
  <2>1. c.used_memory \in Nat
    BY DEF Sound, Consistent, CoreType
  <2> QED BY <1>2, <2>1 DEF FindEntry, Keeps
<1> QED BY <1>1, <1>2

LEMMA WatchTouchSound ==
    ASSUME NEW c, Sound(c), NEW K \in SUBSET Keys
    PROVE  LET d == WatchTouch(c, K) IN
           /\ Sound(d) /\ Keeps(c, d, {}) /\ d.used_memory = c.used_memory
           /\ Linked(d) = Linked(c)
<1> DEFINE d == WatchTouch(c, K)
<1>1. Consistent(d) /\ Linked(d) = Linked(c)
  BY WatchTouchConsistent DEF Sound
<1>2. /\ d.payload = c.payload /\ d.type = c.type /\ d.type_bytes = c.type_bytes
      /\ d.used_memory = c.used_memory /\ d.expire_at = c.expire_at
      /\ d.pinned = c.pinned /\ d.evict = c.evict /\ d.maxmemory = c.maxmemory
  BY DEF WatchTouch, Sound, Consistent, CoreType
<1> HIDE DEF d
<1>3. Covered(d)
  BY <1>1, <1>2, SameCovered DEF Sound
<1> QED BY <1>1, <1>2, <1>3 DEF Sound, Keeps, d


LEMMA SetExpireSound ==
    ASSUME NEW c, Sound(c), NEW k \in Linked(c), NEW t \in Nat
    PROVE  LET d == SetExpireAt(c, k, t) IN
           /\ Sound(d) /\ Linked(d) = Linked(c)
           /\ Keeps(c, d, {k}) /\ d.used_memory = c.used_memory
<1> DEFINE x == ClearExpire(c, k)
           d == SetExpireAt(c, k, t)
<1>1. c \in CoreType /\ k \in Keys
  BY DEF Sound, Consistent, CoreType, Linked
<1>2. Consistent(d) /\ Linked(d) = Linked(c)
  BY SetExpireConsistent DEF Sound
<1>3. /\ x \in CoreType
      /\ x.payload = c.payload /\ x.type = c.type /\ x.type_bytes = c.type_bytes
      /\ x.used_memory = c.used_memory /\ x.pinned = c.pinned
      /\ x.evict = c.evict /\ x.maxmemory = c.maxmemory
      /\ \A j \in Keys \ {k} : x.expire_at[j] = c.expire_at[j]
  BY <1>1, SaturateType DEF ClearExpire, CoreType
<1>4. d = x \/ d = [x EXCEPT !.expire_at[k] = t, !.keys_with_ttl = @ + 1,
                             !.expire_at_sum = @ + t]
  BY DEF SetExpireAt
<1> HIDE DEF x, d
<1>5. /\ d.payload = x.payload /\ d.type = x.type /\ d.type_bytes = x.type_bytes
      /\ d.used_memory = x.used_memory /\ d.pinned = x.pinned
      /\ d.evict = x.evict /\ d.maxmemory = x.maxmemory
      /\ \A j \in Keys \ {k} : d.expire_at[j] = x.expire_at[j]
  <2>1. CASE d = x
    BY <2>1
  <2>2. CASE d = [x EXCEPT !.expire_at[k] = t, !.keys_with_ttl = @ + 1,
                           !.expire_at_sum = @ + t]
    BY <1>3, <2>2 DEF CoreType
  <2> QED BY <1>4, <2>1, <2>2
<1>6. Covered(d)
  BY <1>2, <1>3, <1>5, SameCovered DEF Sound
<1>7. Keeps(c, d, {k})
  BY <1>1, <1>2, <1>3, <1>5 DEF Keeps, CoreType, Linked
<1> QED BY <1>2, <1>3, <1>5, <1>6, <1>7 DEF Sound, d

LEMMA LinkSound ==
    ASSUME NEW c, Sound(c), NEW k \in Keys \ Linked(c), NEW ty \in AllTypes,
           NEW p \in Nat, p <= LargestPayload
    PROVE  LET d == LinkNew(c, k, ty, p) IN
           /\ Sound(d) /\ k \in Linked(d) /\ Keeps(c, d, {k})
           /\ d.payload[k] = p /\ d.type[k] = ty
           /\ d.used_memory = c.used_memory + (KeyLen[k] + p + Shell)
<1> DEFINE d == LinkNew(c, k, ty, p)
<1>1. c \in CoreType
  BY DEF Sound, Consistent
<1>2. /\ Consistent(d) /\ k \in Linked(d) /\ Covered(d)
      /\ d.used_memory = c.used_memory + (KeyLen[k] + p + Shell)
  BY <1>1, LinkConsistent, LinkCovered DEF Sound
<1>3. /\ d.hot = c.hot \cup {k} /\ d.cold = c.cold /\ d.pinned = c.pinned
      /\ d.evict = c.evict /\ d.maxmemory = c.maxmemory
      /\ d.expire_at = c.expire_at
      /\ d.payload[k] = p /\ d.type[k] = ty
  BY <1>1 DEF LinkNew, CoreType
<1> HIDE DEF d
<1>4. Keeps(c, d, {k})
  BY <1>3 DEF Keeps, Linked
<1> QED BY <1>2, <1>3, <1>4 DEF Sound, d

LEMMA ReplaceSound ==
    ASSUME NEW c, Sound(c), NEW k \in Linked(c), NEW p \in Nat, p <= LargestPayload
    PROVE  LET d == ReplaceByString(c, k, p) IN
           /\ Sound(d) /\ Linked(d) = Linked(c) /\ Keeps(c, d, {k})
           /\ d.used_memory = c.used_memory - c.payload[k] + p
<1> DEFINE d == ReplaceByString(c, k, p)
<1>1. c \in CoreType
  BY DEF Sound, Consistent
<1>2. /\ Consistent(d) /\ Linked(d) = Linked(c) /\ Covered(d)
      /\ d.used_memory = c.used_memory - c.payload[k] + p
  BY <1>1, ReplaceConsistent, ReplaceCovered DEF Sound
<1>3. /\ d.pinned = c.pinned /\ d.evict = c.evict /\ d.maxmemory = c.maxmemory
      /\ d.expire_at = c.expire_at
  BY <1>1 DEF ReplaceByString, CoreType
<1> HIDE DEF d
<1>4. Keeps(c, d, {k})
  BY <1>2, <1>3 DEF Keeps
<1> QED BY <1>2, <1>3, <1>4 DEF Sound, d

LEMMA ResizeSound ==
    ASSUME NEW c, Sound(c), NEW k \in Linked(c), NEW p \in Nat, p <= LargestPayload
    PROVE  LET d == ResizeObject(c, k, p) IN
           /\ Sound(d) /\ Linked(d) = Linked(c) /\ Keeps(c, d, {k})
           /\ d.used_memory = c.used_memory - c.payload[k] + p
<1> DEFINE d == ResizeObject(c, k, p)
<1>1. c \in CoreType /\ k \in Keys
  BY DEF Sound, Consistent, CoreType, Linked
<1>2. /\ Consistent(d) /\ Linked(d) = Linked(c) /\ Covered(d)
      /\ d.used_memory = c.used_memory - c.payload[k] + p
  BY <1>1, ResizeConsistent, ResizeCovered DEF Sound
<1>3. /\ d.pinned = c.pinned /\ d.evict = c.evict /\ d.maxmemory = c.maxmemory
      /\ d.expire_at = c.expire_at
  BY <1>1 DEF ResizeObject, CoreType
<1> HIDE DEF d
<1>4. Keeps(c, d, {k})
  BY <1>2, <1>3 DEF Keeps
<1> QED BY <1>2, <1>3, <1>4 DEF Sound, d

LEMMA DemoteSound ==
    ASSUME NEW c, Sound(c), NEW d \in MaybeDemoteHot(c)
    PROVE  Sound(d) /\ Keeps(c, d, {}) /\ d.used_memory = c.used_memory
<1>1. Consistent(d) /\ Linked(d) = Linked(c)
  BY MaybeDemoteConsistent DEF Sound
<1>2. /\ d.payload = c.payload /\ d.type = c.type /\ d.type_bytes = c.type_bytes
      /\ d.used_memory = c.used_memory /\ d.expire_at = c.expire_at
      /\ d.pinned = c.pinned /\ d.evict = c.evict /\ d.maxmemory = c.maxmemory
  <2>1. CASE c.layout = "hot_cold" /\ c.hot_nkeys > HotSoftCap(c)
    <3>1. PICK D \in SUBSET c.hot : d = Demote(c, D)
      BY <2>1 DEF MaybeDemoteHot
    <3> QED BY <3>1 DEF Demote, Sound, Consistent, CoreType
  <2>2. CASE ~ (c.layout = "hot_cold" /\ c.hot_nkeys > HotSoftCap(c))
    BY <2>2 DEF MaybeDemoteHot
  <2> QED BY <2>1, <2>2
<1>3. Covered(d)
  BY <1>1, <1>2, SameCovered DEF Sound
<1> QED BY <1>1, <1>2, <1>3 DEF Sound, Keeps

LEMMA TouchGetSound ==
    ASSUME NEW c, Sound(c), NEW k \in Keys, NEW d \in TouchGet(c, k)
    PROVE  Sound(d) /\ Keeps(c, d, {}) /\ d.used_memory = c.used_memory
<1>1. Consistent(d) /\ Linked(d) = Linked(c) /\ c \in CoreType
  BY TouchGetConsistent DEF Sound, Consistent
<1>2. /\ d.payload = c.payload /\ d.type = c.type /\ d.type_bytes = c.type_bytes
      /\ d.used_memory = c.used_memory /\ d.expire_at = c.expire_at
      /\ d.pinned = c.pinned /\ d.evict = c.evict /\ d.maxmemory = c.maxmemory
  <2>1. CASE c.layout = "hot_cold" /\ k \in c.cold \ c.hot /\ c.hot_promote_on_get
    <3> DEFINE e == [c EXCEPT !.cold = @ \ {k}, !.hot = @ \cup {k},
                              !.cold_nkeys = Saturate(@ - 1), !.hot_nkeys = @ + 1]
    <3>1. d \in MaybeDemoteHot(e)
      BY <2>1 DEF TouchGet
    <3>2. /\ e.payload = c.payload /\ e.type = c.type /\ e.type_bytes = c.type_bytes
          /\ e.used_memory = c.used_memory /\ e.expire_at = c.expire_at
          /\ e.pinned = c.pinned /\ e.evict = c.evict /\ e.maxmemory = c.maxmemory
          /\ e \in CoreType
      <4>1. k \in Keys /\ c.hot_nkeys + 1 \in Nat /\ Saturate(c.cold_nkeys - 1) \in Nat
        BY <1>1, SaturateType DEF CoreType
      <4> QED BY <1>1, <4>1 DEF CoreType
    <3> HIDE DEF e
    <3>3. d = e \/ \E D \in SUBSET e.hot : d = Demote(e, D)
      BY <3>1 DEF MaybeDemoteHot
    <3> QED BY <3>2, <3>3 DEF Demote, CoreType
  <2>2. CASE ~ (c.layout = "hot_cold" /\ k \in c.cold \ c.hot /\ c.hot_promote_on_get)
    BY <2>2 DEF TouchGet
  <2> QED BY <2>1, <2>2
<1>3. Covered(d)
  BY <1>1, <1>2, SameCovered DEF Sound
<1> QED BY <1>1, <1>2, <1>3 DEF Sound, Keeps

\* Eviction spares what it must spare, whichever buckets it samples.
LEMMA EvictSound ==
    ASSUME NEW c, Sound(c), NEW d \in MaybeEvict(c)
    PROVE  Sound(d) /\ Protects(c, d, {}, 0)
<1>1. c.used_memory \in Nat /\ c.maxmemory \in Nat
  BY DEF Sound, Consistent, CoreType
<1>2. CASE c.evict = "noop" \/ ~ OverMaxmemory(c)
  <2>1. d = c
    BY <1>2 DEF MaybeEvict
  <2> QED BY <1>1, <2>1 DEF Protects
<1>3. CASE ~ (c.evict = "noop" \/ ~ OverMaxmemory(c))
  <2>1. PICK E \in SUBSET Victims(c), X \in SUBSET Purgeable(c) :
                d = FreeEntries(c, E \cup X)
    BY <1>3 DEF MaybeEvict
  <2>2. E \cup X \in SUBSET Linked(c)
    BY DEF Victims, Purgeable, Sampled, Linked
  <2>3. Sound(d) /\ Keeps(c, d, E \cup X)
    BY <2>1, <2>2, FreeSound
  <2>4. ~ Affords(c, 0)
    BY <1>1, <1>3 DEF Affords, OverMaxmemory
  <2>5. ASSUME NEW k \in Linked(c) \ Due(c), k \in c.pinned, c.evict # "plugin"
        PROVE  k \notin E \cup X
    BY <2>5 DEF Victims, Purgeable
  <2> QED BY <2>3, <2>4, <2>5 DEF Protects, Keeps
<1> QED BY <1>2, <1>3

-----------------------------------------------------------------------------
(* The functions the commands call.                                        *)

\* A new key takes its name, its payload and an entry.
NewKey(k, p) == KeyLen[k] + p + Shell

LEMMA SoundType == ASSUME NEW c, Sound(c) PROVE c \in CoreType /\ c.used_memory \in Nat
BY DEF Sound, Consistent, CoreType

\* The end of a write: it has added g bytes, evicts, and tells the watchers.
LEMMA FinishSound ==
    ASSUME NEW c, Sound(c), NEW s, Sound(s), NEW k \in Keys, NEW g \in Nat,
           Keeps(c, s, {k}), s.used_memory <= c.used_memory + g,
           NEW e \in MaybeEvict(s)
    PROVE  /\ Sound(WatchTouch(e, {k})) /\ Protects(c, WatchTouch(e, {k}), {k}, g)
           /\ Sound(e) /\ Protects(c, e, {k}, g)
<1> DEFINE d == WatchTouch(e, {k})
<1>1. Sound(e) /\ Protects(s, e, {}, 0)
  BY EvictSound
<1>2. Sound(d) /\ Keeps(e, d, {}) /\ d.used_memory = e.used_memory
  BY <1>1, WatchTouchSound
<1> HIDE DEF d
<1>3. /\ c \in CoreType /\ s \in CoreType /\ e \in CoreType /\ d \in CoreType
      /\ e.used_memory \in Nat
  BY <1>1, <1>2, SoundType
<1>4. Protects(c, s, {k}, g)
  BY KeepsProtects
<1> DEFINE x == 0
<1>5. x \in Nat /\ x = 0 /\ g <= g + x /\ g + x = g
  OBVIOUS
<1>6. Protects(s, e, {}, x) /\ Protects(e, d, {}, x)
  BY <1>1, <1>2, <1>3, KeepsProtects
<1> HIDE DEF x
<1>7. Protects(s, e, {k}, x) /\ Protects(e, d, {k}, x)
  <2>1. {} \subseteq {k} /\ x <= x
    BY <1>5
  <2> QED BY <1>3, <1>5, <1>6, <2>1, ProtectsMore
<1>8. Protects(c, e, {k}, g + x)
  BY <1>3, <1>4, <1>5, <1>7, ProtectsChain
<1>9. Protects(c, d, {k}, (g + x) + x)
  <2>1. g + x \in Nat
    BY <1>5
  <2> QED BY <1>3, <1>5, <1>7, <1>8, <2>1, ProtectsChain
<1> QED BY <1>1, <1>2, <1>5, <1>8, <1>9 DEF d

LEMMA EntrySetSound ==
    ASSUME NEW c, Sound(c), NEW k \in Keys, NEW p \in Nat, p <= LargestPayload,
           NEW t \in Nat, NEW d \in EntrySetEx(c, k, p, t)
    PROVE  Sound(d) /\ Protects(c, d, {k}, NewKey(k, p))
<1> DEFINE f == FindEntry(c, k)
           ro == ReplaceByString(f, k, p)
           rn == LinkNew(f, k, "string", p)
           g == NewKey(k, p)
<1>1. /\ Sound(f) /\ Keeps(c, f, {k}) /\ f.used_memory <= c.used_memory
      /\ "string" \in AllTypes /\ f.used_memory \in Nat /\ c.used_memory \in Nat
  BY FindSound, SoundType DEF AllTypes
<1>2. g \in Nat /\ p <= g /\ g = KeyLen[k] + p + Shell
  BY KeysAssumption, SizeAssumption DEF NewKey
<1>3. PICK s \in IF k \in Linked(f) THEN TouchGet(SetExpireAt(ro, k, t), k)
                 ELSE MaybeDemoteHot(SetExpireAt(rn, k, t)) :
         \E e \in MaybeEvict(s) : d = WatchTouch(e, {k})
  BY DEF EntrySetEx
<1> HIDE DEF f, g
<1>4. Sound(s) /\ Keeps(c, s, {k}) /\ s.used_memory <= c.used_memory + g
  <2> DEFINE r == IF k \in Linked(f) THEN ro ELSE rn
             x == SetExpireAt(r, k, t)
  <2>1. /\ Sound(r) /\ k \in Linked(r) /\ Keeps(f, r, {k})
        /\ r.used_memory <= f.used_memory + g
    <3>1. CASE k \in Linked(f)
      <4>1. Sound(ro) /\ Linked(ro) = Linked(f) /\ Keeps(f, ro, {k})
            /\ ro.used_memory = f.used_memory - f.payload[k] + p
        BY <1>1, <3>1, ReplaceSound
      <4>2. f.payload[k] \in Nat
        BY <1>1, SoundType DEF CoreType
      <4>3. ro.used_memory <= f.used_memory + g
        <5> HIDE DEF ro
        <5> QED BY <1>1, <1>2, <4>1, <4>2
      <4> QED BY <3>1, <4>1, <4>3
    <3>2. CASE k \notin Linked(f)
      <4>1. Sound(rn) /\ k \in Linked(rn) /\ Keeps(f, rn, {k})
            /\ rn.used_memory = f.used_memory + (KeyLen[k] + p + Shell)
        BY <1>1, <3>2, LinkSound
      <4>2. rn.used_memory <= f.used_memory + g
        <5> HIDE DEF rn
        <5> QED BY <1>1, <1>2, <4>1
      <4> QED BY <3>2, <4>1, <4>2
    <3> QED BY <3>1, <3>2
  <2>2. s \in TouchGet(x, k) \/ s \in MaybeDemoteHot(x)
    BY <1>3
  <2> HIDE DEF r, ro, rn
  <2>3. Sound(x) /\ Keeps(r, x, {k}) /\ x.used_memory = r.used_memory
    BY <2>1, SetExpireSound
  <2> HIDE DEF x
  <2>4. Sound(s) /\ Keeps(x, s, {}) /\ s.used_memory = x.used_memory
    BY <2>2, <2>3, TouchGetSound, DemoteSound
  <2>5. Keeps(c, s, {k})
    BY <1>1, <2>1, <2>3, <2>4 DEF Keeps
  <2>6. r.used_memory \in Nat
    BY <2>1, SoundType
  <2> QED BY <1>1, <1>2, <2>1, <2>3, <2>4, <2>5, <2>6
<1>5. PICK e \in MaybeEvict(s) : d = WatchTouch(e, {k})
  BY <1>3
<1>6. Sound(d) /\ Protects(c, d, {k}, g)
  BY <1>2, <1>4, <1>5, FinishSound
<1> QED BY <1>6 DEF g

LEMMA GetPtrSound ==
    ASSUME NEW c, Sound(c), NEW k \in Keys, NEW d \in GetPtr(c, k)
    PROVE  Sound(d)
<1> DEFINE f == FindEntry(c, k)
<1>1. Sound(f)
  BY FindSound
<1>2. d \in TouchGet(f, k) \/ d = f
  BY DEF GetPtr
<1> HIDE DEF f
<1> QED BY <1>1, <1>2, TouchGetSound

LEMMA DelSound ==
    ASSUME NEW c, Sound(c), NEW k \in Keys
    PROVE  Sound(DelBin(c, k))
<1> DEFINE f == FindEntry(c, k)
<1>1. Sound(f)
  BY FindSound
<1>2. CASE k \in Linked(f)
  <2>1. {k} \in SUBSET Linked(f) /\ DelBin(c, k) = FreeEntries(f, {k})
    BY <1>2 DEF DelBin
  <2> HIDE DEF f
  <2> QED BY <1>1, <2>1, FreeSound
<1>3. CASE k \notin Linked(f)
  BY <1>1, <1>3 DEF DelBin
<1> QED BY <1>2, <1>3

\* A lookup that does not free the entry leaves it as it is.
LEMMA FoundSame ==
    ASSUME NEW c \in CoreType, NEW k \in Keys, k \in Linked(FindEntry(c, k))
    PROVE  FindEntry(c, k) = c /\ k \in Linked(c)
<1>1. CASE k \in Linked(c) \cap Due(c)
  <2>1. FindEntry(c, k) = FreeEntries(c, {k}) /\ k \in {k} /\ {k} \in SUBSET Keys
    BY <1>1 DEF FindEntry
  <2>2. Gone(FreeEntries(c, {k}), k)
    BY <2>1, FreeLoses
  <2> QED BY <2>1, <2>2 DEF Gone
<1>2. CASE k \notin Linked(c) \cap Due(c)
  BY <1>2 DEF FindEntry
<1> QED BY <1>1, <1>2

\* APPEND: the bound on the payload is that of the command's guard.
LEMMA AppendSound ==
    ASSUME NEW c, Sound(c), NEW k \in Keys, NEW p \in Nat, p <= LargestPayload,
           c.payload[k] + p <= MaxPayload,
           NEW d \in AppendValue(c, k, p)
    PROVE  Sound(d) /\ Protects(c, d, {k}, NewKey(k, p))
<1> DEFINE f == FindEntry(c, k)
           q == f.payload[k] + p
           r == ReplaceByString(f, k, q)
           g == NewKey(k, p)
<1>1. /\ Sound(f) /\ Keeps(c, f, {k}) /\ f.used_memory <= c.used_memory
      /\ f \in CoreType /\ c \in CoreType
      /\ f.used_memory \in Nat /\ c.used_memory \in Nat
  BY FindSound, SoundType
<1>2. g \in Nat /\ p <= g
  BY KeysAssumption, SizeAssumption DEF NewKey
<1>3. f.payload[k] \in Nat /\ q \in Nat
  BY <1>1 DEF CoreType
<1>4. Protects(c, f, {k}, 0)
  BY <1>1, KeepsProtects
<1> DEFINE x == 0
<1>5. x \in Nat /\ x = 0 /\ g + x = g /\ x + g = g /\ x <= g
  BY <1>2
<1>6. Protects(c, f, {k}, x)
  BY <1>4
<1> HIDE DEF x, g
<1>7. CASE k \notin Linked(f)
  <2>1. PICK e \in EntrySetEx(f, k, p, 0) : d = FindEntry(e, k)
    BY <1>7 DEF AppendValue
  <2> HIDE DEF f
  <2>2. Sound(e) /\ Protects(f, e, {k}, g)
    BY <1>1, EntrySetSound DEF g
  <2>3. Sound(d) /\ Keeps(e, d, {k}) /\ d.used_memory <= e.used_memory
    BY <2>1, <2>2, FindSound
  <2>4. e \in CoreType /\ d \in CoreType /\ e.used_memory \in Nat
    BY <2>2, <2>3, SoundType
  <2>5. Protects(e, d, {k}, x)
    BY <1>5, <2>3, <2>4, KeepsProtects
  <2>6. Protects(c, e, {k}, x + g)
    BY <1>1, <1>2, <1>5, <1>6, <2>2, <2>4, ProtectsChain
  <2>7. Protects(c, d, {k}, g + x)
    BY <1>1, <1>2, <1>5, <2>4, <2>5, <2>6, ProtectsChain
  <2> QED BY <1>5, <2>3, <2>7 DEF g
<1>8. CASE k \in Linked(f) /\ (f.type[k] # "string" \/ p = 0)
  <2>1. d = f
    BY <1>8 DEF AppendValue
  <2>2. Protects(c, f, {k}, g)
    <3>1. {k} \subseteq {k}
      OBVIOUS
    <3> HIDE DEF f
    <3> QED BY <1>1, <1>2, <1>5, <1>6, <3>1, ProtectsMore
  <2> QED BY <1>1, <2>1, <2>2 DEF g
<1>9. CASE k \in Linked(f) /\ ~ (f.type[k] # "string" \/ p = 0)
  <2>1. PICK s \in TouchGet(r, k) : \E e \in MaybeEvict(s) : d = WatchTouch(e, {k})
    BY <1>9 DEF AppendValue
  <2>2. PICK e \in MaybeEvict(s) : d = WatchTouch(e, {k})
    BY <2>1
  <2>3. f = c /\ k \in Linked(c)
    BY <1>1, <1>9, FoundSame
  <2>4. q <= MaxPayload /\ q <= LargestPayload
    <3>1. q <= MaxPayload
      BY <2>3
    <3> HIDE DEF q
    <3> QED BY <1>3, <3>1, LargestCovers
  <2>5. q = f.payload[k] + p /\ k \in Linked(f)
    BY <1>9
  <2> HIDE DEF f, q
  <2>6. Sound(r) /\ Keeps(f, r, {k}) /\ r.used_memory = f.used_memory - f.payload[k] + q
    BY <1>1, <1>3, <2>4, <2>5, ReplaceSound
  <2> HIDE DEF r
  <2>7. Sound(s) /\ Keeps(r, s, {}) /\ s.used_memory = r.used_memory
    BY <2>1, <2>6, TouchGetSound
  <2>8. Keeps(c, s, {k})
    BY <1>1, <2>6, <2>7 DEF Keeps
  <2>9. s.used_memory <= c.used_memory + g
    BY <1>1, <1>2, <1>3, <2>5, <2>6, <2>7
  <2>10. Sound(d) /\ Protects(c, d, {k}, g)
    BY <1>2, <2>2, <2>7, <2>8, <2>9, FinishSound
  <2> QED BY <2>10 DEF g
<1> QED BY <1>7, <1>8, <1>9

LEMMA IncrSound ==
    ASSUME NEW c, Sound(c), NEW k \in Keys, NEW p \in Nat, p <= LargestPayload,
           NEW d \in Incr(c, k, p)
    PROVE  Sound(d)
<1> DEFINE f == FindEntry(c, k)
           t == f.expire_at[k]
<1>1. Sound(f)
  BY FindSound
<1>2. t \in Nat
  BY <1>1 DEF Sound, Consistent, CoreType
<1>3. d \in EntrySetEx(f, k, p, 0) \/ d = f \/ d \in EntrySetEx(f, k, p, t)
  BY DEF Incr
<1> HIDE DEF f, t
<1> QED BY <1>1, <1>2, <1>3, EntrySetSound


LEMMA RenameSound ==
    ASSUME NEW c, Sound(c), NEW k \in Keys, NEW n \in Keys, NEW nx \in BOOLEAN,
           NEW d \in Rename(c, k, n, nx)
    PROVE  Sound(d)
<1> DEFINE f == FindEntry(c, k)
           g == FindEntry(f, n)
           h == IF n \in Linked(g) THEN FreeEntries(g, {n}) ELSE g
<1>1. Sound(f)
  BY FindSound
<1>2. Sound(g) /\ Keeps(f, g, {n})
  BY <1>1, FindSound
<1>3. CASE k \notin Linked(f) \/ k = n
  BY <1>1, <1>3 DEF Rename
<1>4. CASE ~ (k \notin Linked(f) \/ k = n) /\ n \in Linked(g) /\ nx
  BY <1>2, <1>4 DEF Rename
<1>5. CASE ~ (k \notin Linked(f) \/ k = n) /\ ~ (n \in Linked(g) /\ nx)
  <2>1. PICK s \in MaybeDemoteHot(MoveEntry(h, k, n)) :
           \E e \in MaybeEvict(s) : d = WatchTouch(e, {k, n})
    BY <1>5 DEF Rename
  <2>2. PICK e \in MaybeEvict(s) : d = WatchTouch(e, {k, n})
    BY <2>1
  <2>3. k \in Linked(g) /\ k # n
    BY <1>2, <1>5 DEF Keeps
  <2> HIDE DEF g
  <2>4. Sound(h) /\ k \in Linked(h) /\ n \in Keys \ Linked(h)
    <3>1. CASE n \in Linked(g)
      <4>1. {n} \in SUBSET Linked(g) /\ h = FreeEntries(g, {n})
        BY <3>1
      <4>2. Sound(h) /\ Linked(h) = Linked(g) \ {n}
        BY <1>2, <4>1, FreeSound
      <4> QED BY <2>3, <4>2
    <3>2. CASE n \notin Linked(g)
      BY <1>2, <2>3, <3>2
    <3> QED BY <3>1, <3>2
  <2> HIDE DEF h
  <2>5. Sound(MoveEntry(h, k, n))
    BY <2>4, MoveConsistent, MoveCovered, SoundType DEF Sound
  <2>6. Sound(s)
    BY <2>1, <2>5, DemoteSound
  <2>7. Sound(e)
    BY <2>2, <2>6, EvictSound
  <2>8. {k, n} \in SUBSET Keys
    OBVIOUS
  <2> QED BY <2>2, <2>7, <2>8, WatchTouchSound
<1> QED BY <1>3, <1>4, <1>5

LEMMA ExpireSound ==
    ASSUME NEW c, Sound(c), NEW k \in Keys, NEW t \in Nat
    PROVE  Sound(Expire(c, k, t))
<1> DEFINE f == FindEntry(c, k)
<1>1. Sound(f)
  BY FindSound
<1>2. CASE k \in Linked(f)
  <2>1. Expire(c, k, t) = WatchTouch(SetExpireAt(f, k, t), {k})
    BY <1>2 DEF Expire
  <2>2. Sound(SetExpireAt(f, k, t))
    BY <1>1, <1>2, SetExpireSound
  <2> HIDE DEF f
  <2> QED BY <2>1, <2>2, WatchTouchSound
<1>3. CASE k \notin Linked(f)
  BY <1>1, <1>3 DEF Expire
<1> QED BY <1>2, <1>3

LEMMA FlushSound ==
    ASSUME NEW c, Sound(c)
    PROVE  Sound(FlushDb(c))
<1> DEFINE d == FlushDb(c)
<1>1. Consistent(d) /\ d \in CoreType
  BY FlushConsistent DEF Sound, Consistent
<1>2. /\ d.hot = {} /\ d.cold = {} /\ d.payload = [k \in Keys |-> 0]
      /\ d.type_bytes = [t \in AllTypes |-> 0] /\ d.used_memory = 0
  BY DEF FlushDb, Sound, Consistent, CoreType
<1> HIDE DEF d
<1>3. Linked(d) = {} /\ \A k \in Keys : d.payload[k] = 0
  BY <1>2 DEF Linked
<1>4. \A t \in AllTypes : d.type_bytes[t] = 0
  BY <1>2
<1>5. Covered(d)
  BY <1>1, <1>2, <1>3, <1>4, BlankCovered
<1> QED BY <1>1, <1>5 DEF Sound, d

LEMMA EmptySound == Sound(EmptyCore)
<1> DEFINE d == EmptyCore
<1>1. Consistent(d) /\ d \in CoreType
  BY EmptyConsistent DEF Consistent
<1>2. /\ d.hot = {} /\ d.cold = {} /\ d.payload = [k \in Keys |-> 0]
      /\ d.type_bytes = [t \in AllTypes |-> 0] /\ d.used_memory = 0
  BY DEF EmptyCore
<1> HIDE DEF d
<1>3. Linked(d) = {} /\ \A k \in Keys : d.payload[k] = 0
  BY <1>2 DEF Linked
<1>4. \A t \in AllTypes : d.type_bytes[t] = 0
  BY <1>2
<1>5. Covered(d)
  BY <1>1, <1>2, <1>3, <1>4, BlankCovered
<1> QED BY <1>1, <1>5 DEF Sound, d

\* The entry an object command works on: the one it found, or a new, empty
\* object that eviction spared.
LEMMA CreateSound ==
    ASSUME NEW c, Sound(c), NEW k \in Keys, NEW ty \in AllTypes,
           NEW d \in GetOrCreate(c, k, ty)
    PROVE  /\ Sound(d)
           /\ \/ Protects(c, d, {k}, 0)
              \/ /\ Protects(c, d, {k}, NewKey(k, ObjBase))
                 /\ k \in Linked(d) => d.payload[k] = ObjBase
<1> DEFINE f == FindEntry(c, k)
           r == LinkNew(f, k, ty, ObjBase)
           g == NewKey(k, ObjBase)
<1>1. /\ Sound(f) /\ Keeps(c, f, {k}) /\ f.used_memory <= c.used_memory
      /\ f \in CoreType /\ c \in CoreType
      /\ f.used_memory \in Nat /\ c.used_memory \in Nat
  BY FindSound, SoundType
<1>2. g \in Nat /\ g = KeyLen[k] + ObjBase + Shell
  BY KeysAssumption, SizeAssumption DEF NewKey
<1>3. Protects(c, f, {k}, 0)
  BY <1>1, KeepsProtects
<1>4. CASE k \in Linked(f)
  BY <1>1, <1>3, <1>4 DEF GetOrCreate
<1>5. CASE k \notin Linked(f)
  <2>1. PICK e \in MaybeEvict(r) : d = FindEntry(e, k)
    BY <1>5 DEF GetOrCreate
  <2>2. k \in Keys \ Linked(f)
    BY <1>5
  <2> HIDE DEF f, g
  <2>3. /\ Sound(r) /\ k \in Linked(r) /\ Keeps(f, r, {k})
        /\ r.payload[k] = ObjBase
        /\ r.used_memory = f.used_memory + (KeyLen[k] + ObjBase + Shell)
    BY <1>1, <2>2, LargestCovers, LinkSound
  <2> HIDE DEF r
  <2>4. r.used_memory <= c.used_memory + g /\ Keeps(c, r, {k})
    BY <1>1, <1>2, <2>3 DEF Keeps
  <2>5. Sound(e) /\ Protects(c, e, {k}, g)
    BY <1>2, <2>1, <2>3, <2>4, FinishSound
  <2>6. Sound(d) /\ Keeps(e, d, {k}) /\ d.used_memory <= e.used_memory
    BY <2>1, <2>5, FindSound
  <2>7. e \in CoreType /\ d \in CoreType /\ e.used_memory \in Nat
    BY <2>5, <2>6, SoundType
  <2>8. Protects(c, d, {k}, g)
    <3> DEFINE x == 0
    <3>1. x \in Nat /\ g + x = g
      BY <1>2
    <3>2. Protects(e, d, {k}, x)
      BY <2>6, <2>7, KeepsProtects
    <3> HIDE DEF x
    <3>3. Protects(c, d, {k}, g + x)
      BY <1>1, <1>2, <2>5, <2>7, <3>1, <3>2, ProtectsChain
    <3> QED BY <3>1, <3>3
  <2>9. ASSUME k \in Linked(d) PROVE d.payload[k] = ObjBase
    <3>1. d = e /\ k \in Linked(e)
      BY <2>1, <2>7, <2>9, FoundSame
    <3>2. Loses(r, e)
      BY <2>1, <2>3, EvictLoses DEF Sound
    <3> QED BY <2>3, <3>1, <3>2 DEF Loses, Same, Gone
  <2> QED BY <2>6, <2>8, <2>9 DEF g
<1> QED BY <1>4, <1>5

LEMMA ObjectAddSound ==
    ASSUME NEW c, Sound(c), NEW k \in Keys, NEW ty \in AllTypes, NEW p \in Nat,
           ObjBase + p <= LargestPayload, NEW d \in ObjectAdd(c, k, ty, p)
    PROVE  Sound(d) /\ Protects(c, d, {k}, NewKey(k, ObjBase + p))
<1> DEFINE q == ObjBase + p
           g == NewKey(k, q)
           n == NewKey(k, ObjBase)
<1>1. /\ q \in Nat /\ g \in Nat /\ n \in Nat /\ p \in Nat /\ n + p = g /\ n <= g /\ q <= g
      /\ ObjBase \in Nat /\ q = ObjBase + p /\ q <= LargestPayload
  BY KeysAssumption, SizeAssumption DEF NewKey
<1>2. PICK h \in GetOrCreate(c, k, ty) :
         d \in IF k \in Linked(h) /\ h.type[k] = ty
               THEN {WatchTouch(e, {k}) : e \in MaybeEvict(ResizeObject(h, k, q))}
               ELSE {h}
  BY DEF ObjectAdd
<1>3. /\ Sound(h)
      /\ \/ Protects(c, h, {k}, 0)
         \/ Protects(c, h, {k}, n) /\ (k \in Linked(h) => h.payload[k] = ObjBase)
  BY CreateSound
<1>4. c \in CoreType /\ h \in CoreType /\ h.used_memory \in Nat
  BY <1>3, SoundType
<1> HIDE DEF q, g, n
<1>5. CASE ~ (k \in Linked(h) /\ h.type[k] = ty)
  <2>1. d = h
    BY <1>2, <1>5
  <2>2. \A x \in Nat : Protects(c, h, {k}, x) /\ x <= g => Protects(c, h, {k}, g)
    <3> TAKE x \in Nat
    <3> HAVE Protects(c, h, {k}, x) /\ x <= g
    <3>1. {k} \subseteq {k}
      OBVIOUS
    <3> QED BY <1>1, <1>4, <3>1, ProtectsMore
  <2>3. 0 <= g
    BY <1>1
  <2> QED BY <1>1, <1>3, <2>1, <2>2, <2>3 DEF g, q
<1>6. CASE k \in Linked(h) /\ h.type[k] = ty
  <2> DEFINE r == ResizeObject(h, k, q)
  <2>1. PICK e \in MaybeEvict(r) : d = WatchTouch(e, {k})
    BY <1>2, <1>6
  <2>2. Sound(r) /\ Keeps(h, r, {k}) /\ r.used_memory = h.used_memory - h.payload[k] + q
    BY <1>1, <1>3, <1>6, ResizeSound
  <2>3. h.payload[k] \in Nat
    BY <1>4 DEF CoreType
  <2> HIDE DEF r
  <2>4. CASE Protects(c, h, {k}, 0)
    <3>1. r.used_memory <= h.used_memory + g
      BY <1>1, <1>4, <2>2, <2>3
    <3>2. Sound(d) /\ Protects(h, d, {k}, g)
      BY <1>1, <1>3, <2>1, <2>2, <3>1, FinishSound
    <3> DEFINE x == 0
    <3>3. x \in Nat /\ x + g = g /\ Protects(c, h, {k}, x)
      BY <1>1, <2>4
    <3> HIDE DEF x
    <3>4. d \in CoreType
      BY <3>2, SoundType
    <3>5. Protects(c, d, {k}, x + g)
      BY <1>1, <1>4, <3>2, <3>3, <3>4, ProtectsChain
    <3> QED BY <3>2, <3>3, <3>5 DEF g, q
  <2>5. CASE Protects(c, h, {k}, n) /\ h.payload[k] = ObjBase
    <3>1. r.used_memory <= h.used_memory + p
      BY <1>1, <1>4, <2>2, <2>5
    <3>2. Sound(d) /\ Protects(h, d, {k}, p)
      BY <1>3, <2>1, <2>2, <3>1, FinishSound
    <3>3. d \in CoreType
      BY <3>2, SoundType
    <3>4. Protects(c, d, {k}, n + p)
      BY <1>1, <1>4, <2>5, <3>2, <3>3, ProtectsChain
    <3> QED BY <1>1, <3>2, <3>4 DEF g, q
  <2> QED BY <1>3, <1>6, <2>4, <2>5
<1> QED BY <1>5, <1>6

LEMMA ObjectRemoveSound ==
    ASSUME NEW c, Sound(c), NEW k \in Keys, NEW ty, NEW p \in Nat,
           ObjBase + p <= LargestPayload
    PROVE  /\ Sound(ObjectRemove(c, k, ty, p))
           /\ Sound(ListTrim(c, k, p))
           /\ c.used_memory <= MemBound => Sound(ListRem(c, k, p))
<1> DEFINE f == FindEntry(c, k)
           q == ObjBase + p
           r == ResizeObject(f, k, q)
           b == [f EXCEPT !.payload[k] = ObjBase]
<1>1. /\ Sound(f) /\ q \in Nat /\ q <= LargestPayload /\ ObjBase \in Nat
      /\ f \in CoreType /\ f.used_memory <= c.used_memory
      /\ f.used_memory \in Nat /\ c.used_memory \in Nat
  <2>1. Sound(f) /\ f.used_memory <= c.used_memory
    BY FindSound
  <2>2. q \in Nat /\ q <= LargestPayload /\ ObjBase \in Nat
    BY SizeAssumption
  <2> HIDE DEF f, q
  <2> QED BY <2>1, <2>2, SoundType
<1>2. ObjectRemove(c, k, ty, p) \in {f} \cup
          (IF k \in Linked(f) THEN {FreeEntries(r, {k}), WatchTouch(r, {k})} ELSE {})
  BY DEF ObjectRemove
<1>3. ListTrim(c, k, p) \in {f} \cup
          (IF k \in Linked(f) THEN {FreeEntries(f, {k}), WatchTouch(r, {k})} ELSE {})
  BY DEF ListTrim
<1>4. ListRem(c, k, p) \in {f} \cup
          (IF k \in Linked(f) /\ q <= f.payload[k]
           THEN {FreeEntries(b, {k}), WatchTouch(r, {k})} ELSE {})
  <2>1. f.payload[k] \in Nat
    BY <1>1 DEF CoreType
  <2>2. ~ (q > f.payload[k]) => q <= f.payload[k]
    BY <1>1, <2>1
  <2> HIDE DEF f, r, b
  <2> QED BY <2>2 DEF ListRem, f, r, b
<1>5. q <= f.payload[k] => ObjBase <= f.payload[k]
  <2>1. f.payload[k] \in Nat
    BY <1>1 DEF CoreType
  <2> QED BY <1>1, <2>1
<1> HIDE DEF f, q
<1>6. ASSUME k \in Linked(f)
      PROVE  /\ Sound(FreeEntries(f, {k})) /\ Sound(FreeEntries(r, {k}))
             /\ Sound(WatchTouch(r, {k}))
  <2>1. Sound(r) /\ Linked(r) = Linked(f)
    BY <1>1, <1>6, ResizeSound
  <2> HIDE DEF r
  <2>2. {k} \in SUBSET Linked(f) /\ {k} \in SUBSET Linked(r)
    BY <1>6, <2>1
  <2> QED BY <1>1, <2>1, <2>2, FreeSound, WatchTouchSound
<1>7. ASSUME k \in Linked(f), q <= f.payload[k], c.used_memory <= MemBound
      PROVE  Sound(FreeEntries(b, {k}))
  <2>1. f.used_memory <= MemBound
    BY <1>1, <1>7, KnobAssumption
  <2>2. Covered(b) /\ b \in CoreType /\ Linked(b) = Linked(f)
    BY <1>1, <1>5, <1>7, <2>1, LeakCovered DEF Sound
  <2>3. /\ b.hot = f.hot /\ b.cold = f.cold /\ b.pinned = f.pinned
        /\ b.expire_at = f.expire_at /\ b.type = f.type /\ b.layout = f.layout
        /\ b.nkeys = f.nkeys /\ b.hot_nkeys = f.hot_nkeys
        /\ b.cold_nkeys = f.cold_nkeys /\ b.keys_with_ttl = f.keys_with_ttl
        /\ b.pinned_keys = f.pinned_keys /\ b.type_nkeys = f.type_nkeys
    BY <1>1 DEF CoreType
  <2> HIDE DEF b
  <2>4. Sound(b)
    BY <1>1, <2>2, <2>3, SameCounters DEF Sound
  <2>5. {k} \in SUBSET Linked(b)
    BY <1>7, <2>2
  <2> QED BY <2>4, <2>5, FreeSound
<1> HIDE DEF r, b
<1> QED BY <1>1, <1>2, <1>3, <1>4, <1>6, <1>7

LEMMA PinSound ==
    ASSUME NEW c, Sound(c), NEW k \in Keys
    PROVE  Sound(Pin(c, k)) /\ Sound(Unpin(c, k))
<1> DEFINE f == FindEntry(c, k)
<1>1. Sound(f) /\ f \in CoreType
  BY FindSound, SoundType
<1>2. Consistent(Pin(c, k)) /\ Consistent(Unpin(c, k))
  BY PinConsistent DEF Sound
<1>3. ASSUME NEW d \in {Pin(c, k), Unpin(c, k)} PROVE Covered(d)
  <2>1. d \in {f, [f EXCEPT !.pinned = @ \cup {k}, !.pinned_keys = @ + 1],
               [f EXCEPT !.pinned = @ \ {k}, !.pinned_keys = Saturate(@ - 1)]}
    BY DEF Pin, Unpin
  <2> HIDE DEF f
  <2>2. /\ d.hot = f.hot /\ d.cold = f.cold /\ d.payload = f.payload
        /\ d.type = f.type /\ d.type_bytes = f.type_bytes
        /\ d.used_memory = f.used_memory
    BY <1>1, <2>1 DEF CoreType
  <2>3. Linked(d) = Linked(f)
    BY <2>2 DEF Linked
  <2> QED BY <1>1, <2>2, <2>3, SameCovered DEF Sound
<1> QED BY <1>2, <1>3 DEF Sound

\* What touches neither entries nor their bytes.
LEMMA SettingsSound ==
    ASSUME NEW c, Sound(c), NEW e \in {"noop", "sampled", "plugin"},
           NEW m \in Nat, NEW b \in BOOLEAN, NEW name \in {"flat", "hot_cold"}
    PROVE  /\ Sound([c EXCEPT !.evict = e])
           /\ Sound([c EXCEPT !.maxmemory = m])
           /\ Sound([c EXCEPT !.hot_promote_on_get = b])
           /\ Sound(MigrateTo(c, name))
<1>1. c \in CoreType
  BY SoundType
<1>2. ASSUME NEW d \in {[c EXCEPT !.evict = e], [c EXCEPT !.maxmemory = m],
                        [c EXCEPT !.hot_promote_on_get = b]}
      PROVE  Covered(d)
  <2>1. /\ d.hot = c.hot /\ d.cold = c.cold /\ d.payload = c.payload
        /\ d.type = c.type /\ d.type_bytes = c.type_bytes
        /\ d.used_memory = c.used_memory
    BY <1>1 DEF CoreType
  <2>2. Linked(d) = Linked(c)
    BY <2>1 DEF Linked
  <2> QED BY <2>1, <2>2, SameCovered DEF Sound
<1>3. Covered(MigrateTo(c, name))
  <2> DEFINE d == MigrateTo(c, name)
  <2>1. d = c \/ d = MigrateToHotCold(c) \/ d = MigrateToFlat(c)
    BY DEF MigrateTo
  <2> HIDE DEF d
  <2>2. CASE d = MigrateToHotCold(c)
    <3>1. /\ d.hot = c.hot /\ d.cold = c.cold /\ d.payload = c.payload
          /\ d.type = c.type /\ d.type_bytes = c.type_bytes
          /\ d.used_memory = c.used_memory
      BY <1>1, <2>2 DEF MigrateToHotCold, CoreType
    <3>2. Linked(d) = Linked(c)
      BY <3>1 DEF Linked
    <3>3. Covered(d)
      BY <3>1, <3>2, SameCovered DEF Sound
    <3> QED BY <3>3 DEF d
  <2>3. CASE d = MigrateToFlat(c)
    <3>1. /\ d.hot = Linked(c) /\ d.cold = {} /\ d.payload = c.payload
          /\ d.type = c.type /\ d.type_bytes = c.type_bytes
          /\ d.used_memory = c.used_memory
      BY <1>1, <2>3 DEF MigrateToFlat, CoreType
    <3>2. Linked(d) = Linked(c)
      BY <3>1 DEF Linked
    <3>3. Covered(d)
      BY <3>1, <3>2, SameCovered DEF Sound
    <3> QED BY <3>3 DEF d
  <2>4. CASE d = c
    BY <2>4 DEF Sound, d
  <2> QED BY <2>1, <2>2, <2>3, <2>4
<1>4. Consistent(MigrateTo(c, name))
  BY MigrateConsistent DEF Sound
<1>5. /\ Consistent([c EXCEPT !.evict = e]) /\ Consistent([c EXCEPT !.maxmemory = m])
      /\ Consistent([c EXCEPT !.hot_promote_on_get = b])
  BY SettingsConsistent DEF Sound
<1> QED BY <1>2, <1>3, <1>4, <1>5 DEF Sound

LEMMA FreshSound ==
    ASSUME Sound(core)
    PROVE  /\ Sound(Fresh) /\ Linked(Fresh) = Linked(core) /\ Due(Fresh) = Due(core)
           /\ Keeps(core, Fresh, {}) /\ Fresh.used_memory = core.used_memory
           /\ Fresh.payload = core.payload /\ Fresh.pinned = core.pinned
           /\ Fresh.evict = core.evict /\ Fresh.maxmemory = core.maxmemory
<1>1. core \in CoreType /\ Consistent(core)
  BY SoundType DEF Sound
<1>2. Consistent(Fresh) /\ Linked(Fresh) = Linked(core) /\ Due(Fresh) = Due(core)
  BY <1>1, FreshConsistent
<1>3. /\ Fresh.payload = core.payload /\ Fresh.type = core.type
      /\ Fresh.type_bytes = core.type_bytes /\ Fresh.used_memory = core.used_memory
      /\ Fresh.pinned = core.pinned /\ Fresh.expire_at = core.expire_at
      /\ Fresh.evict = core.evict /\ Fresh.maxmemory = core.maxmemory
  BY <1>1 DEF Fresh, CoreType
<1>4. Covered(Fresh)
  BY <1>2, <1>3, SameCovered DEF Sound
<1> QED BY <1>2, <1>3, <1>4 DEF Sound, Keeps

-----------------------------------------------------------------------------
(* The inductive invariant of the memory accounting.                       *)

MemInv == Sound(core) /\ now \in Nat

LEMMA StepMem ==
    ASSUME NEW S, MemInv, Step(S), \A d \in S : Sound(d)
    PROVE  MemInv'
<1>1. core' \in S /\ now' = now
  BY DEF Step
<1>2. Sound(core')
  BY <1>1
<1>3. Sound(core)'
  BY <1>2 DEF Sound, Covered, Consistent, CoreType, AllTypes, Linked, HasTtl, OfType,
              Ledger, Weight, EntryBytes, OfKind, SumOfTypes
<1> QED BY <1>1, <1>3 DEF MemInv

\* The payloads clients write.
LEMMA WrittenSizes ==
    ASSUME NEW p \in ValLens
    PROVE  p \in Nat /\ p <= LargestPayload /\ ObjBase + p <= LargestPayload
BY LargestCovers

\* Every action preserves the invariant.
LEMMA NextMem == MemInv /\ [Next]_vars => MemInv'
<1> SUFFICES ASSUME MemInv, [Next]_vars PROVE MemInv'
  OBVIOUS
<1>1. /\ Sound(core) /\ Sound(Fresh) /\ now \in Nat
      /\ Linked(Fresh) = Linked(core) /\ core \in CoreType
      /\ Fresh.used_memory = core.used_memory /\ Fresh.payload = core.payload
  BY FreshSound, SoundType DEF MemInv
<1>2. Types \subseteq AllTypes /\ Expiries \subseteq Nat
  BY <1>1, TypesAssumption, ExpiriesType
<1>3. ASSUME NEW k \in Keys, SetCmd(k) PROVE MemInv'
  <2> DEFINE f == FindEntry(Fresh, k)
  <2>1. PICK p \in ValLens, t \in Expiries : Step({f}) \/ Step(EntrySetEx(f, k, p, t))
    BY <1>3 DEF SetCmd
  <2>2. Sound(f) /\ t \in Nat
    BY <1>1, <1>2, FindSound
  <2> HIDE DEF f
  <2>3. \A d \in EntrySetEx(f, k, p, t) : Sound(d)
    BY <2>2, WrittenSizes, EntrySetSound
  <2> QED BY <2>1, <2>2, <2>3, StepMem
<1>4. ASSUME NEW k \in Keys, SetKeepTtl(k) PROVE MemInv'
  <2> DEFINE f == FindEntry(Fresh, k)
             t == f.expire_at[k]
  <2>1. PICK p \in ValLens : Step(EntrySetEx(f, k, p, t))
    BY <1>4 DEF SetKeepTtl
  <2>2. Sound(f)
    BY <1>1, FindSound
  <2>3. t \in Nat
    BY <2>2, SoundType DEF CoreType
  <2> HIDE DEF f, t
  <2>4. \A d \in EntrySetEx(f, k, p, t) : Sound(d)
    BY <2>2, <2>3, WrittenSizes, EntrySetSound
  <2> QED BY <2>1, <2>4, StepMem
<1>5. ASSUME NEW k \in Keys, GetSet(k) PROVE MemInv'
  <2> DEFINE After(g, p) == IF k \in Linked(g) /\ g.type[k] # "string" THEN {g}
                            ELSE EntrySetEx(g, k, p, 0)
             S(p) == UNION {After(g, p) : g \in GetPtr(Fresh, k)}
  <2>1. PICK p \in ValLens : Step(S(p))
    BY <1>5 DEF GetSet
  <2>2. ASSUME NEW d \in S(p) PROVE Sound(d)
    <3>1. PICK g \in GetPtr(Fresh, k) : d \in After(g, p)
      BY <2>2
    <3>2. Sound(g)
      BY <1>1, GetPtrSound
    <3>3. d = g \/ d \in EntrySetEx(g, k, p, 0)
      BY <3>1
    <3> QED BY <3>2, <3>3, WrittenSizes, EntrySetSound
  <2> HIDE DEF S
  <2> QED BY <2>1, <2>2, StepMem
<1>6. ASSUME NEW k \in Keys, Get(k) PROVE MemInv'
  BY <1>1, <1>6, GetPtrSound, StepMem DEF Get
<1>7. ASSUME NEW k \in Keys, Lookup(k) PROVE MemInv'
  BY <1>1, <1>7, FindSound, StepMem DEF Lookup
<1>8. ASSUME NEW k \in Keys, AppendCmd(k) PROVE MemInv'
  <2>1. PICK p \in ValLens : /\ Fresh.payload[k] + p <= MaxPayload
                             /\ Step(AppendValue(Fresh, k, p))
    BY <1>1, <1>8 DEF AppendCmd
  <2>2. \A d \in AppendValue(Fresh, k, p) : Sound(d)
    BY <1>1, <2>1, WrittenSizes, AppendSound
  <2> QED BY <2>1, <2>2, StepMem
<1>9. ASSUME NEW k \in Keys, IncrCmd(k) PROVE MemInv'
  <2>1. PICK p \in ValLens : Step(Incr(Fresh, k, p))
    BY <1>9 DEF IncrCmd
  <2>2. \A d \in Incr(Fresh, k, p) : Sound(d)
    BY <1>1, WrittenSizes, IncrSound
  <2> QED BY <2>1, <2>2, StepMem
<1>10. ASSUME NEW k \in Keys, ExpireCmd(k) PROVE MemInv'
  BY <1>1, <1>2, <1>10, ExpireSound, StepMem DEF ExpireCmd
<1>11. ASSUME NEW k \in Keys, ObjectAddCmd(k) PROVE MemInv'
  <2>1. PICK ty \in AllTypes, p \in ValLens : Step(ObjectAdd(Fresh, k, ty, p))
    BY <1>2, <1>11 DEF ObjectAddCmd
  <2>2. \A d \in ObjectAdd(Fresh, k, ty, p) : Sound(d)
    BY <1>1, WrittenSizes, ObjectAddSound
  <2> QED BY <2>1, <2>2, StepMem
<1>12. ASSUME NEW k \in Keys, ObjectRemoveCmd(k) PROVE MemInv'
  <2>1. PICK ty \in Types, p \in ValLens : Step({ObjectRemove(Fresh, k, ty, p)})
    BY <1>12 DEF ObjectRemoveCmd
  <2>2. Sound(ObjectRemove(Fresh, k, ty, p))
    BY <1>1, WrittenSizes, ObjectRemoveSound
  <2> QED BY <2>1, <2>2, StepMem
<1>13. ASSUME NEW k \in Keys, ListTrimCmd(k) PROVE MemInv'
  <2>1. PICK p \in ValLens : Step({ListTrim(Fresh, k, p)})
    BY <1>13 DEF ListTrimCmd
  <2>2. Sound(ListTrim(Fresh, k, p))
    BY <1>1, WrittenSizes, ObjectRemoveSound
  <2> QED BY <2>1, <2>2, StepMem
<1>14. ASSUME NEW k \in Keys, ListRemCmd(k) PROVE MemInv'
  <2>1. PICK p \in ValLens : Step({ListRem(Fresh, k, p)})
    BY <1>14 DEF ListRemCmd
  <2>2. Fresh.used_memory <= MemBound
    BY <1>1, <1>14 DEF ListRemCmd
  <2>3. Sound(ListRem(Fresh, k, p))
    BY <1>1, <2>2, WrittenSizes, ObjectRemoveSound
  <2> QED BY <2>1, <2>3, StepMem
<1>15. ASSUME NEW k \in Keys, PinCmd(k) \/ UnpinCmd(k) PROVE MemInv'
  BY <1>1, <1>15, PinSound, StepMem DEF PinCmd, UnpinCmd
<1>16. ASSUME NEW j \in Keys, NEW k \in Keys, MSet(j, k) PROVE MemInv'
  <2> DEFINE S(p, q) == UNION {EntrySetEx(d, k, q, 0) : d \in EntrySetEx(Fresh, j, p, 0)}
  <2>1. PICK p \in ValLens, q \in ValLens : Step(S(p, q))
    BY <1>16 DEF MSet
  <2>2. ASSUME NEW d \in S(p, q) PROVE Sound(d)
    <3>1. PICK g \in EntrySetEx(Fresh, j, p, 0) : d \in EntrySetEx(g, k, q, 0)
      BY <2>2
    <3>2. Sound(g)
      BY <1>1, WrittenSizes, EntrySetSound
    <3> QED BY <3>1, <3>2, WrittenSizes, EntrySetSound
  <2> HIDE DEF S
  <2> QED BY <2>1, <2>2, StepMem
<1>17. ASSUME NEW j \in Keys, NEW k \in Keys, MGet(j, k) PROVE MemInv'
  <2> DEFINE S == UNION {GetPtr(d, k) : d \in GetPtr(Fresh, j)}
  <2>1. ASSUME NEW d \in S PROVE Sound(d)
    <3>1. PICK g \in GetPtr(Fresh, j) : d \in GetPtr(g, k)
      BY <2>1
    <3> QED BY <1>1, <3>1, GetPtrSound
  <2>2. Step(S)
    BY <1>17 DEF MGet
  <2> HIDE DEF S
  <2> QED BY <2>1, <2>2, StepMem
<1>18. ASSUME NEW j \in Keys, NEW k \in Keys, Del(j, k) PROVE MemInv'
  BY <1>1, <1>18, DelSound, StepMem DEF Del
<1>19. ASSUME NEW j \in Keys, NEW k \in Keys, RenameCmd(j, k) PROVE MemInv'
  BY <1>1, <1>19, RenameSound, StepMem DEF RenameCmd
<1>20. ASSUME FlushDbCmd PROVE MemInv'
  BY <1>1, <1>20, FlushSound, StepMem DEF FlushDbCmd
<1>21. ASSUME LayoutCmd PROVE MemInv'
  <2>1. PICK name \in {"flat", "hot_cold"} : Step({MigrateTo(Fresh, name)})
    BY <1>21, KnobAssumption DEF LayoutCmd
  <2>2. Sound(MigrateTo(Fresh, name))
    BY <1>1, SettingsSound
  <2> QED BY <2>1, <2>2, StepMem
<1>22. ASSUME AdaptLayout PROVE MemInv'
  <2>1. PICK d \in {MigrateTo(Fresh, "hot_cold"), MigrateTo(Fresh, "flat"), Fresh} :
           Step({d})
    BY <1>22 DEF AdaptLayout
  <2>2. \A name \in {"flat", "hot_cold"} : Sound(MigrateTo(Fresh, name))
    BY <1>1, SettingsSound
  <2> QED BY <1>1, <2>1, <2>2, StepMem
<1>23. ASSUME EvictCmd PROVE MemInv'
  <2> DEFINE r(e) == [Fresh EXCEPT !.evict = e]
  <2>1. PICK e \in EvictNames : Step({r(e)}) \/ Step(MaybeEvict(r(e)))
    BY <1>23 DEF EvictCmd
  <2>2. e \in {"noop", "sampled", "plugin"}
    BY KnobAssumption
  <2>3. Sound(r(e))
    BY <1>1, <2>2, SettingsSound
  <2> HIDE DEF r
  <2>4. \A d \in MaybeEvict(r(e)) \cup {r(e)} : Sound(d)
    BY <2>3, EvictSound
  <2> QED BY <2>1, <2>4, StepMem
<1>24. ASSUME SetMaxmemory PROVE MemInv'
  <2> DEFINE r(m) == [Fresh EXCEPT !.maxmemory = m]
  <2>1. PICK m \in MaxMemories : Step(MaybeEvict(r(m)))
    BY <1>24 DEF SetMaxmemory
  <2>2. m \in Nat
    BY KnobAssumption
  <2>3. Sound(r(m))
    BY <1>1, <2>2, SettingsSound
  <2> HIDE DEF r
  <2>4. \A d \in MaybeEvict(r(m)) : Sound(d)
    BY <2>3, EvictSound
  <2> QED BY <2>1, <2>4, StepMem
<1>25. ASSUME SetPromoteOnGet PROVE MemInv'
  <2> DEFINE b == ~ Fresh.hot_promote_on_get
  <2>1. Step({[Fresh EXCEPT !.hot_promote_on_get = b]}) /\ b \in BOOLEAN
    BY <1>25 DEF SetPromoteOnGet
  <2> HIDE DEF b
  <2>2. Sound([Fresh EXCEPT !.hot_promote_on_get = b])
    BY <1>1, <2>1, SettingsSound
  <2> QED BY <2>1, <2>2, StepMem
<1>26. ASSUME NEW X \in SUBSET Keys, ActiveExpire(X) PROVE MemInv'
  <2>1. Sampled(core) \cap Due(core) \subseteq Linked(core)
    BY DEF Sampled, Linked
  <2>2. X \in SUBSET Linked(Fresh) /\ Step({FreeEntries(Fresh, X)})
    BY <1>1, <1>26, <2>1 DEF ActiveExpire
  <2>3. Sound(FreeEntries(Fresh, X))
    BY <1>1, <2>2, FreeSound
  <2> QED BY <2>2, <2>3, StepMem
<1>27. ASSUME ScanPurge PROVE MemInv'
  <2>1. PICK X \in SUBSET Linked(Fresh) : Step({FreeEntries(Fresh, X)})
    BY <1>1, <1>27 DEF ScanPurge
  <2>2. Sound(FreeEntries(Fresh, X))
    BY <1>1, <2>1, FreeSound
  <2> QED BY <2>1, <2>2, StepMem
<1>28. ASSUME Tick PROVE MemInv'
  <2>1. core' = Fresh /\ now' \in Nat
    BY <1>1, <1>28 DEF Tick
  <2>2. Sound(core')
    BY <1>1, <2>1
  <2>3. Sound(core)'
    BY <2>2 DEF Sound, Covered, Consistent, CoreType, AllTypes, Linked, HasTtl, OfType,
                Ledger, Weight, EntryBytes, OfKind, SumOfTypes
  <2> QED BY <2>1, <2>3 DEF MemInv
<1>29. ASSUME UNCHANGED vars PROVE MemInv'
  BY <1>29 DEF vars, MemInv, Sound, Covered, Consistent, CoreType, AllTypes, Linked,
               HasTtl, OfType, Ledger, Weight, EntryBytes, OfKind, SumOfTypes
<1> QED BY <1>3, <1>4, <1>5, <1>6, <1>7, <1>8, <1>9, <1>10, <1>11, <1>12, <1>13,
           <1>14, <1>15, <1>16, <1>17, <1>18, <1>19, <1>20, <1>21, <1>22, <1>23,
           <1>24, <1>25, <1>26, <1>27, <1>28, <1>29 DEF Next

LEMMA MemAlways == Spec => []MemInv
<1>1. Init => MemInv
  BY EmptySound DEF Init, MemInv
<1> QED BY <1>1, NextMem, PTL DEF Spec


\* Four types make up the sum over the types.
LEMMA TypesTotal ==
    ASSUME NEW w \in [AllTypes -> Nat]
    PROVE  Total(w, AllTypes) = SumOfTypes(w)
<1> DEFINE three == AllTypes \ {"string"}
           two == three \ {"hash"}
           one == two \ {"list"}
           none == one \ {"zset"}
<1>1. /\ "string" \in AllTypes /\ "hash" \in three /\ "list" \in two /\ "zset" \in one
      /\ none = {}
  BY DEF AllTypes
<1>2. \A t \in AllTypes : w[t] \in Nat
  OBVIOUS
<1>3. IsFiniteSet(AllTypes)
  <2>1. AllTypes = {"string"} \cup {"hash"} \cup {"list"} \cup {"zset"}
    BY DEF AllTypes
  <2> QED BY <2>1, FS_Singleton, FS_Union
<1>4. /\ three \in SUBSET AllTypes /\ two \in SUBSET AllTypes
      /\ one \in SUBSET AllTypes
  OBVIOUS
<1>5. IsFiniteSet(three) /\ IsFiniteSet(two) /\ IsFiniteSet(one)
  BY <1>3, <1>4, FS_Subset
<1> HIDE DEF three, two, one, none
<1>6. Total(w, AllTypes) = w["string"] + Total(w, three)
  BY <1>1, <1>2, <1>3, TotalPick DEF three
<1>7. Total(w, three) = w["hash"] + Total(w, two)
  BY <1>1, <1>2, <1>4, <1>5, TotalPick DEF two
<1>8. Total(w, two) = w["list"] + Total(w, one)
  BY <1>1, <1>2, <1>4, <1>5, TotalPick DEF one
<1>9. Total(w, one) = w["zset"] + Total(w, none)
  BY <1>1, <1>2, <1>4, <1>5, TotalPick DEF none
<1>10. Total(w, none) = 0
  <2>1. none = {} /\ IsFiniteSet(none) /\ \A x \in none : w[x] = 0
    BY <1>1, FS_EmptySet
  <2> QED BY <2>1, TotalZero
<1>11. /\ w["string"] \in Nat /\ w["hash"] \in Nat
       /\ w["list"] \in Nat /\ w["zset"] \in Nat
  BY <1>2 DEF AllTypes
<1> QED BY <1>6, <1>7, <1>8, <1>9, <1>10, <1>11 DEF SumOfTypes

\* used_memory covers the live entries and is what the four types add up to,
\* for any keys, payloads and word size with RoomAssumption: whatever is
\* evicted, resized, retyped, renamed or freed, no subtraction is cut off at
\* zero and no addition wraps around.
THEOREM MemoryAccounted == Spec => []MemoryCovered
<1>1. ASSUME MemInv PROVE MemoryCovered
  <2> DEFINE e == Weight(core)
             L == Linked(core)
             tb == core.type_bytes
             m == core.used_memory
  <2>1. /\ core \in CoreType /\ Ledger(e, core.type, tb, m)
        /\ e \in [Keys -> Nat] /\ core.type \in [Keys -> AllTypes]
        /\ tb \in [AllTypes -> Nat]
    BY <1>1, SoundType, WeightType DEF MemInv, Sound, Covered
  <2>2. L \in SUBSET Keys /\ IsFiniteSet(Keys)
    BY <2>1, KeysAssumption DEF CoreType, Linked
  <2>3. Bytes(core, L) = Total(e, L)
    <3>1. \A k \in L : e[k] = EntryBytes(core, k)
      BY <2>2 DEF Weight
    <3> HIDE DEF L, e
    <3> QED BY <2>2, <3>1, BytesTotal
  <2>4. Total(e, Keys) = Total(e, L)
    <3>1. \A k \in Keys : e[k] \in Nat /\ e[k] = IF k \in L THEN e[k] ELSE 0
      BY <2>1 DEF Weight
    <3> HIDE DEF L, e
    <3> QED BY <2>2, <3>1, TotalPart
  <2> HIDE DEF e, tb, m, L
  <2>5. Total(e, Keys) <= m /\ m = SumOfTypes(tb)
    BY <2>1, LedgerCovers DEF Ledger
  <2>6. Total(tb, AllTypes) = SumOfTypes(tb)
    BY <2>1, TypesTotal
  <2>7. MapThenSumSet(LAMBDA t : core.type_bytes[t], AllTypes) = Total(tb, AllTypes)
    BY DEF Total, tb
  <2> QED BY <2>3, <2>4, <2>5, <2>6, <2>7 DEF MemoryCovered, L, m
<1> QED BY <1>1, MemAlways, PTL

\* What a write of one of the three kinds may take away from other keys.
LEMMA WriteProtects ==
    ASSUME MemInv, NEW j \in Keys, SetCmd(j) \/ AppendCmd(j) \/ ObjectAddCmd(j)
    PROVE  \E p \in ValLens : Protects(core, core', {j}, NewKey(j, ObjBase + p))
<1>1. /\ Sound(core) /\ Sound(Fresh) /\ core \in CoreType /\ Fresh \in CoreType
      /\ Keeps(core, Fresh, {}) /\ Fresh.used_memory = core.used_memory
      /\ Fresh.payload = core.payload /\ core.used_memory \in Nat /\ now \in Nat
  BY FreshSound, SoundType DEF MemInv
<1> DEFINE x == 0
<1>2. x \in Nat /\ Protects(core, Fresh, {j}, x)
  BY <1>1 DEF Keeps, Protects
<1>3. \A p \in ValLens : /\ NewKey(j, ObjBase + p) \in Nat /\ NewKey(j, p) \in Nat
                         /\ NewKey(j, p) <= NewKey(j, ObjBase + p)
                         /\ x <= NewKey(j, ObjBase + p)
                         /\ \A g \in Nat : x + g = g
  BY KeysAssumption, SizeAssumption DEF NewKey
<1> HIDE DEF x
<1>4. ASSUME NEW p \in ValLens, NEW c \in CoreType, NEW d \in CoreType,
             Protects(core, c, {j}, x), NEW g \in Nat, g <= NewKey(j, ObjBase + p),
             Protects(c, d, {j}, g)
      PROVE  Protects(core, d, {j}, NewKey(j, ObjBase + p))
  <2>1. Protects(core, d, {j}, x + g)
    BY <1>1, <1>2, <1>4, ProtectsChain
  <2>2. {j} \subseteq {j} /\ x + g = g /\ NewKey(j, ObjBase + p) \in Nat
    BY <1>3
  <2> QED BY <1>1, <1>4, <2>1, <2>2, ProtectsMore
<1>5. CASE SetCmd(j)
  <2> DEFINE f == FindEntry(Fresh, j)
  <2>1. PICK p \in ValLens, t \in Expiries : core' = f \/ core' \in EntrySetEx(f, j, p, t)
    BY <1>5 DEF SetCmd, Step
  <2>2. /\ Sound(f) /\ Keeps(Fresh, f, {j}) /\ f.used_memory <= Fresh.used_memory
        /\ f \in CoreType /\ f.used_memory \in Nat
    BY <1>1, FindSound, SoundType
  <2>3. t \in Nat /\ Expiries \subseteq Nat
    BY <1>1, ExpiriesType
  <2> HIDE DEF f
  <2>4. Protects(core, f, {j}, x)
    BY <1>1, <2>2 DEF Keeps, Protects, x
  <2>5. CASE core' = f
    <3>1. {j} \subseteq {j}
      OBVIOUS
    <3>2. Protects(core, f, {j}, NewKey(j, ObjBase + p))
      BY <1>1, <1>2, <1>3, <2>2, <2>4, <3>1, ProtectsMore
    <3> QED BY <2>5, <3>2
  <2>6. CASE core' \in EntrySetEx(f, j, p, t)
    <3> DEFINE d == core'
    <3>1. d \in EntrySetEx(f, j, p, t)
      BY <2>6
    <3> HIDE DEF d
    <3>2. Sound(d) /\ Protects(f, d, {j}, NewKey(j, p)) /\ d \in CoreType
      BY <2>2, <2>3, <3>1, WrittenSizes, EntrySetSound, SoundType
    <3>3. Protects(core, d, {j}, NewKey(j, ObjBase + p))
      BY <1>3, <1>4, <2>2, <2>4, <3>2
    <3> QED BY <3>3 DEF d
  <2> QED BY <2>1, <2>5, <2>6
<1>6. CASE AppendCmd(j)
  <2> DEFINE d == core'
  <2>1. PICK p \in ValLens : /\ Fresh.payload[j] + p <= MaxPayload
                             /\ d \in AppendValue(Fresh, j, p)
    BY <1>1, <1>6 DEF AppendCmd, Step
  <2> HIDE DEF d
  <2>2. Sound(d) /\ Protects(Fresh, d, {j}, NewKey(j, p)) /\ d \in CoreType
    BY <1>1, <2>1, WrittenSizes, AppendSound, SoundType
  <2>3. Protects(core, d, {j}, NewKey(j, ObjBase + p))
    BY <1>1, <1>2, <1>3, <1>4, <2>2
  <2> QED BY <2>3 DEF d
<1>7. CASE ObjectAddCmd(j)
  <2> DEFINE d == core'
  <2>1. PICK ty \in AllTypes, p \in ValLens : d \in ObjectAdd(Fresh, j, ty, p)
    BY <1>7, TypesAssumption DEF ObjectAddCmd, Step
  <2> HIDE DEF d
  <2>2. Sound(d) /\ Protects(Fresh, d, {j}, NewKey(j, ObjBase + p)) /\ d \in CoreType
    BY <1>1, <2>1, WrittenSizes, ObjectAddSound, SoundType
  <2>3. NewKey(j, ObjBase + p) \in Nat /\ NewKey(j, ObjBase + p) <= NewKey(j, ObjBase + p)
    BY <1>3
  <2>4. Protects(core, d, {j}, NewKey(j, ObjBase + p))
    BY <1>1, <1>2, <1>4, <2>2, <2>3
  <2> QED BY <2>4 DEF d
<1> QED BY <1>5, <1>6, <1>7

OthersSpared ==
    \A k \in Linked(core) \ (Due(core) \cup Linked(core')) :
       \A j \in Keys \ {k} :
          \/ RoomFor(j)
          \/ k \in core.pinned /\ core.evict # "plugin"
          => ~ (SetCmd(j) \/ AppendCmd(j) \/ ObjectAddCmd(j))

\* SET, APPEND and the commands that add to an object take no key of somebody
\* else that is not due if what they write fits, and never a pinned one while
\* a built-in kernel evicts: for every number of keys, every limit and every
\* choice the sampling makes.
THEOREM EvictionSpared == Spec => EvictionSpares
<1>1. ASSUME MemInv, [Next]_vars PROVE OthersSpared
  <2> SUFFICES ASSUME NEW k \in Linked(core) \ (Due(core) \cup Linked(core')),
                      NEW j \in Keys \ {k},
                      RoomFor(j) \/ (k \in core.pinned /\ core.evict # "plugin"),
                      SetCmd(j) \/ AppendCmd(j) \/ ObjectAddCmd(j)
               PROVE  FALSE
    BY DEF OthersSpared
  <2>1. PICK p \in ValLens : Protects(core, core', {j}, NewKey(j, ObjBase + p))
    BY <1>1, WriteProtects
  <2>2. k \in Linked(core) \ ({j} \cup Due(core)) /\ k \notin Linked(core')
    OBVIOUS
  <2>3. CASE k \in core.pinned /\ core.evict # "plugin"
    BY <2>1, <2>2, <2>3 DEF Protects
  <2>4. CASE RoomFor(j)
    <3>1. Max(ValLens) \in Nat /\ p \in Nat /\ p <= Max(ValLens)
      BY SizeAssumption, RoomAssumption, MaxOfFinite
    <3> DEFINE M == Max(ValLens)
    <3> HIDE DEF M
    <3>2. M \in Nat /\ p \in Nat /\ p <= M
      BY <3>1 DEF M
    <3>3. core.used_memory \in Nat /\ core.maxmemory \in Nat
      BY <1>1, SoundType DEF MemInv, CoreType
    <3>4. core.maxmemory = 0
          \/ core.used_memory + KeyLen[j] + Shell + ObjBase + M <= core.maxmemory
      BY <2>4 DEF RoomFor, M
    <3>5. KeyLen[j] \in Nat /\ Shell \in Nat /\ ObjBase \in Nat
      BY KeysAssumption, SizeAssumption
    <3>6. Affords(core, NewKey(j, ObjBase + p))
      BY <3>2, <3>3, <3>4, <3>5 DEF Affords, NewKey
    <3> QED BY <2>1, <2>2, <3>6 DEF Protects
  <2> QED BY <2>3, <2>4
<1>2. MemInv /\ [Next]_vars => [OthersSpared]_vars
  BY <1>1
<1>3. Spec => [][OthersSpared]_vars
  BY <1>2, MemAlways, PTL DEF Spec
<1> QED BY <1>3 DEF EvictionSpares, OthersSpared
=============================================================================
