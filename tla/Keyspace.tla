------------------------------ MODULE Keyspace ------------------------------
(***************************************************************************)
(* The dictionary of the data plane (native/src/ar_core.c, ar_types.c):    *)
(* entries linked in a hot (or flat) table and a cold table, their TTLs,   *)
(* pins and payloads, and the counters the server keeps beside them.       *)
(*                                                                         *)
(* The server is single threaded: every command, and every background      *)
(* duty of the event loop, runs to completion before the next one.  Each   *)
(* action below is one of them.  The nondeterminism inside a command is    *)
(* the random bucket sampling of eviction, demotion and active expiry.     *)
(*                                                                         *)
(* `core' is the ArCore record.  Operators that take a record c and return *)
(* a record, or the set of records the code may produce, stand for the     *)
(* C functions named in their comments; an action composes them.           *)
(*                                                                         *)
(* Abstracted: a value is its payload size; hash buckets are not modelled, *)
(* last_access and lfu_freq neither: with random sampling any unpinned key *)
(* can be the only sample, so any of them can be the victim.               *)
(***************************************************************************)
EXTENDS Integers, FiniteSets, FiniteSetsExt

CONSTANTS
    Keys,         \* key names
    KeyLen,       \* klen of each key
    Shell,        \* sizeof(ArEntry)
    ObjBase,      \* payload of an empty hash, list or zset
    Types,        \* the value types in use, "string" among them
    ValLens,      \* payload sizes clients write
    MaxPayload,   \* bound: no APPEND beyond this payload
    Durations,    \* relative TTLs, in ms
    Deadlines,    \* absolute expiry times given by EXPIREAT, SET PXAT
    MaxNow,       \* bound: last instant of the clock
    MaxMemories,  \* values of maxmemory (0 = no limit)
    EvictNames,   \* eviction kernels: "noop", "sampled", "plugin"
    Layouts,      \* layouts LAYOUT may request
    HotPct,       \* hot_soft_cap_pct
    HotMin,       \* hot_soft_cap_min
    AdaptHot,     \* adapt_layout: nkeys threshold towards hot_cold (500)
    AdaptFlat,    \* adapt_layout: nkeys threshold towards flat (64)
    Word,         \* 2^w for the width of size_t
    MemBound,     \* bound: no LREM once used_memory exceeds this
    PinBound      \* bound: no PIN once pinned_keys reaches this

AllTypes == {"string", "hash", "list", "zset"}

ASSUME KeysAssumption == IsFiniteSet(Keys) /\ KeyLen \in [Keys -> Nat]
ASSUME SizeAssumption ==
    /\ Shell \in Nat /\ ObjBase \in Nat /\ ValLens \subseteq Nat
    /\ Word \in Nat \ {0}
ASSUME TypesAssumption == Types \subseteq AllTypes
ASSUME TimeAssumption ==
    /\ MaxNow \in Nat /\ Durations \subseteq Nat \ {0}
    /\ Deadlines \subseteq Nat \ {0}
ASSUME KnobAssumption ==
    /\ MaxMemories \subseteq Nat /\ HotPct \in Nat /\ HotMin \in Nat
    /\ EvictNames \subseteq {"noop", "sampled", "plugin"}
    /\ Layouts \subseteq {"flat", "hot_cold"}
    /\ MaxPayload \in Nat /\ MemBound \in Nat /\ PinBound \in Nat

\* No payload is larger, and no set of keys takes more memory: what is linked,
\* and what LREM has left behind, fit in a size_t.
LargestPayload == ObjBase + Max(ValLens \cup {MaxPayload})

Capacity == MapThenSumSet(LAMBDA k : KeyLen[k] + LargestPayload + Shell, Keys)

ASSUME RoomAssumption == IsFiniteSet(ValLens) /\ Capacity + MemBound < Word

VARIABLES core, now

vars == <<core, now>>

CoreType ==
    [hot : SUBSET Keys, cold : SUBSET Keys, pinned : SUBSET Keys,
     payload : [Keys -> Nat], expire_at : [Keys -> Nat],
     type : [Keys -> AllTypes],
     nkeys : Nat, hot_nkeys : Nat, cold_nkeys : Nat,
     keys_with_ttl : Nat, expire_at_sum : Nat, pinned_keys : Nat,
     used_memory : Nat, type_nkeys : [AllTypes -> Nat],
     type_bytes : [AllTypes -> Nat],
     layout : {"flat", "hot_cold"}, evict : {"noop", "sampled", "plugin"},
     maxmemory : Nat, hot_promote_on_get : BOOLEAN,
     touched : SUBSET Keys]

TypeOK == core \in CoreType /\ now \in Nat

EmptyCore ==
    [hot |-> {}, cold |-> {}, pinned |-> {},
     payload |-> [k \in Keys |-> 0], expire_at |-> [k \in Keys |-> 0],
     type |-> [k \in Keys |-> "string"],
     nkeys |-> 0, hot_nkeys |-> 0, cold_nkeys |-> 0,
     keys_with_ttl |-> 0, expire_at_sum |-> 0, pinned_keys |-> 0,
     used_memory |-> 0, type_nkeys |-> [t \in AllTypes |-> 0],
     type_bytes |-> [t \in AllTypes |-> 0],
     layout |-> "flat", evict |-> "noop",
     maxmemory |-> 0, hot_promote_on_get |-> TRUE,
     touched |-> {}]

-----------------------------------------------------------------------------
(* Reading the record.                                                     *)

Linked(c) == c.hot \cup c.cold

HasTtl(c) == {k \in Keys : c.expire_at[k] # 0}

Due(c) == {k \in HasTtl(c) : now >= c.expire_at[k]}

EntryBytes(c, k) == KeyLen[k] + c.payload[k] + Shell

\* Bytes of the entries of S, as ar_entry_free_ex computes them.
Bytes(c, S) == MapThenSumSet(LAMBDA k : EntryBytes(c, k), S)

TtlSum(c, S) == MapThenSumSet(LAMBDA k : c.expire_at[k], S)

\* An unsigned counter decremented under a guard: never below zero.
Saturate(n) == IF n \in Nat THEN n ELSE 0

-----------------------------------------------------------------------------
(* Single changes of the record.                                           *)

\* ar_watch_touch: every connection watching a key of K becomes dirty.
WatchTouch(c, K) == [c EXCEPT !.touched = @ \cup K]

ClearExpire(c, k) ==
    IF c.expire_at[k] = 0 THEN c
    ELSE [c EXCEPT !.keys_with_ttl = Saturate(@ - 1),
                   !.expire_at_sum = Saturate(@ - c.expire_at[k]),
                   !.expire_at[k] = 0]

\* Mutant: a key that gets a deadline is not counted.
SetExpireAt_Uncounted(c, k, t) ==
    LET d == ClearExpire(c, k)
    IN  IF t = 0 THEN d
        ELSE [d EXCEPT !.expire_at[k] = t, !.expire_at_sum = @ + t]

SetExpireAt(c, k, t) ==
    LET d == ClearExpire(c, k)
    IN  IF t = 0 THEN d
        ELSE [d EXCEPT !.expire_at[k] = t,
                       !.keys_with_ttl = @ + 1,
                       !.expire_at_sum = @ + t]

\* Mutant: tier counters drop in every layout, without a floor.
DiscountKeys_Untiered(c, F) ==
    [c EXCEPT
       !.keys_with_ttl = Saturate(@ - Cardinality(F \cap HasTtl(c))),
       !.pinned_keys = Saturate(@ - Cardinality(F \cap c.pinned)),
       !.hot_nkeys = @ - Cardinality(F \cap c.hot),
       !.cold_nkeys = @ - Cardinality(F \cap c.cold),
       !.nkeys = Saturate(@ - Cardinality(F))]

\* Mutant: keys_with_ttl is not lowered when a key with a deadline is freed.
DiscountKeys_ForgetsTtl(c, F) ==
    LET tiered == c.layout = "hot_cold"
    IN  [c EXCEPT
          !.pinned_keys = Saturate(@ - Cardinality(F \cap c.pinned)),
          !.hot_nkeys =
              IF tiered THEN Saturate(@ - Cardinality(F \cap c.hot)) ELSE @,
          !.cold_nkeys =
              IF tiered THEN Saturate(@ - Cardinality(F \cap c.cold)) ELSE @,
          !.nkeys = Saturate(@ - Cardinality(F))]

\* The counters of ar_entry_free_ex, each floored at zero on its own.
DiscountKeys(c, F) ==
    LET tiered == c.layout = "hot_cold"
    IN  [c EXCEPT
          !.keys_with_ttl = Saturate(@ - Cardinality(F \cap HasTtl(c))),
          !.pinned_keys = Saturate(@ - Cardinality(F \cap c.pinned)),
          !.hot_nkeys =
              IF tiered THEN Saturate(@ - Cardinality(F \cap c.hot)) ELSE @,
          !.cold_nkeys =
              IF tiered THEN Saturate(@ - Cardinality(F \cap c.cold)) ELSE @,
          !.nkeys = Saturate(@ - Cardinality(F))]

DiscountBytes(c, F) ==
    [c EXCEPT
       !.expire_at_sum = Saturate(@ - TtlSum(c, F)),
       !.type_nkeys = [t \in AllTypes |->
           Saturate(c.type_nkeys[t] - Cardinality({k \in F : c.type[k] = t}))],
       !.type_bytes = [t \in AllTypes |->
           Saturate(c.type_bytes[t] - Bytes(c, {k \in F : c.type[k] = t}))],
       !.used_memory = Saturate(@ - Bytes(c, F))]

\* Freed entries leave their tables with all they held.
Unlink(c, F) ==
    LET Without(f, blank) == [k \in Keys |-> IF k \in F THEN blank ELSE f[k]]
    IN  [c EXCEPT !.hot = @ \ F, !.cold = @ \ F, !.pinned = @ \ F,
                  !.payload = Without(@, 0), !.expire_at = Without(@, 0),
                  !.type = Without(@, "string")]

\* Mutant: the watchers of a freed key are not told.
FreeEntries_Silently(c, F) ==
    Unlink(DiscountBytes(DiscountKeys(c, F), F), F)

\* ar_entry_free_ex on each entry of F, in any order.
FreeEntries(c, F) ==
    WatchTouch(Unlink(DiscountBytes(DiscountKeys(c, F), F), F), F)

\* ar_find_entry_ex: a lookup frees the entry it meets when its TTL is due.
FindEntry(c, k) ==
    IF k \in Linked(c) \cap Due(c) THEN FreeEntries(c, {k}) ELSE c

\* A new entry is linked in the hot/flat table, unpinned and without TTL.
LinkNew(c, k, ty, p) ==
    LET tot == KeyLen[k] + p + Shell
    IN  [c EXCEPT !.hot = @ \cup {k},
                  !.payload[k] = p,
                  !.type[k] = ty,
                  !.nkeys = @ + 1,
                  !.hot_nkeys = IF c.layout = "hot_cold" THEN @ + 1 ELSE @,
                  !.used_memory = (@ + tot) % Word,
                  !.type_nkeys[ty] = @ + 1,
                  !.type_bytes[ty] = @ + tot]

\* A write replaces the value of an existing entry, of any type, by a
\* string.  The object branch subtracts with a floor, the string branch
\* without one.
ReplaceByString(c, k, p) ==
    LET old == c.payload[k]
        ty  == c.type[k]
        retyped ==
            [c EXCEPT !.type_nkeys = [c.type_nkeys EXCEPT
                          ![ty] = Saturate(@ - 1), !["string"] = @ + 1],
                      !.type_bytes = [c.type_bytes EXCEPT
                          ![ty] = Saturate(@ - EntryBytes(c, k)),
                          !["string"] = @ + KeyLen[k] + Shell + p],
                      !.used_memory = (Saturate(@ - old) + p) % Word,
                      !.type[k] = "string"]
        resized ==
            [c EXCEPT !.used_memory = (((@ - old) % Word) + p) % Word,
                      !.type_bytes["string"] = Saturate(@ - old) + p]
    IN  [(IF ty = "string" THEN resized ELSE retyped) EXCEPT !.payload[k] = p]

\* ar_mem_add / ar_mem_sub and the type's share, after an object changed.
ResizeObject(c, k, p) ==
    LET old == c.payload[k]
        ty  == c.type[k]
    IN  [c EXCEPT !.payload[k] = p,
                  !.used_memory =
                      IF p >= old THEN (@ + (p - old)) % Word
                                  ELSE Saturate(@ - (old - p)),
                  !.type_bytes[ty] =
                      IF p >= old THEN @ + (p - old)
                                  ELSE Saturate(@ - (old - p))]

-----------------------------------------------------------------------------
(* Tiers: promotion, demotion, migration.                                  *)

HotSoftCap(c) == Max({(c.nkeys * HotPct) \div 100, HotMin})

\* Mutant: the demoted entry is not unlinked from the hot table.
Demote_KeepsLink(c, D) ==
    [c EXCEPT !.cold = @ \cup D,
              !.hot_nkeys = Saturate(@ - Cardinality(D)),
              !.cold_nkeys = @ + Cardinality(D)]

\* demote_one_hot_to_cold on each entry of D.
Demote(c, D) ==
    [c EXCEPT !.hot = @ \ D, !.cold = @ \cup D,
              !.hot_nkeys = Saturate(@ - Cardinality(D)),
              !.cold_nkeys = @ + Cardinality(D)]

\* The loop demotes while the tier is over its cap, and gives up when a
\* sample of random buckets is empty: any number up to the excess.
MaybeDemoteHot(c) ==
    IF c.layout = "hot_cold" /\ c.hot_nkeys > HotSoftCap(c)
    THEN {Demote(c, D) : D \in {E \in SUBSET c.hot :
                Cardinality(E) <= c.hot_nkeys - HotSoftCap(c)}}
    ELSE {c}

TouchGet(c, k) ==
    IF c.layout = "hot_cold" /\ k \in c.cold \ c.hot /\ c.hot_promote_on_get
    THEN MaybeDemoteHot([c EXCEPT !.cold = @ \ {k}, !.hot = @ \cup {k},
                                  !.cold_nkeys = Saturate(@ - 1),
                                  !.hot_nkeys = @ + 1])
    ELSE {c}

MigrateToHotCold(c) ==
    [c EXCEPT !.layout = "hot_cold", !.cold_nkeys = 0, !.hot_nkeys = c.nkeys]

MigrateToFlat(c) ==
    [c EXCEPT !.layout = "flat", !.hot = Linked(c), !.cold = {},
              !.hot_nkeys = 0, !.cold_nkeys = 0]

MigrateTo(c, name) ==
    IF c.layout = name THEN c
    ELSE IF name = "hot_cold" THEN MigrateToHotCold(c) ELSE MigrateToFlat(c)

-----------------------------------------------------------------------------
(* Eviction.                                                               *)

OverMaxmemory(c) == c.maxmemory > 0 /\ c.used_memory > c.maxmemory

\* Where sampling looks: the cold table only while cold_nkeys says it is not
\* empty.
Sampled(c) == c.hot \cup IF c.cold_nkeys > 0 THEN c.cold ELSE {}

\* Mutant: sampling does not look at the pin.
Victims_PinnedToo(c) ==
    IF c.evict = "plugin" THEN Sampled(c) ELSE Sampled(c) \ Due(c)

\* What one evict_one may take: the sampling kernels free due entries on the
\* way and skip pinned ones; the plugin helper takes whatever it meets.
Victims(c) ==
    IF c.evict = "plugin" THEN Sampled(c) ELSE Sampled(c) \ (c.pinned \cup Due(c))

Purgeable(c) == IF c.evict = "plugin" THEN {} ELSE Sampled(c) \cap Due(c)

\* maybe_evict: free victims while over the limit, giving up when sampling
\* finds nobody.  E is evicted; X is purged while sampling.  The last victim
\* was taken because the limit was still exceeded without it.
MaybeEvict(c) ==
    IF c.evict = "noop" \/ ~ OverMaxmemory(c) THEN {c}
    ELSE UNION {{FreeEntries(c, E \cup X) : X \in SUBSET Purgeable(c)} :
                   E \in {V \in SUBSET Victims(c) :
                            V = {} \/ \E last \in V :
                               OverMaxmemory(FreeEntries(c, V \ {last}))}}

-----------------------------------------------------------------------------
(* The functions the commands call.                                        *)

\* ar_entry_set_ex: t is the absolute expiry, 0 for none.
EntrySetEx(c, k, p, t) ==
    LET f == FindEntry(c, k)
        staged ==
            IF k \in Linked(f)
            THEN TouchGet(SetExpireAt(ReplaceByString(f, k, p), k, t), k)
            ELSE MaybeDemoteHot(SetExpireAt(LinkNew(f, k, "string", p), k, t))
    IN  {WatchTouch(d, {k}) : d \in UNION {MaybeEvict(s) : s \in staged}}

\* get_ptr and ar_get_bin: only a string is touched and promoted.
GetPtr(c, k) ==
    LET f == FindEntry(c, k)
    IN  IF k \in Linked(f) /\ f.type[k] = "string" THEN TouchGet(f, k) ELSE {f}

DelBin(c, k) ==
    LET f == FindEntry(c, k)
    IN  IF k \in Linked(f) THEN FreeEntries(f, {k}) ELSE f

\* ar_append keeps the TTL; appending nothing to a string changes nothing.
AppendValue(c, k, p) ==
    LET f == FindEntry(c, k)
    IN  IF k \notin Linked(f)
        THEN {FindEntry(d, k) : d \in EntrySetEx(f, k, p, 0)}
        ELSE IF f.type[k] # "string" \/ p = 0 THEN {f}
        ELSE {WatchTouch(d, {k}) : d \in
                UNION {MaybeEvict(s) : s \in
                    TouchGet(ReplaceByString(f, k, f.payload[k] + p), k)}}

\* ar_incr stores a number of p digits and keeps the TTL; a value that is
\* not a number leaves the key alone (both outcomes, as values are sizes).
Incr(c, k, p) ==
    LET f == FindEntry(c, k)
    IN  IF k \notin Linked(f) THEN EntrySetEx(f, k, p, 0)
        ELSE IF f.type[k] # "string" THEN {f}
        ELSE {f} \cup EntrySetEx(f, k, p, f.expire_at[k])

\* ar_rename once the source entry k is found and the destination is gone:
\* the entry takes the name n, and is linked in the hot/flat table.
MoveEntry(c, k, n) ==
    LET tiered == c.layout = "hot_cold"
        ty == c.type[k]
        Moved(f, blank) == [f EXCEPT ![n] = f[k], ![k] = blank]
        Longer(m) == IF KeyLen[n] >= KeyLen[k]
                     THEN m + (KeyLen[n] - KeyLen[k])
                     ELSE Saturate(m - (KeyLen[k] - KeyLen[n]))
    IN  [c EXCEPT
          !.hot = (@ \ {k}) \cup {n},
          !.cold = @ \ {k},
          !.pinned = IF k \in @ THEN (@ \ {k}) \cup {n} ELSE @,
          !.payload = Moved(@, 0),
          !.expire_at = Moved(@, 0),
          !.type = Moved(@, "string"),
          !.hot_nkeys = IF ~ tiered THEN @
                        ELSE IF k \in c.hot THEN Saturate(@ - 1) + 1 ELSE @ + 1,
          !.cold_nkeys = IF tiered /\ k \notin c.hot THEN Saturate(@ - 1) ELSE @,
          !.used_memory = Longer(@) % Word,
          !.type_bytes[ty] = Longer(@)]

Rename(c, k, n, nx) ==
    LET f == FindEntry(c, k)
        g == FindEntry(f, n)
        h == IF n \in Linked(g) THEN FreeEntries(g, {n}) ELSE g
    IN  IF k \notin Linked(f) \/ k = n THEN {f}
        ELSE IF n \in Linked(g) /\ nx THEN {g}
        ELSE {WatchTouch(d, {k, n}) : d \in
                UNION {MaybeEvict(s) : s \in MaybeDemoteHot(MoveEntry(h, k, n))}}

\* ar_expire, ar_pexpire, ar_expireat, ar_pexpireat: t = 0 stands for every
\* argument that is not positive, which clears the TTL.
Expire(c, k, t) ==
    LET f == FindEntry(c, k)
    IN  IF k \in Linked(f) THEN WatchTouch(SetExpireAt(f, k, t), {k}) ELSE f

\* ar_flushdb: the tables are emptied entry by entry without ar_entry_free_ex
\* and the counters reset, pinned_keys not among them.
FlushDb(c) ==
    [c EXCEPT !.hot = {}, !.cold = {}, !.pinned = {},
              !.payload = [k \in Keys |-> 0],
              !.expire_at = [k \in Keys |-> 0],
              !.type = [k \in Keys |-> "string"],
              !.nkeys = 0, !.hot_nkeys = 0,
              !.cold_nkeys = IF c.layout = "hot_cold" THEN 0 ELSE @,
              !.used_memory = 0, !.keys_with_ttl = 0, !.expire_at_sum = 0,
              !.type_nkeys = [t \in AllTypes |-> 0],
              !.type_bytes = [t \in AllTypes |-> 0],
              !.touched = Keys]

\* ar_entry_get_or_create: the records with which it returns the entry, or
\* without it (wrong type, or evicted as soon as created).
GetOrCreate(c, k, ty) ==
    LET f == FindEntry(c, k)
    IN  IF k \in Linked(f) THEN {f}
        ELSE {FindEntry(d, k) : d \in MaybeEvict(LinkNew(f, k, ty, ObjBase))}

\* HSET, HINCRBY, LPUSH, RPUSH, ZADD: the object has p bytes of elements.
ObjectAdd(c, k, ty, p) ==
    UNION {IF k \in Linked(d) /\ d.type[k] = ty
           THEN {WatchTouch(e, {k}) :
                   e \in MaybeEvict(ResizeObject(d, k, ObjBase + p))}
           ELSE {d} : d \in GetOrCreate(c, k, ty)}

\* Mutant: the bytes of the last elements are subtracted twice.
ObjectRemove_Twice(c, k, ty, p) ==
    LET f == FindEntry(c, k)
        r == ResizeObject(f, k, ObjBase + p)
    IN  IF k \notin Linked(f) \/ f.type[k] # ty \/ ObjBase + p > f.payload[k]
        THEN f
        ELSE IF p = 0
             THEN FreeEntries([r EXCEPT !.payload[k] = f.payload[k]], {k})
        ELSE IF ObjBase + p = f.payload[k] THEN f ELSE WatchTouch(r, {k})

\* HDEL, LPOP, RPOP, ZREM: p bytes of elements are left; an object left empty
\* is deleted.  Nothing removed: no WATCH notification.
ObjectRemove(c, k, ty, p) ==
    LET f == FindEntry(c, k)
        r == ResizeObject(f, k, ObjBase + p)
    IN  IF k \notin Linked(f) \/ f.type[k] # ty \/ ObjBase + p > f.payload[k]
        THEN f
        ELSE IF p = 0 THEN FreeEntries(r, {k})
        ELSE IF ObjBase + p = f.payload[k] THEN f ELSE WatchTouch(r, {k})

\* ar_list_ltrim: WATCH is notified even when the window keeps every element.
ListTrim(c, k, p) ==
    LET f == FindEntry(c, k)
    IN  IF k \notin Linked(f) \/ f.type[k] # "list" \/ ObjBase + p > f.payload[k]
        THEN f
        ELSE IF p = 0 THEN FreeEntries(f, {k})
        ELSE WatchTouch(ResizeObject(f, k, ObjBase + p), {k})

\* ar_list_lrem: a list that loses its last element is freed at once, the
\* bytes of the removed elements are subtracted only when elements are left.
ListRem(c, k, p) ==
    LET f == FindEntry(c, k)
    IN  IF k \notin Linked(f) \/ f.type[k] # "list" \/ ObjBase + p > f.payload[k]
        THEN f
        ELSE IF p = 0 THEN FreeEntries([f EXCEPT !.payload[k] = ObjBase], {k})
        ELSE WatchTouch(ResizeObject(f, k, ObjBase + p), {k})

Pin(c, k) ==
    LET f == FindEntry(c, k)
    IN  IF k \in Linked(f) \ f.pinned
        THEN [f EXCEPT !.pinned = @ \cup {k}, !.pinned_keys = @ + 1] ELSE f

\* Mutant: the count drops although the key was not pinned.
Unpin_Unchecked(c, k) ==
    LET f == FindEntry(c, k)
    IN  IF k \in Linked(f)
        THEN [f EXCEPT !.pinned = @ \ {k}, !.pinned_keys = Saturate(@ - 1)] ELSE f

Unpin(c, k) ==
    LET f == FindEntry(c, k)
    IN  IF k \in Linked(f) \cap f.pinned
        THEN [f EXCEPT !.pinned = @ \ {k}, !.pinned_keys = Saturate(@ - 1)] ELSE f

-----------------------------------------------------------------------------
(* The commands and the duties of the event loop.                          *)

\* A step: the command starts with no key notified; Tick alone moves time.
Step(S) == core' \in S /\ now' = now

Fresh == [core EXCEPT !.touched = {}]

\* Absolute deadlines the EX, PX, EXAT, PXAT options compute; 0 = no option.
Expiries == {0} \cup {now + d : d \in Durations} \cup Deadlines

\* SET key value [NX|XX] [EX|PX|EXAT|PXAT]; SETNX, SETEX, PSETEX.
SetCmd(k) ==
    \E p \in ValLens, cond \in {"always", "nx", "xx"}, t \in Expiries :
        LET f == FindEntry(Fresh, k)
            refused == \/ cond = "nx" /\ k \in Linked(f)
                       \/ cond = "xx" /\ k \notin Linked(f)
        IN  Step(IF refused THEN {f} ELSE EntrySetEx(f, k, p, t))

SetKeepTtl(k) ==
    \E p \in ValLens :
        LET f == FindEntry(Fresh, k)
        IN  Step(EntrySetEx(f, k, p, f.expire_at[k]))

\* GETSET key value: a read, then a write that clears the TTL.
GetSet(k) ==
    \E p \in ValLens :
        Step(UNION {IF k \in Linked(g) /\ g.type[k] # "string" THEN {g}
                    ELSE EntrySetEx(g, k, p, 0) : g \in GetPtr(Fresh, k)})

MSet(j, k) ==
    \E p, q \in ValLens :
        Step(UNION {EntrySetEx(d, k, q, 0) : d \in EntrySetEx(Fresh, j, p, 0)})

Get(k) == Step(GetPtr(Fresh, k))

MGet(j, k) == Step(UNION {GetPtr(d, k) : d \in GetPtr(Fresh, j)})

\* EXISTS, TTL, PTTL, STRLEN, TYPE, HGET, LLEN, ZSCORE, a refused HINCRBY...:
\* a lookup and nothing else.
Lookup(k) == Step({FindEntry(Fresh, k)})

Del(j, k) == Step({DelBin(DelBin(Fresh, j), k)})

AppendCmd(k) ==
    \E p \in ValLens :
        core.payload[k] + p <= MaxPayload /\ Step(AppendValue(Fresh, k, p))

IncrCmd(k) == \E p \in ValLens \ {0} : Step(Incr(Fresh, k, p))

RenameCmd(j, k) == \E nx \in BOOLEAN : Step(Rename(Fresh, j, k, nx))

ExpireCmd(k) == \E t \in Expiries : Step({Expire(Fresh, k, t)})

ObjectAddCmd(k) ==
    \E ty \in Types \ {"string"}, p \in ValLens \ {0} :
        Step(ObjectAdd(Fresh, k, ty, p))

ObjectRemoveCmd(k) ==
    \E ty \in Types \ {"string"}, p \in ValLens :
        Step({ObjectRemove(Fresh, k, ty, p)})

ListTrimCmd(k) == \E p \in ValLens : Step({ListTrim(Fresh, k, p)})

ListRemCmd(k) ==
    /\ core.used_memory <= MemBound
    /\ \E p \in ValLens : Step({ListRem(Fresh, k, p)})

FlushDbCmd == Step({FlushDb(Fresh)})

PinCmd(k) == core.pinned_keys < PinBound /\ Step({Pin(Fresh, k)})

UnpinCmd(k) == Step({Unpin(Fresh, k)})

LayoutCmd == \E name \in Layouts : Step({MigrateTo(Fresh, name)})

\* ar_core_adapt_layout; getHeavy abstracts the GET and SET counters.
AdaptLayout ==
    \E getHeavy \in BOOLEAN :
        Step({IF core.nkeys >= AdaptHot /\ getHeavy
              THEN MigrateTo(Fresh, "hot_cold")
              ELSE IF core.nkeys < AdaptFlat THEN MigrateTo(Fresh, "flat")
              ELSE Fresh})

\* ar_core_set_evict_by_name only names the policy; ar_core_load_evict_plugin
\* sets its own and then evicts down to maxmemory with it.
EvictCmd ==
    \E name \in EvictNames :
        LET renamed == [Fresh EXCEPT !.evict = name]
        IN Step(IF name = "plugin" THEN MaybeEvict(renamed) ELSE {renamed})

SetMaxmemory ==
    \E m \in MaxMemories : Step(MaybeEvict([Fresh EXCEPT !.maxmemory = m]))

SetPromoteOnGet ==
    Step({[Fresh EXCEPT !.hot_promote_on_get = ~ @]})

\* ar_core_active_expire, called by the event loop while some key has a TTL:
\* the random buckets it samples hold any of the due keys.
ActiveExpire(X) ==
    /\ core.keys_with_ttl > 0 /\ core.nkeys > 0
    /\ X \subseteq Sampled(core) \cap Due(core)
    /\ Step({FreeEntries(Fresh, X)})

\* SCAN frees the due keys of the buckets it visits, KEYS and DBSIZE all.
ScanPurge ==
    \E X \in SUBSET (Linked(core) \cap Due(core)) :
        Step({FreeEntries(Fresh, X)})

Tick == now < MaxNow /\ now' = now + 1 /\ core' = Fresh

Init == core = EmptyCore /\ now = 0

Next ==
    \/ \E k \in Keys :
        \/ SetCmd(k) \/ SetKeepTtl(k) \/ GetSet(k) \/ Get(k) \/ Lookup(k)
        \/ AppendCmd(k) \/ IncrCmd(k) \/ ExpireCmd(k)
        \/ ObjectAddCmd(k) \/ ObjectRemoveCmd(k)
        \/ ListTrimCmd(k) \/ ListRemCmd(k)
        \/ PinCmd(k) \/ UnpinCmd(k)
    \/ \E j, k \in Keys :
        \/ MSet(j, k) \/ MGet(j, k) \/ Del(j, k) \/ RenameCmd(j, k)
    \/ FlushDbCmd \/ LayoutCmd \/ AdaptLayout
    \/ EvictCmd \/ SetMaxmemory \/ SetPromoteOnGet
    \/ \E X \in SUBSET Keys : ActiveExpire(X)
    \/ ScanPurge \/ Tick

Spec == Init /\ [][Next]_vars

\* The event loop keeps calling ar_core_active_expire, whose random buckets
\* reach every bucket again and again.
FairSpec == Spec /\ \A k \in Keys :
                SF_vars(\E X \in SUBSET Keys : k \in X /\ ActiveExpire(X))

-----------------------------------------------------------------------------
(* Properties.                                                             *)

\* No entry is linked in two tables, and only hot_cold has a cold table: a
\* key in both would be read from one and deleted from the other.
TablesDisjoint ==
    /\ core.hot \cap core.cold = {}
    /\ core.layout = "flat" => core.cold = {}

\* nkeys, the tier counters, keys_with_ttl and type_nkeys are what a walk of
\* the tables would count, through lazy expiry, eviction in the middle of a
\* write, renames, migrations and flushes.  Rehashing, demotion, eviction
\* and the event loop's active expiry are all steered by these counters.
CountersExact ==
    /\ core.nkeys = Cardinality(Linked(core))
    /\ core.layout = "hot_cold" =>
         /\ core.hot_nkeys = Cardinality(core.hot)
         /\ core.cold_nkeys = Cardinality(core.cold)
    /\ core.layout = "flat" => core.hot_nkeys = 0 /\ core.cold_nkeys = 0
    /\ HasTtl(core) \subseteq Linked(core)
    /\ core.keys_with_ttl = Cardinality(HasTtl(core))
    /\ \A t \in AllTypes :
         core.type_nkeys[t] = Cardinality({k \in Linked(core) : core.type[k] = t})

\* pinned_keys never reports fewer pins than there are.
PinsNotUndercounted ==
    /\ core.pinned \subseteq Linked(core)
    /\ Cardinality(core.pinned) <= core.pinned_keys

\* used_memory, against which maxmemory is enforced, never falls below the
\* bytes of the live entries, and never wraps around; and type_bytes
\* attributes it to the four types without remainder.
MemoryCovered ==
    /\ Bytes(core, Linked(core)) <= core.used_memory
    /\ core.used_memory = MapThenSumSet(LAMBDA t : core.type_bytes[t], AllTypes)

\* What a client can observe of key k.
Observable(c, k) ==
    <<k \in Linked(c), c.payload[k], c.type[k], c.expire_at[k]>>

\* WATCH sees every change: a step that creates, changes, retypes, moves,
\* expires, evicts or deletes a key notifies the watchers of that key.
WatchSeesEveryChange ==
    [][\A k \in Keys :
          Observable(core, k) # Observable(core', k) => k \in core'.touched]_vars

\* The largest write to key j fits.
RoomFor(j) == \/ core.maxmemory = 0
              \/ core.used_memory + KeyLen[j] + Shell + ObjBase + Max(ValLens)
                    <= core.maxmemory

\* A write takes an unexpired key of somebody else away only if it may and
\* must: no pinned key, whatever memory it needs, as long as a built-in kernel
\* evicts (the helper that plugins call does not look at pins), and no key at
\* all if it fits under maxmemory or there is no limit.
EvictionSpares ==
    [][\A k \in Linked(core) \ (Due(core) \cup Linked(core')) :
          \A j \in Keys \ {k} :
             \/ RoomFor(j)
             \/ k \in core.pinned /\ core.evict # "plugin"
             => ~ (SetCmd(j) \/ AppendCmd(j) \/ ObjectAddCmd(j))]_vars

\* Every key whose TTL has passed is eventually freed or rewritten although
\* no client ever asks for it: the loop expires actively as long as its
\* counters say that there is something to expire.
DueEventuallyPurged == \A k \in Keys : (k \in Due(core)) ~> (k \notin Due(core))
=============================================================================
