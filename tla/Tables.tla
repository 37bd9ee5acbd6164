------------------------------- MODULE Tables -------------------------------
(***************************************************************************)
(* The hash tables under the dictionary (native/src/ar_core.c): buckets    *)
(* that double, the cold table beside the hot one, the layout migrations,  *)
(* SCAN's cursor over both, and the sampling pass of eviction, step by     *)
(* step under a running clock.                                             *)
(*                                                                         *)
(* Keyspace says which entries there are and what the counters say; here   *)
(* it matters in which bucket an entry hangs, because lookups, SCAN and    *)
(* the samplers reach entries by bucket.                                   *)
(*                                                                         *)
(* Abstracted: a bucket is the set of its keys (nothing depends on the     *)
(* order of a chain); access clocks (a sampler or a demotion may prefer    *)
(* any entry); every key weighs the same against maxmemory; pins.          *)
(***************************************************************************)
EXTENDS Naturals, FiniteSets, Functions

CONSTANTS
    Keys,
    Hash,         \* hash_bin of each key
    InitBuckets,  \* buckets of a new dictionary
    MinCold,      \* least buckets of a new cold table
    Caps,         \* values of hot_soft_cap_pct, hot_soft_cap_min: [pct, min]
    MaxKeys,      \* keys that fit into maxmemory
    EvictSamples, \* evict_samples
    MaxAttempts,  \* bound: buckets a sampling pass tries
    MaxBuckets,   \* bound: growth of a table
    MaxCount,     \* largest COUNT of a SCAN
    MaxMoves,     \* bound: layout migrations
    MaxNow        \* bound: last instant of the clock

ASSUME TablesAssumption ==
    /\ Hash \in [Keys -> Nat]
    /\ InitBuckets \in Nat \ {0} /\ MinCold \in Nat \ {0}
    /\ Caps # {} /\ Caps \subseteq [pct : 1..100, min : Nat]
    /\ MaxCount \in Nat \ {0} /\ MaxNow \in Nat

VARIABLES
    tab,       \* the tables: [layout, hot, cold, at]
    now,
    pass,      \* the sampling pass: [on, best, samples, attempts]
    scan,      \* a client's SCAN: [on, cursor, seen, due, still, missed, twice]
               \* (due: linked since it began; seen: those returned already)
    moves,     \* counter for the bound
    corrupt    \* history: an entry was freed that was not linked any more

tvars == <<tab, now, pass, scan, moves, corrupt>>

NoKey == "no key"

Layouts == {"flat", "hot_cold"}

NoBuckets == << >>
NewTable(n) == [b \in 0..(n - 1) |-> {}]
Size(t) == Cardinality(DOMAIN t)
Entries(t) == UNION Range(t)
Linked(d) == Entries(d.hot) \cup Entries(d.cold)

Bucket(k, n) == Hash[k] % n
Put(t, k) == [t EXCEPT ![Bucket(k, Size(t))] = @ \cup {k}]

-----------------------------------------------------------------------------
(* Operations on the tables.                                               *)

Due(d, k, t) == d.at[k] # 0 /\ t >= d.at[k]

\* ar_entry_free_ex: unlinked from the bucket the caller names.
Free(d, tier, b, ks) ==
    IF tier = "hot" THEN [d EXCEPT !.hot[b] = @ \ ks, !.at = [k \in Keys |-> IF k \in ks THEN 0 ELSE @[k]]]
    ELSE [d EXCEPT !.cold[b] = @ \ ks, !.at = [k \in Keys |-> IF k \in ks THEN 0 ELSE @[k]]]

\* find_in_table looks into one bucket.
InHot(d, k) == k \in d.hot[Bucket(k, Size(d.hot))]
InCold(d, k) == d.layout = "hot_cold" /\ k \in d.cold[Bucket(k, Size(d.cold))]
Finds(d, k) == InHot(d, k) \/ InCold(d, k)

\* ar_find_entry_ex frees what it finds due.
Find(d, k) ==
    IF ~ Due(d, k, now) THEN d
    ELSE IF InHot(d, k) THEN Free(d, "hot", Bucket(k, Size(d.hot)), {k})
    ELSE IF InCold(d, k) THEN Free(d, "cold", Bucket(k, Size(d.cold)), {k})
    ELSE d

\* Mutant: entries keep the number of their bucket.
Rehash_OldMask(t) ==
    [b \in 0..(2 * Size(t) - 1) |-> {k \in Entries(t) : Bucket(k, Size(t)) = b}]

\* rehash_table: every entry goes where the doubled table looks for it.
Rehash(t) ==
    [b \in 0..(2 * Size(t) - 1) |-> {k \in Entries(t) : Bucket(k, 2 * Size(t)) = b}]

Grown(t) == IF Cardinality(Entries(t)) > Size(t) THEN Rehash(t) ELSE t

\* ar_rehash_if_needed: once, each table by its own count.
RehashIfNeeded(d) ==
    [d EXCEPT !.hot = Grown(@),
              !.cold = IF d.layout = "hot_cold" THEN Grown(@) ELSE @]

\* demote_one_hot_to_cold for each of ks.
Demote(d, ks) ==
    [d EXCEPT !.hot = [b \in DOMAIN @ |-> @[b] \ ks],
              !.cold = [b \in DOMAIN @ |->
                           @[b] \cup {k \in ks : Bucket(k, Size(d.cold)) = b}]]

HotSoftCap(d, c) ==
    LET share == (Cardinality(Linked(d)) * c.pct) \div 100
    IN  IF share < c.min THEN c.min ELSE share

\* maybe_demote_hot: any victims, and no more than bring the hot table down to
\* the soft cap.  It may stop short of it: 64 random buckets without an entry
\* end it, and so do 64 demotions.  The knobs are not part of the state: they
\* may change between any two commands, and each demotion may meet any of them.
Demotions(d) ==
    LET hot == Entries(d.hot)
        Most(c) == Cardinality(hot) - HotSoftCap(d, c)
    IN  IF d.layout = "flat" THEN {d}
        ELSE {d} \cup {Demote(d, ks) : ks \in
                 {s \in SUBSET hot : \E c \in Caps : Cardinality(s) <= Most(c)}}

\* ar_touch_get on a cold entry.
Promote(d, k) ==
    [d EXCEPT !.cold[Bucket(k, Size(d.cold))] = @ \ {k}, !.hot = Put(@, k)]

\* migrate_to_flat folds the cold table into the hot one, then grows it.
MigrateToFlat(d) ==
    RehashIfNeeded([d EXCEPT !.layout = "flat", !.cold = NoBuckets,
        !.hot = [b \in DOMAIN @ |-> @[b] \cup
                    {k \in Entries(d.cold) : Bucket(k, Size(d.hot)) = b}]])

\* migrate_to_hot_cold adds an empty cold table.
MigrateToHotCold(d) ==
    LET n == Size(d.hot)
    IN  [d EXCEPT !.layout = "hot_cold", !.cold = NewTable(IF n < MinCold THEN MinCold ELSE n)]

-----------------------------------------------------------------------------
(* SCAN: buckets in one numbering, the hot table's first.                  *)

\* scan_total_buckets.
ScanTotal(d) == Size(d.hot) + Size(d.cold)

\* scan_bucket_at.
BucketAt(d, i) ==
    IF i < Size(d.hot) THEN d.hot[i]
    ELSE IF i - Size(d.hot) \in DOMAIN d.cold THEN d.cold[i - Size(d.hot)] ELSE {}

\* Every bucket without the entries that are due.
Purged(d, from, to, t) ==
    LET gone == {k \in UNION {BucketAt(d, i) : i \in from..to} : Due(d, k, t)}
    IN  [d EXCEPT !.hot = [b \in DOMAIN @ |-> @[b] \ gone],
                  !.cold = [b \in DOMAIN @ |-> @[b] \ gone],
                  !.at = [k \in Keys |-> IF k \in gone THEN 0 ELSE @[k]]]

\* Mutant: the cursor that is returned is one too far.
ScanPage_Skips(d, cursor, count, t) ==
    LET total == ScanTotal(d)
        to == IF cursor + count > total THEN total - 1 ELSE cursor + count - 1
        d2 == Purged(d, cursor, to, t)
    IN  IF Linked(d) = {} \/ cursor >= total
        THEN [tab |-> d, keys |-> {}, next |-> 0]
        ELSE [tab |-> d2, keys |-> UNION {BucketAt(d2, i) : i \in cursor..to},
              next |-> IF to + 2 >= total THEN 0 ELSE to + 2]

\* Mutant: the cursor that is returned is that of the last bucket visited.
ScanPage_Repeats(d, cursor, count, t) ==
    LET total == ScanTotal(d)
        to == IF cursor + count > total THEN total - 1 ELSE cursor + count - 1
        d2 == Purged(d, cursor, to, t)
    IN  IF Linked(d) = {} \/ cursor >= total
        THEN [tab |-> d, keys |-> {}, next |-> 0]
        ELSE [tab |-> d2, keys |-> UNION {BucketAt(d2, i) : i \in cursor..to},
              next |-> IF to + 1 >= total THEN 0 ELSE to]

\* ar_scan: the buckets from cursor on, at most count of them.  No keys, or a
\* cursor behind the end, end the iteration.
ScanPage(d, cursor, count, t) ==
    LET total == ScanTotal(d)
        to == IF cursor + count > total THEN total - 1 ELSE cursor + count - 1
        d2 == Purged(d, cursor, to, t)
    IN  IF Linked(d) = {} \/ cursor >= total
        THEN [tab |-> d, keys |-> {}, next |-> 0]
        ELSE [tab |-> d2, keys |-> UNION {BucketAt(d2, i) : i \in cursor..to},
              next |-> IF to + 1 >= total THEN 0 ELSE to + 1]

\* ar_keys pages through everything at once, ar_dbsize counts it.
KeysNow(d, t) == ScanPage(d, 0, ScanTotal(d), t).keys

-----------------------------------------------------------------------------
(* Actions.  A command runs alone; commands wait for a sampling pass.      *)

Idle == ~ pass.on /\ ~ corrupt

NoPass == [on |-> FALSE, best |-> NoKey, samples |-> 0, attempts |-> 0]

\* What a running SCAN may count on after a step to d: a key that stays linked,
\* except the ones in hidden.
Owed(d, hidden) == (scan.due \cap Linked(d)) \ hidden

\* No table changes its size and no entry changes its table.
StaysPut(d) ==
    /\ DOMAIN d.hot = DOMAIN tab.hot /\ DOMAIN d.cold = DOMAIN tab.cold
    /\ \A k \in Linked(d) \cap Linked(tab) : k \in Entries(d.hot) <=> k \in Entries(tab.hot)

\* The step leaves tables d behind; hidden keys moved towards the front.
After(d, hidden) ==
    /\ tab' = d
    /\ scan' = [scan EXCEPT !.due = Owed(d, hidden), !.seen = @ \cap Owed(d, hidden),
                            !.still = (@ /\ StaysPut(d)) \/ ~ scan.on]

\* maybe_evict at the end of a write.
StartPass(d) ==
    pass' = IF Cardinality(Linked(d)) > MaxKeys THEN [NoPass EXCEPT !.on = TRUE] ELSE pass

\* ar_entry_set_ex, a new key: into the hot table; demote, grow, evict.
SetNew(k, at) ==
    /\ Idle
    /\ LET d == Find(tab, k)
       IN  /\ ~ Finds(d, k)
           /\ \E e \in Demotions([d EXCEPT !.hot = Put(@, k), !.at[k] = at]) :
                 LET g == RehashIfNeeded(e)
                 IN  /\ Size(g.hot) <= MaxBuckets /\ Size(g.cold) <= MaxBuckets
                     /\ After(g, {k}) /\ StartPass(g)
    /\ UNCHANGED <<now, moves, corrupt>>

\* ar_entry_set_ex, an existing key: promoted from the cold table.
SetExisting(k, at) ==
    /\ Idle
    /\ ~ Due(tab, k, now) /\ Finds(tab, k)
    /\ LET d == [tab EXCEPT !.at[k] = at]
       IN  IF InCold(d, k)
           THEN \E e \in Demotions(Promote(d, k)) : After(e, {k}) /\ StartPass(e)
           ELSE After(d, {}) /\ StartPass(d)
    /\ UNCHANGED <<now, moves, corrupt>>

\* GET, with hot-promote-on-get.
Get(k) ==
    /\ Idle
    /\ ~ Due(tab, k, now) /\ InCold(tab, k)
    /\ \E e \in Demotions(Promote(tab, k)) : After(e, {k})
    /\ UNCHANGED <<now, pass, moves, corrupt>>

\* DEL, or any lookup of a due key.
Del(k) ==
    /\ Idle
    /\ Finds(tab, k)
    /\ After(IF InHot(tab, k) THEN Free(tab, "hot", Bucket(k, Size(tab.hot)), {k})
             ELSE Free(tab, "cold", Bucket(k, Size(tab.cold)), {k}), {})
    /\ UNCHANGED <<now, pass, moves, corrupt>>

\* ar_core_active_expire on one bucket: at most one entry.
ActiveExpire(tier, b, k) ==
    /\ Idle
    /\ b \in DOMAIN tab[tier] /\ k \in tab[tier][b] /\ Due(tab, k, now)
    /\ After(Free(tab, tier, b, {k}), {})
    /\ UNCHANGED <<now, pass, moves, corrupt>>

\* ar_core_set_layout.
SetLayout ==
    /\ Idle /\ moves < MaxMoves
    /\ IF tab.layout = "flat" THEN After(MigrateToHotCold(tab), {})
       ELSE After(MigrateToFlat(tab), Entries(tab.cold))
    /\ Size(tab'.hot) <= MaxBuckets
    /\ moves' = moves + 1
    /\ UNCHANGED <<now, pass, corrupt>>

\* CONFIG SET of one of the knobs demotes at once.
SetSoftCap ==
    /\ Idle
    /\ \E e \in Demotions(tab) : After(e, {})
    /\ UNCHANGED <<now, pass, moves, corrupt>>

\* SCAN: cursor 0 begins an iteration, and the reply 0 ends it.
Scan(count) ==
    LET begins == ~ scan.on
        owed == IF begins THEN Linked(tab) ELSE scan.due
        seen == IF begins THEN {} ELSE scan.seen
        page == ScanPage(tab, IF begins THEN 0 ELSE scan.cursor, count, now)
        due == owed \cap Linked(page.tab)
        twice == page.keys \cap seen \cap due
    IN  /\ Idle
        /\ tab' = page.tab
        /\ scan' = [on |-> page.next # 0, cursor |-> page.next,
                    seen |-> IF page.next = 0 THEN {} ELSE (seen \cup page.keys) \cap due,
                    due |-> IF page.next = 0 THEN {} ELSE due,
                    still |-> page.next = 0 \/ begins \/ scan.still,
                    missed |-> IF page.next = 0 THEN due \ (seen \cup page.keys) ELSE {},
                    twice |-> IF begins \/ scan.still THEN twice ELSE {}]
        /\ UNCHANGED <<now, pass, moves, corrupt>>

\* One attempt of sample_pick_lru and its siblings: a random bucket; entries
\* due by now are freed, any other may become the best so far.
SampleBucket(tier, b) ==
    /\ pass.on /\ ~ corrupt
    /\ pass.samples < EvictSamples /\ pass.attempts < MaxAttempts
    /\ b \in DOMAIN tab[tier]
    /\ LET due == {k \in tab[tier][b] : Due(tab, k, now)}
           rest == tab[tier][b] \ due
           n == pass.samples + Cardinality(rest)
       IN  /\ After(Free(tab, tier, b, due), {})
           /\ \E best \in {pass.best} \cup rest :
                 /\ best = NoKey => rest = {}
                 /\ pass' = [on |-> TRUE, best |-> best,
                             samples |-> IF n > EvictSamples THEN EvictSamples ELSE n,
                             attempts |-> pass.attempts + 1]
    /\ UNCHANGED <<now, moves, corrupt>>

\* evict_one frees the best entry of the pass; maybe_evict goes on while the
\* dictionary does not fit.  A best entry that the same pass has expired
\* since is freed a second time: what happens then is undefined.
EvictBest ==
    /\ pass.on /\ ~ corrupt
    /\ pass.samples = EvictSamples \/ pass.attempts = MaxAttempts
    /\ LET k == pass.best
           d == IF InHot(tab, k) THEN Free(tab, "hot", Bucket(k, Size(tab.hot)), {k})
                ELSE Free(tab, "cold", Bucket(k, Size(tab.cold)), {k})
       IN  IF k = NoKey THEN pass' = NoPass /\ UNCHANGED <<tab, scan, corrupt>>
           ELSE IF Finds(tab, k)
           THEN /\ After(d, {})
                /\ pass' = IF Cardinality(Linked(d)) > MaxKeys
                           THEN [NoPass EXCEPT !.on = TRUE] ELSE NoPass
                /\ UNCHANGED corrupt
           ELSE corrupt' = TRUE /\ UNCHANGED <<tab, scan, pass>>
    /\ UNCHANGED <<now, moves>>

Tick ==
    /\ now < MaxNow /\ ~ corrupt
    /\ now' = now + 1
    /\ UNCHANGED <<tab, pass, scan, moves, corrupt>>

NoScan == [on |-> FALSE, cursor |-> 0, seen |-> {}, due |-> {}, still |-> TRUE,
           missed |-> {}, twice |-> {}]

TInit ==
    /\ tab = [layout |-> "flat", hot |-> NewTable(InitBuckets), cold |-> NoBuckets,
              at |-> [k \in Keys |-> 0]]
    /\ now = 0 /\ pass = NoPass /\ scan = NoScan /\ moves = 0 /\ corrupt = FALSE

ScanNext == \E n \in 1..MaxCount : Scan(n)

TNext ==
    \/ \E k \in Keys, at \in {0, MaxNow} : SetNew(k, at) \/ SetExisting(k, at)
    \/ \E k \in Keys : Get(k) \/ Del(k)
    \/ \E tier \in {"hot", "cold"} : \E b \in DOMAIN tab[tier] :
        \/ SampleBucket(tier, b)
        \/ \E k \in tab[tier][b] : ActiveExpire(tier, b, k)
    \/ SetLayout \/ SetSoftCap \/ ScanNext \/ EvictBest \/ Tick

TSpec == TInit /\ [][TNext]_tvars

PassStep ==
    \/ EvictBest
    \/ \E tier \in {"hot", "cold"} : \E b \in DOMAIN tab[tier] : SampleBucket(tier, b)

\* A sampling pass runs to its end (weak fairness), and a client that has begun
\* an iteration calls SCAN again and again (strong fairness: other commands and
\* passes come in between).  Enabledness is written out: a pass can step while
\* it is on, SCAN while none is.
TFairSpec ==
    /\ TSpec
    /\ []<>(~ (pass.on /\ ~ corrupt)) \/ []<><<PassStep>>_tvars
    /\ <>[](~ Idle) \/ []<><<ScanNext>>_tvars

-----------------------------------------------------------------------------
(* Properties.                                                             *)

\* Through growth, demotion, promotion and both migrations every entry hangs
\* in the one bucket that a lookup visits, no bucket of a cold table outlives
\* it, and KEYS and DBSIZE see exactly the keys a client can read.
EveryEntryFindable ==
    /\ tab.layout = "flat" <=> tab.cold = NoBuckets
    /\ KeysNow(tab, now) = {k \in Linked(tab) : ~ Due(tab, k, now)}
    /\ \A k \in Linked(tab) : Finds(tab, k)
    /\ \A k \in Keys : Cardinality({b \in DOMAIN tab.hot : k \in tab.hot[b]})
                       + Cardinality({b \in DOMAIN tab.cold : k \in tab.cold[b]}) <= 1

\* An iteration until cursor 0 returns every key that was there all the time,
\* although tables double, entries are added, removed, expired, evicted and
\* demoted between its calls: only a key that a GET or SET promoted, or a fold
\* of the cold table moved, in front of the cursor may be missed.  And as long
\* as no entry changes its bucket no key that stays is returned twice.
ScanMissesNothing == scan.missed = {} /\ scan.twice = {}

\* The cursor reaches 0 although the tables change under it.
ScanEnds == scan.on ~> (~ scan.on \/ corrupt)

\* "due TTL -> expire (not eviction candidate)": the entry that a sampling pass
\* evicts is not one that its deadline has taken already.
DueIsNoCandidate == ~ corrupt
===============================================================================
