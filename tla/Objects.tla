------------------------------ MODULE Objects -------------------------------
(***************************************************************************)
(* Hashes, lists and sorted sets with their contents (ar_types.c): buckets *)
(* that double, an array kept in order by insertion, lists, eviction in    *)
(* the middle of a command, and HSCAN over a hash that changes between two *)
(* calls.                                                                  *)
(*                                                                         *)
(* A key is linked or not; its bucket, its TTL, its bytes and the strings  *)
(* are the matter of Keyspace and Tables, so eviction takes any keys here. *)
(* The pure reads are operators, checked in every state.  An allocation    *)
(* never fails.                                                            *)
(***************************************************************************)
EXTENDS Integers, Sequences, FiniteSets, SequencesExt

CONSTANTS
    Keys, Fields, Members,
    FieldHash,   \* hash of a field
    Rank,        \* rank of a member in memcmp order
    Text,        \* values that are no integers
    NaN,         \* the score that is not a number, which strtod accepts
    Err, Ok, Nil, Garbage, \* replies; Garbage: read from freed memory
    Buckets0,    \* buckets of a new hash (16)
    MaxMembers,  \* AR_ZSET_MAX_MEMBERS
    RangeCap,    \* AR_ZSET_RANGE_MATCH_CAP
    HSetArgs, HDelArgs, HIncrByArgs, PushArgs, LRemArgs, LTrimArgs,
    ZAddArgs, ZRemArgs, \* what clients call the commands with, by key
    Scores,      \* scores that ranges are asked for
    MaxLen,      \* bound: elements of a list, by key
    MaxInt       \* bound: integers counted up to

ASSUME ObjectsAssumption ==
    /\ Buckets0 \in Nat \ {0} /\ MaxMembers \in Nat /\ RangeCap \in Nat
    /\ \A f \in Fields : FieldHash[f] \in Nat
    /\ \A m \in Members : Rank[m] \in Int
    /\ \A m, x \in Members : Rank[m] = Rank[x] => m = x
    /\ Nil \notin Keys /\ NaN \notin Int /\ Scores \subseteq Int

\* Every command has an argument, and its numbers are numbers.
ASSUME ArgsAssumption ==
    \A k \in Keys :
        /\ \A a \in HSetArgs[k] : a \in Seq(Fields \X (Text \cup Int)) /\ a # <<>>
        /\ \A a \in HDelArgs[k] : a \in Seq(Fields) /\ a # <<>>
        /\ \A a \in HIncrByArgs[k] : a[1] \in Fields /\ a[2] \in Int
        /\ \A a \in PushArgs[k] : a \in Seq(Text \cup Int) /\ a # <<>>
        /\ \A a \in LRemArgs[k] : a[1] \in Int
        /\ \A a \in LTrimArgs[k] : a[1] \in Int /\ a[2] \in Int
        \* At most 64 pairs, fewer than a sorted set may hold.
        /\ \A a \in ZAddArgs[k] :
              a \in Seq(Members \X ({NaN} \cup Int)) /\ Len(a) \in 1..MaxMembers
        /\ \A a \in ZRemArgs[k] : a \in Seq(Members) /\ a # <<>>

VARIABLES
    store,     \* the entry of each key
    reply,     \* the last reply of a command below
    scan,      \* an HSCAN under way: key, cursor, fields returned and owed
    tainted    \* history: keys whose sorted set has held a NaN

ovars == <<store, reply, scan, tainted>>

-----------------------------------------------------------------------------
(* Entries.                                                                *)

Absent == [type |-> "none", buckets |-> <<>>, nfields |-> 0, list |-> <<>>, arr |-> <<>>]

HashOf(buckets, nfields) ==
    [type |-> "hash", buckets |-> buckets, nfields |-> nfields, list |-> <<>>, arr |-> <<>>]

ListOf(list) ==
    [type |-> "list", buckets |-> <<>>, nfields |-> 0, list |-> list, arr |-> <<>>]

ZSetOf(arr) ==
    [type |-> "zset", buckets |-> <<>>, nfields |-> 0, list |-> <<>>, arr |-> arr]

NewEntry(type) ==
    CASE type = "hash" -> HashOf([b \in 1..Buckets0 |-> {}], 0)
      [] type = "list" -> ListOf(<<>>)
      [] type = "zset" -> ZSetOf(<<>>)

\* st stands for a dictionary: store, or what a command has made of it so far.
Linked(st) == {k \in Keys : st[k].type # "none"}

Free(st, K) == [k \in Keys |-> IF k \in K THEN Absent ELSE st[k]]

Put(st, k, e) == [st EXCEPT ![k] = e]

\* ar_maybe_evict_pub, under a memory limit that may ask for any victims.
MaybeEvict(st) == {Free(st, V) : V \in SUBSET Linked(st)}

\* ar_entry_get_or_create: a created key may be evicted at once.
Created(st, k, type) ==
    IF k \in Linked(st) THEN {st} ELSE MaybeEvict(Put(st, k, NewEntry(type)))

-----------------------------------------------------------------------------
(* Hashes.                                                                 *)

Slot(f, n) == (FieldHash[f] % n) + 1

HashFind(e, f) == {r \in e.buckets[Slot(f, Len(e.buckets))] : r.field = f}

\* The table of n buckets with the nodes in S.
Table(n, S) == [b \in 1..n |-> {r \in S : Slot(r.field, n) = b}]

Nodes(e) == UNION Range(e.buckets)

HashMaybeRehash(e) ==
    IF e.nfields <= Len(e.buckets) THEN e
    ELSE HashOf(Table(2 * Len(e.buckets), Nodes(e)), e.nfields)

\* The field gets the value, in place or as a new node.
Stored(e, f, v) ==
    LET found == HashFind(e, f)
    IN  HashOf([e.buckets EXCEPT ![Slot(f, Len(e.buckets))] =
                    (@ \ found) \cup {[field |-> f, val |-> v]}],
               IF found = {} THEN e.nfields + 1 ELSE e.nfields)

HSetOne(e, p) ==
    IF HashFind(e, p[1]) = {} THEN HashMaybeRehash(Stored(e, p[1], p[2]))
    ELSE Stored(e, p[1], p[2])

HSetAll(old, pairs) ==
    LET after[i \in 0..Len(pairs)] ==
            IF i = 0 THEN old ELSE HSetOne(after[i - 1], pairs[i])
    IN  after[Len(pairs)]

HDelOne(e, f) ==
    LET found == HashFind(e, f)
    IN  HashOf([e.buckets EXCEPT ![Slot(f, Len(e.buckets))] = @ \ found],
               e.nfields - Cardinality(found))

HDelAll(old, fields) ==
    LET after[i \in 0..Len(fields)] ==
            IF i = 0 THEN old ELSE HDelOne(after[i - 1], fields[i])
    IN  after[Len(fields)]

FieldsOf(e) == {r.field : r \in Nodes(e)}

-----------------------------------------------------------------------------
(* Sorted sets.                                                            *)

\* The elements of s at the given places, in their order.
Picked(s, places) ==
    LET Nth(i) == CHOOSE p \in places : Cardinality({q \in places : q < p}) = i - 1
    IN  [i \in 1..Cardinality(places) |-> s[Nth(i)]]

Lower(a, b) == a # NaN /\ b # NaN /\ a < b

\* zcmp(...) < 0
Before(x, y) ==
    \/ Lower(x.score, y.score)
    \/ ~Lower(y.score, x.score) /\ Rank[x.member] < Rank[y.member]

\* The array without the members in ms.
Others(arr, ms) == Picked(arr, {i \in DOMAIN arr : arr[i].member \notin ms})

\* An old score is taken out, the new one put in front of the first that is
\* not before it.
ZAddOne(e, p) ==
    LET rest == Others(e.arr, {p[1]})
        new == [member |-> p[1], score |-> p[2]]
        pos == Cardinality({i \in DOMAIN rest :
                              \A j \in 1..i : Before(rest[j], new)}) + 1
    IN  ZSetOf(InsertAt(rest, pos, new))

ZAddAll(old, pairs) ==
    LET after[i \in 0..Len(pairs)] ==
            IF i = 0 THEN old ELSE ZAddOne(after[i - 1], pairs[i])
    IN  after[Len(pairs)]

MembersOf(e) == {z.member : z \in Range(e.arr)}

-----------------------------------------------------------------------------
(* Steps of commands.                                                      *)

ScanAt(k, cursor, seen, owed, done) ==
    [key |-> k, cursor |-> cursor, seen |-> seen, owed |-> owed, done |-> done]

NoScan == ScanAt(Nil, 0, {}, {}, FALSE)

\* The scan owes the fields that have been there at every moment since it began.
Owed(st) ==
    IF scan.key = Nil THEN scan
    ELSE [scan EXCEPT !.owed = @ \cap FieldsOf(st[scan.key])]

Answer(st, r) == store' = st /\ reply' = r /\ scan' = Owed(st)

\* Sorted sets stay tainted as long as they live; those in K become so.
Taint(K) == tainted' = {k \in Keys : store'[k].type = "zset" /\ k \in tainted \cup K}

\* What a command that may create its key starts from.
Base(k, type) == IF k \in Linked(store) THEN store[k] ELSE NewEntry(type)

\* The same reply whether or not the key survives the command.
Told(r, gone) == [kept |-> r, evicted |-> r, gone |-> gone]

\* A command that creates its key and leaves object e in it; r.evicted is the
\* reply if the key is evicted at the end, r.gone if as soon as it is created.
Write(k, type, e, r) ==
    IF store[k].type \notin {"none", type} THEN Answer(store, Err)
    ELSE \E st \in Created(store, k, type) :
           IF k \notin Linked(st) THEN Answer(st, r.gone)
           ELSE \E fin \in MaybeEvict(Put(st, k, e)) :
                   Answer(fin, IF k \in Linked(fin) THEN r.kept ELSE r.evicted)

IsEmpty(e) == e.nfields = 0 /\ e.list = <<>> /\ e.arr = <<>>

\* Mutant: an emptied object stays.
Removed_KeepsEmpty(k, e) == Put(store, k, e)

\* The object without what a command took out of it; an emptied one is freed.
Removed(k, e) ==
    IF IsEmpty(e) THEN Free(store, {k}) ELSE Put(store, k, e)

\* A command that only removes and leaves e; missing is its reply for a key
\* that is not there.
TakeOut(k, type, e, r, missing) ==
    IF k \notin Linked(store) THEN Answer(store, missing)
    ELSE IF store[k].type # type THEN Answer(store, Err)
    ELSE Answer(Removed(k, e), r)

HSet(k, pairs) ==
    LET old == Base(k, "hash")
        e == HSetAll(old, pairs)
    IN  Write(k, "hash", e, Told(e.nfields - old.nfields, Err))

HDel(k, fields) ==
    LET e == HDelAll(store[k], fields)
    IN  TakeOut(k, "hash", e, store[k].nfields - e.nfields, 0)

\* HINCRBY does not rehash; for a key evicted at once it answers 0.
HIncrBy(k, f, n) ==
    LET Found(e) == IF HashFind(e, f) = {} THEN 0
                    ELSE (CHOOSE r \in HashFind(e, f) : TRUE).val
        old == IF store[k].type = "hash" THEN Found(store[k]) ELSE 0
    IN  IF old \in Text
        THEN Answer(store, Err)
        ELSE /\ old + n <= MaxInt
             /\ Write(k, "hash", Stored(Base(k, "hash"), f, old + n), Told(old + n, 0))

\* The length for the reply is read after the eviction, which may have freed
\* the list.
Push(k, left, vals) ==
    /\ Len(store[k].list) + Len(vals) <= MaxLen[k]
    /\ LET l == Base(k, "list").list
           e == ListOf(IF left THEN Reverse(vals) \o l ELSE l \o vals)
       IN  Write(k, "list", e, [kept |-> Len(e.list), evicted |-> Garbage, gone |-> Err])

Pop(k, left) ==
    LET l == store[k].list
    IN  TakeOut(k, "list", ListOf(IF left THEN Tail(l) ELSE Front(l)),
                IF left THEN Head(l) ELSE Last(l), Nil)

\* Mutant: a negative count walks from the head, too.
Hits_FromHead(l, count, v) ==
    LET limit == IF count < 0 THEN -count ELSE count
        out[i \in 0..Len(l)] ==
            IF i = 0 THEN {}
            ELSE IF l[i] = v /\ (limit = 0 \/ Cardinality(out[i - 1]) < limit)
            THEN out[i - 1] \cup {i} ELSE out[i - 1]
    IN  out[Len(l)]

\* Where the walk of LREM takes an element out: from the head, or from the
\* tail for a negative count; it stops after as many as asked for.
Hits(l, count, v) ==
    LET At(i) == IF count < 0 THEN Len(l) + 1 - i ELSE i
        limit == IF count < 0 THEN -count ELSE count
        out[i \in 0..Len(l)] ==
            IF i = 0 THEN {}
            ELSE IF l[At(i)] = v /\ (limit = 0 \/ Cardinality(out[i - 1]) < limit)
            THEN out[i - 1] \cup {At(i)} ELSE out[i - 1]
    IN  out[Len(l)]

LRem(k, count, v) ==
    LET l == store[k].list
        kept == Picked(l, DOMAIN l \ Hits(l, count, v))
    IN  TakeOut(k, "list", ListOf(kept), Len(l) - Len(kept), 0)

\* The window LTRIM keeps, from 0, clamped to the list; empty if start > stop.
Window(len, start, stop) ==
    LET first == IF start < 0 THEN len + start ELSE start
        last == IF stop < 0 THEN len + stop ELSE stop
    IN  [first |-> IF first < 0 THEN 0 ELSE first,
         last |-> IF last >= len THEN len - 1 ELSE last]

LTrim(k, start, stop) ==
    LET w == Window(Len(store[k].list), start, stop)
    IN  TakeOut(k, "list", ListOf(SubSeq(store[k].list, w.first + 1, w.last + 1)), Ok, Ok)

\* New members are counted pair by pair: a new one named twice counts twice.
Oversize(e, pairs) ==
    LET news == {i \in DOMAIN pairs : pairs[i][1] \notin MembersOf(e)}
    IN  news # {} /\ Len(e.arr) + Cardinality(news) > MaxMembers

ZAdd(k, pairs) ==
    IF store[k].type = "zset" /\ Oversize(store[k], pairs)
    THEN Answer(store, Err)
    ELSE LET old == Base(k, "zset")
             e == ZAddAll(old, pairs)
         IN  Write(k, "zset", e, Told(Len(e.arr) - Len(old.arr), Err))

ZRem(k, members) ==
    LET kept == Others(store[k].arr, ToSet(members))
    IN  TakeOut(k, "zset", ZSetOf(kept), Len(store[k].arr) - Len(kept), 0)

\* DEL, expiry, eviction by another command: the key goes.
Del(k) == k \in Linked(store) /\ Answer(Free(store, {k}), reply)

-----------------------------------------------------------------------------
(* Reads.                                                                  *)

HGet(e, f) ==
    IF e.type # "hash" \/ HashFind(e, f) = {} THEN Nil
    ELSE (CHOOSE r \in HashFind(e, f) : TRUE).val

\* The pairs HGETALL sends, bucket by bucket, and how many it announces.
HGetAll(e) == [announced |-> e.nfields, sent |-> Nodes(e)]

LIndex(e, i) ==
    LET at == IF i < 0 THEN Len(e.list) + i ELSE i
    IN  IF at < 0 \/ at >= Len(e.list) THEN Nil ELSE e.list[at + 1]

\* LRANGE and ZRANGE of the elements s: the window of LTRIM.
RangeOf(s, start, stop) ==
    LET w == Window(Len(s), start, stop) IN SubSeq(s, w.first + 1, w.last + 1)

\* The elements of the array with a score from min to max.
Matches(arr, min, max) ==
    Picked(arr, {i \in DOMAIN arr : ~Lower(arr[i].score, min) /\ ~Lower(max, arr[i].score)})

\* LIMIT off cnt; a negative cnt is no limit.
Page(s, off, cnt) ==
    LET skip == IF off > Len(s) THEN Len(s) ELSE off
        outn == IF cnt < 0 \/ cnt > Len(s) - skip THEN Len(s) - skip ELSE cnt
    IN  SubSeq(s, skip + 1, skip + outn)

\* Mutant: LIMIT is applied to the whole array, before the scores are compared.
ZRangeByScore_LimitFirst(e, min, max, off, cnt) ==
    Matches(Page(e.arr, off, cnt), min, max)

\* The first RangeCap matches, of which LIMIT skips some and takes some.
ZRangeByScore(e, min, max, off, cnt) ==
    LET all == Matches(e.arr, min, max)
    IN  Page(IF Len(all) > RangeCap THEN SubSeq(all, 1, RangeCap) ELSE all,
             IF off < 0 THEN 0 ELSE off, cnt)

-----------------------------------------------------------------------------
(* HSCAN with a count of one bucket; a larger count is several such calls.  *)

HScanBegin(k) ==
    /\ scan.key = Nil /\ store[k].type = "hash"
    /\ scan' = ScanAt(k, 0, {}, FieldsOf(store[k]), FALSE)
    /\ UNCHANGED <<store, reply, tainted>>

Buckets(k) == store[k].buckets

\* One call moves the cursor from one bucket to another.
HScanTo(next) ==
    LET n == Len(Buckets(scan.key))
        here == {r.field : r \in Buckets(scan.key)[scan.cursor + 1]}
    IN  /\ scan.key # Nil /\ ~scan.done
        /\ scan' = IF scan.cursor >= n THEN [scan EXCEPT !.done = TRUE]
                   ELSE ScanAt(scan.key, next, scan.seen \cup here, scan.owed, scan.cursor + 1 = n)
        /\ UNCHANGED <<store, reply, tainted>>

\* Mutant: a table that doubled moves the cursor with it.
HScan_Doubled ==
    HScanTo(scan.cursor + (IF Len(Buckets(scan.key)) > Buckets0 THEN 2 ELSE 1))

\* A cursor beyond the table, or a key that is gone, ends the scan.
HScan == HScanTo(scan.cursor + 1)

HScanForget ==
    /\ scan.done /\ scan' = NoScan
    /\ UNCHANGED <<store, reply, tainted>>

-----------------------------------------------------------------------------
OInit ==
    store = [k \in Keys |-> Absent] /\ reply = Nil /\ scan = NoScan /\ tainted = {}

ONext ==
    \/ \E k \in Keys :
         \/ /\ \/ \E a \in HSetArgs[k] : HSet(k, a)
               \/ \E a \in HDelArgs[k] : HDel(k, a)
               \/ \E a \in HIncrByArgs[k] : HIncrBy(k, a[1], a[2])
               \/ \E a \in PushArgs[k], left \in BOOLEAN : Push(k, left, a)
               \/ \E left \in BOOLEAN : Pop(k, left)
               \/ \E a \in LRemArgs[k] : LRem(k, a[1], a[2])
               \/ \E a \in LTrimArgs[k] : LTrim(k, a[1], a[2])
               \/ \E a \in ZRemArgs[k] : ZRem(k, a)
               \/ Del(k)
            /\ Taint({})
         \/ \E a \in ZAddArgs[k] :
               ZAdd(k, a) /\ Taint(IF \E i \in DOMAIN a : a[i][2] = NaN THEN {k} ELSE {})
         \/ HScanBegin(k)
    \/ HScan \/ HScanForget

OSpec == OInit /\ [][ONext]_ovars

-----------------------------------------------------------------------------
(***************************************************************************)
(* Properties.                                                             *)
(***************************************************************************)
\* Types; in particular no command leaves an empty object behind, nfields is
\* the number of fields, and no sorted set outgrows its size bar.
OTypeOK ==
    /\ tainted \subseteq Keys
    /\ \A k \in Linked(store) :
         LET e == store[k]
         IN  /\ e.type \in {"hash", "list", "zset"}
             /\ ~IsEmpty(e)
             /\ e.nfields = Cardinality(Nodes(e))
             /\ Len(e.arr) <= MaxMembers

\* An HSCAN that has come to its end has returned every field that was in the
\* hash all the time, however often the table doubled in between.
HScanComplete == scan.done => scan.owed \subseteq scan.seen

\* The objects as their users see them.
Value(e) ==
    CASE e.type = "hash" ->
           [type |-> "hash", list |-> <<>>,
            map |-> [f \in FieldsOf(e) |->
                       (CHOOSE r \in Nodes(e) : r.field = f).val]]
      [] e.type = "zset" ->
           [type |-> "zset", list |-> <<>>,
            map |-> [m \in MembersOf(e) |->
                       (CHOOSE z \in Range(e.arr) : z.member = m).score]]
      [] OTHER -> [type |-> e.type, list |-> e.list, map |-> [x \in {} |-> 0]]

\* The places of s from start to stop, counted from the end if negative.
Places(s, start, stop) ==
    LET Place(n) == IF n < 0 THEN Len(s) + n + 1 ELSE n + 1
    IN  {i \in DOMAIN s : Place(start) <= i /\ i <= Place(stop)}

\* Indices on both sides of either end of a sorted set, or a list as long.
Ends == -(MaxMembers + 1)..(MaxMembers + 1)

\* A set of members with their scores, sorted by score and name.
Sorted(M) ==
    LET Nth(i) == CHOOSE x \in M : Cardinality({y \in M : Before(y, x)}) = i - 1
    IN  [i \in 1..Cardinality(M) |-> Nth(i)]

\* The elements of s with a score from min to max that LIMIT off cnt asks for,
\* of those ZRANGEBYSCORE looks at.
Asked(s, min, max, off, cnt) ==
    LET within == {i \in DOMAIN s : min <= s[i].score /\ s[i].score <= max}
        Nth(i) == Cardinality({j \in within : j < i})
        asked == {i \in within : /\ off <= Nth(i) /\ Nth(i) < RangeCap
                                 /\ cnt < 0 \/ Nth(i) < off + cnt}
    IN  {s[i] : i \in asked}

\* Every read answers for the abstract value: HGET and HGETALL for the function
\* the hash stands for, with as many pairs as the header announces; LINDEX and
\* LRANGE for the sequence; and, as long as no score was NaN, ZRANGE and
\* ZRANGEBYSCORE for the members sorted by score and name, the latter page by
\* page within its first RangeCap matches.
ReadsTellTruth ==
    \A k \in Keys :
        LET e == store[k]
            v == Value(e)
            sorted == Sorted({[member |-> m, score |-> v.map[m]] : m \in DOMAIN v.map})
        IN  /\ v.type = "hash" =>
                 /\ \A f \in Fields : HGet(e, f) = IF f \in DOMAIN v.map THEN v.map[f] ELSE Nil
                 /\ HGetAll(e).announced = Cardinality(HGetAll(e).sent)
                 /\ HGetAll(e).sent = {[field |-> f, val |-> v.map[f]] : f \in DOMAIN v.map}
            /\ v.type = "list" => \A i, j \in Ends :
                 /\ RangeOf(e.list, i, j) = Picked(v.list, Places(v.list, i, j))
                 /\ IF Places(v.list, i, i) = {} THEN LIndex(e, i) = Nil
                    ELSE <<LIndex(e, i)>> = Picked(v.list, Places(v.list, i, i))
            /\ v.type = "zset" /\ k \notin tainted =>
                 /\ \A i, j \in Ends : RangeOf(e.arr, i, j) = Picked(sorted, Places(sorted, i, j))
                 /\ \A min, max \in Scores, off \in 0..MaxMembers, cnt \in Ends :
                       Range(ZRangeByScore(e, min, max, off, cnt)) =
                           Asked(sorted, min, max, off, cnt)

Store == INSTANCE TypedStore WITH values <- [k \in Keys |-> Value(store[k])]

\* Every command on a hash, a list or a sorted set does to its key what the
\* abstract store says, to other keys nothing but eviction, and the reply tells
\* the truth, unless the command's own key was evicted in the same step.
ImplementsTypedStore == Store!Spec
=============================================================================
