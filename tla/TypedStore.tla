----------------------------- MODULE TypedStore -----------------------------
(***************************************************************************)
(* What the commands on hashes, lists and sorted sets promise: a hash is a *)
(* function from fields to values, a list a sequence, a sorted set a       *)
(* function from members to scores; an emptied object is gone; the reply   *)
(* tells what the command did.                                             *)
(*                                                                         *)
(* No buckets, no arrays, no bytes.  Being a cache, the store may lose     *)
(* keys in any step; the reply to a command whose own key is lost in the   *)
(* step promises nothing.                                                  *)
(***************************************************************************)
EXTENDS Integers, Sequences, FiniteSets, SequencesExt

CONSTANTS
    Keys,       \* key names
    MaxMembers, \* size bar of a sorted set
    Text,       \* values that are no integers
    Err, Ok, Nil, \* replies: any error, the status OK, no value
    HSetArgs, HDelArgs, HIncrByArgs, PushArgs, LRemArgs, LTrimArgs,
    ZAddArgs, ZRemArgs \* what the commands are called with, by key

VARIABLES
    values,     \* of each key: [type, map, list]
    reply

tvars == <<values, reply>>

NoMap == [x \in {} |-> 0]
None == [type |-> "none", map |-> NoMap, list |-> <<>>]
Hash(f) == IF DOMAIN f = {} THEN None ELSE [type |-> "hash", map |-> f, list |-> <<>>]
ZSet(f) == IF DOMAIN f = {} THEN None ELSE [type |-> "zset", map |-> f, list |-> <<>>]
List(s) == IF s = <<>> THEN None ELSE [type |-> "list", map |-> NoMap, list |-> s]

\* f with x at a, for the last of the pairs <<a, x>> that names a.
Updated(f, pairs) ==
    LET after[i \in 0..Len(pairs)] ==
            IF i = 0 THEN f
            ELSE [a \in DOMAIN after[i - 1] \cup {pairs[i][1]} |->
                     IF a = pairs[i][1] THEN pairs[i][2] ELSE after[i - 1][a]]
    IN  after[Len(pairs)]

Without(f, names) == [a \in DOMAIN f \ names |-> f[a]]

\* Key k becomes v and the reply is r, except for what the cache loses.
Becomes(k, v, r) ==
    /\ \/ reply' = r /\ values'[k] = v
       \/ values'[k] = None
    /\ \A j \in Keys \ {k} : values'[j] \in {values[j], None}

\* A reply of error: only if the command may be refused, and then nothing is
\* written.
Refuse(k) == Becomes(k, values[k], Err)

Holds(k, type) == values[k].type \in {type, "none"}
Wrong(k, type) == ~Holds(k, type) /\ Refuse(k)

HSet(k, pairs) ==
    \/ Wrong(k, "hash")
    \/ /\ Holds(k, "hash")
       /\ LET f == Updated(values[k].map, pairs)
          IN  Becomes(k, Hash(f), Cardinality(DOMAIN f \ DOMAIN values[k].map))

HDel(k, fields) ==
    \/ Wrong(k, "hash")
    \/ /\ Holds(k, "hash")
       /\ LET f == Without(values[k].map, ToSet(fields))
          IN  Becomes(k, Hash(f), Cardinality(DOMAIN values[k].map \ DOMAIN f))

HIncrBy(k, f, n) ==
    \/ Wrong(k, "hash")
    \/ /\ Holds(k, "hash")
       /\ LET map == values[k].map
              old == IF f \in DOMAIN map THEN map[f] ELSE 0
          IN  IF old \in Text THEN Refuse(k)
              ELSE Becomes(k, Hash(Updated(map, <<<<f, old + n>>>>)), old + n)

Push(k, left, vals) ==
    \/ Wrong(k, "list")
    \/ /\ Holds(k, "list")
       /\ LET l == values[k].list
              s == IF left THEN Reverse(vals) \o l ELSE l \o vals
          IN  Becomes(k, List(s), Len(s))

Pop(k, left) ==
    \/ Wrong(k, "list")
    \/ /\ Holds(k, "list")
       /\ LET l == values[k].list
          IN  IF l = <<>> THEN Becomes(k, values[k], Nil)
              ELSE IF left THEN Becomes(k, List(Tail(l)), Head(l))
              ELSE Becomes(k, List(Front(l)), Last(l))

\* The elements at the given places, in their order.
At(l, places) ==
    LET Nth(i) == CHOOSE p \in places : Cardinality({q \in places : q < p}) = i - 1
    IN  [i \in 1..Cardinality(places) |-> l[Nth(i)]]

\* LREM takes the first n occurrences, from the tail for a negative count,
\* all of them for zero.
LRem(k, count, v) ==
    \/ Wrong(k, "list")
    \/ /\ Holds(k, "list")
       /\ LET l == values[k].list
              hits == {i \in DOMAIN l : l[i] = v}
              gone == {i \in hits :
                  LET sooner == {j \in hits : IF count > 0 THEN j < i ELSE j > i}
                  IN  count = 0 \/ Cardinality(sooner) < (IF count < 0 THEN -count ELSE count)}
          IN  Becomes(k, List(At(l, DOMAIN l \ gone)), Cardinality(gone))

\* LTRIM keeps what lies between the two ends, each counted from the head, or
\* from the tail if it is negative.
LTrim(k, start, stop) ==
    \/ Wrong(k, "list")
    \/ /\ Holds(k, "list")
       /\ LET l == values[k].list
              Place(n) == IF n < 0 THEN Len(l) + n + 1 ELSE n + 1
              kept == {i \in DOMAIN l : Place(start) <= i /\ i <= Place(stop)}
          IN  Becomes(k, List(At(l, kept)), Ok)

ZAdd(k, pairs) ==
    \/ Wrong(k, "zset")
    \/ /\ Holds(k, "zset")
       /\ LET old == values[k].map
              f == Updated(old, pairs)
              news == {i \in DOMAIN pairs : pairs[i][1] \notin DOMAIN old}
          IN  \/ Becomes(k, ZSet(f), Cardinality(DOMAIN f \ DOMAIN old))
              \/ /\ news # {} /\ Cardinality(DOMAIN old) + Cardinality(news) > MaxMembers
                 /\ Refuse(k)

ZRem(k, members) ==
    \/ Wrong(k, "zset")
    \/ /\ Holds(k, "zset")
       /\ LET f == Without(values[k].map, ToSet(members))
          IN  Becomes(k, ZSet(f), Cardinality(DOMAIN values[k].map \ DOMAIN f))

\* Deletion, expiry, eviction at a changed limit.
Lose ==
    /\ \A j \in Keys : values'[j] \in {values[j], None}
    /\ UNCHANGED reply

Init == values = [k \in Keys |-> None] /\ reply = Nil

Next ==
    \/ \E k \in Keys :
         \/ \E a \in HSetArgs[k] : HSet(k, a)
         \/ \E a \in HDelArgs[k] : HDel(k, a)
         \/ \E a \in HIncrByArgs[k] : HIncrBy(k, a[1], a[2])
         \/ \E a \in PushArgs[k], left \in BOOLEAN : Push(k, left, a)
         \/ \E left \in BOOLEAN : Pop(k, left)
         \/ \E a \in LRemArgs[k] : LRem(k, a[1], a[2])
         \/ \E a \in LTrimArgs[k] : LTrim(k, a[1], a[2])
         \/ \E a \in ZAddArgs[k] : ZAdd(k, a)
         \/ \E a \in ZRemArgs[k] : ZRem(k, a)
    \/ Lose

Spec == Init /\ [][Next]_tvars
===============================================================================
