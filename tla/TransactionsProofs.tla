-------------------------- MODULE TransactionsProofs --------------------------
(***************************************************************************)
(* TLAPS proofs about Transactions, for any number of keys, connections,   *)
(* queued commands and any set of commands over the five operations, and   *)
(* about the clients of CasClients that race on one key.                   *)
(***************************************************************************)
EXTENDS CasClients, KeyspaceProofs

-----------------------------------------------------------------------------
(* The recursive functions that run a queue obey their equations.          *)

RunStep(c, q, n, g) ==
    g = [i \in 0..n |->
            IF i = 0 THEN {c} ELSE UNION {Effects(d, q[i]) : d \in g[i - 1]}]

LEMMA RunExists ==
    ASSUME NEW c, NEW q, NEW n \in Nat
    PROVE  \E g : RunStep(c, q, n, g)
<1> DEFINE T == {m \in Nat : \E g : RunStep(c, q, m, g)}
<1>1. 0 \in T
  <2> DEFINE g == [i \in 0..0 |-> {c}]
  <2>1. RunStep(c, q, 0, g)
    BY DEF RunStep
  <2> QED BY <2>1
<1>2. ASSUME NEW m \in T PROVE m + 1 \in T
  <2>1. PICK g : RunStep(c, q, m, g)
    OBVIOUS
  <2> DEFINE next == UNION {Effects(d, q[m + 1]) : d \in g[m]}
             h == [i \in 0..(m + 1) |-> IF i = m + 1 THEN next ELSE g[i]]
  <2>2. \A i \in 0..m : g[i] = IF i = 0 THEN {c}
                               ELSE UNION {Effects(d, q[i]) : d \in g[i - 1]}
    BY <2>1 DEF RunStep
  <2>3. ASSUME NEW i \in 0..(m + 1)
        PROVE  h[i] = IF i = 0 THEN {c}
                      ELSE UNION {Effects(d, q[i]) : d \in h[i - 1]}
    <3>1. CASE i = m + 1
      <4>1. i # 0 /\ i - 1 = m /\ m \in 0..(m + 1) /\ m # m + 1 /\ m + 1 \in 0..(m + 1)
        BY <3>1
      <4>2. h[i - 1] = g[m] /\ h[i] = next
        BY <3>1, <4>1
      <4> QED BY <3>1, <4>1, <4>2
    <3>2. CASE i # m + 1
      <4>1. i \in 0..m /\ h[i] = g[i]
        BY <3>2
      <4>2. CASE i = 0
        BY <2>2, <4>1, <4>2
      <4>3. CASE i # 0
        <5>1. i - 1 \in 0..(m + 1) /\ i - 1 # m + 1
          BY <4>1, <4>3
        <5>2. h[i - 1] = g[i - 1]
          BY <5>1
        <5> HIDE DEF h
        <5> QED BY <2>2, <4>1, <4>3, <5>2
      <4> QED BY <4>2, <4>3
    <3> QED BY <3>1, <3>2
  <2>4. h = [i \in 0..(m + 1) |-> h[i]]
    OBVIOUS
  <2> HIDE DEF h
  <2>5. RunStep(c, q, m + 1, h)
    BY <2>3, <2>4 DEF RunStep
  <2> QED BY <2>5
<1> HIDE DEF T
<1>3. T = Nat
  BY <1>1, <1>2, NatInduct DEF T
<1> QED BY <1>3 DEF T

LEMMA RunValue ==
    ASSUME NEW c, NEW q, Len(q) \in Nat
    PROVE  \E g : RunStep(c, q, Len(q), g) /\ RunQueue(c, q) = g[Len(q)]
<1> DEFINE g == CHOOSE g : RunStep(c, q, Len(q), g)
<1>1. RunStep(c, q, Len(q), g)
  BY RunExists
<1>2. RunQueue(c, q) = g[Len(q)]
  BY DEF RunQueue, RunStep
<1> QED BY <1>1, <1>2

\* The same for the abstract store.
AfterStep(s, q, n, g) ==
    g = [i \in 0..n |-> IF i = 0 THEN s ELSE Abstract!Result(g[i - 1], q[i])]

LEMMA AfterExists ==
    ASSUME NEW s, NEW q, NEW n \in Nat
    PROVE  \E g : AfterStep(s, q, n, g)
<1> DEFINE T == {m \in Nat : \E g : AfterStep(s, q, m, g)}
<1>1. 0 \in T
  <2> DEFINE g == [i \in 0..0 |-> s]
  <2>1. AfterStep(s, q, 0, g)
    BY DEF AfterStep
  <2> QED BY <2>1
<1>2. ASSUME NEW m \in T PROVE m + 1 \in T
  <2>1. PICK g : AfterStep(s, q, m, g)
    OBVIOUS
  <2> DEFINE next == Abstract!Result(g[m], q[m + 1])
             h == [i \in 0..(m + 1) |-> IF i = m + 1 THEN next ELSE g[i]]
  <2>2. \A i \in 0..m : g[i] = IF i = 0 THEN s ELSE Abstract!Result(g[i - 1], q[i])
    BY <2>1 DEF AfterStep
  <2>3. ASSUME NEW i \in 0..(m + 1)
        PROVE  h[i] = IF i = 0 THEN s ELSE Abstract!Result(h[i - 1], q[i])
    <3>1. CASE i = m + 1
      <4>1. i # 0 /\ i - 1 = m /\ m \in 0..(m + 1) /\ m # m + 1 /\ m + 1 \in 0..(m + 1)
        BY <3>1
      <4>2. h[i - 1] = g[m] /\ h[i] = next
        BY <3>1, <4>1
      <4> QED BY <3>1, <4>1, <4>2
    <3>2. CASE i # m + 1
      <4>1. i \in 0..m /\ h[i] = g[i]
        BY <3>2
      <4>2. CASE i = 0
        BY <2>2, <4>1, <4>2
      <4>3. CASE i # 0
        <5>1. i - 1 \in 0..(m + 1) /\ i - 1 # m + 1
          BY <4>1, <4>3
        <5>2. h[i - 1] = g[i - 1]
          BY <5>1
        <5> HIDE DEF h
        <5> QED BY <2>2, <4>1, <4>3, <5>2
      <4> QED BY <4>2, <4>3
    <3> QED BY <3>1, <3>2
  <2>4. h = [i \in 0..(m + 1) |-> h[i]]
    OBVIOUS
  <2> HIDE DEF h
  <2>5. AfterStep(s, q, m + 1, h)
    BY <2>3, <2>4 DEF AfterStep
  <2> QED BY <2>5
<1> HIDE DEF T
<1>3. T = Nat
  BY <1>1, <1>2, NatInduct DEF T
<1> QED BY <1>3 DEF T

LEMMA AfterValue ==
    ASSUME NEW s, NEW q, Len(q) \in Nat
    PROVE  \E g : AfterStep(s, q, Len(q), g) /\ Abstract!Results(s, q) = g[Len(q)]
<1> DEFINE g == CHOOSE g : AfterStep(s, q, Len(q), g)
<1>1. AfterStep(s, q, Len(q), g)
  BY AfterExists
<1>2. Abstract!Results(s, q) = g[Len(q)]
  BY DEF Abstract!Results, AfterStep
<1> QED BY <1>1, <1>2

-----------------------------------------------------------------------------
(* What a command does, seen by clients: what the abstract store says,     *)
(* possibly with keys lost; and the watchers of every change are told.     *)

\* Nothing is left under a name that is not linked.
Blank(c) == \A k \in Keys \ Linked(c) : Gone(c, k)

View(c) == [k \in Keys |-> Observable(c, k)]

\* The clients see s, some of its keys lost.
Became(s, d) ==
    \A k \in Keys : Observable(d, k) = s[k] \/ Observable(d, k) = Abstract!Absent

LEMMA GoneAbsent ==
    ASSUME NEW d, NEW k, Gone(d, k)
    PROVE  Observable(d, k) = Abstract!Absent
<1>1. (k \in Linked(d)) = FALSE
  BY DEF Gone
<1> QED BY <1>1 DEF Gone, Observable, Abstract!Absent

LEMMA StoredSeen ==
    ASSUME NEW d, NEW k, NEW p, NEW t, Stored(d, k, p, t)
    PROVE  Observable(d, k) = <<TRUE, p, "string", t>>
<1>1. (k \in Linked(d)) = TRUE
  BY DEF Stored
<1> QED BY <1>1 DEF Stored, Observable

LEMMA LosesOutcome ==
    ASSUME NEW c, NEW d, Loses(c, d), Blank(c)
    PROVE  Blank(d) /\ Tells(c, d) /\ Became(View(c), d)
<1>1. Blank(d)
  BY DEF Loses, Blank, Same, Gone
<1>2. Tells(c, d)
  BY LosesTells
<1>3. ASSUME NEW k \in Keys
      PROVE  Observable(d, k) = View(c)[k] \/ Observable(d, k) = Abstract!Absent
  <2>1. View(c)[k] = Observable(c, k)
    BY DEF View
  <2> QED BY <2>1, SameObservable, GoneAbsent DEF Loses
<1> QED BY <1>1, <1>2, <1>3 DEF Became

LEMMA EffectsOutcome ==
    ASSUME NEW c, Consistent(c), Blank(c), now \in Nat, NEW cmd \in Cmds,
           NEW d \in Effects(c, cmd)
    PROVE  /\ Consistent(d) /\ Blank(d) /\ Tells(c, d)
           /\ Became(Abstract!Result(View(c), cmd), d)
<1> DEFINE k == cmd.key
           r == Abstract!Result(View(c), cmd)
<1>1. cmd.op \in Ops /\ k \in Keys /\ cmd.arg \in Nat /\ c \in CoreType
  BY ConnsAssumption DEF Consistent
<1>2. ASSUME NEW t \in Nat, d \in EntrySetEx(c, k, cmd.arg, t),
             r = [View(c) EXCEPT ![k] = <<TRUE, cmd.arg, "string", t>>]
      PROVE  Consistent(d) /\ Blank(d) /\ Tells(c, d) /\ Became(r, d)
  <2> HIDE DEF r, k
  <2>1. /\ Stored(d, k, cmd.arg, t) \/ Gone(d, k)
        /\ \A j \in Keys \ {k} : Same(c, d, j) \/ (Gone(d, j) /\ j \in d.touched)
    BY <1>1, <1>2, EntrySetOutcome
  <2>2. Consistent(d) /\ Tells(c, d)
    BY <1>1, <1>2, EntrySetConsistent, EntrySetTells
  <2>3. Blank(d)
    BY <1>1, <2>1 DEF Blank, Same, Gone, Stored
  <2>4. ASSUME NEW j \in Keys
        PROVE  Observable(d, j) = r[j] \/ Observable(d, j) = Abstract!Absent
    <3>1. CASE j = k
      <4>1. r[j] = <<TRUE, cmd.arg, "string", t>>
        BY <1>1, <1>2, <3>1 DEF View
      <4>2. Stored(d, k, cmd.arg, t) => Observable(d, k) = <<TRUE, cmd.arg, "string", t>>
        BY StoredSeen
      <4>3. Gone(d, k) => Observable(d, k) = Abstract!Absent
        BY GoneAbsent
      <4> QED BY <2>1, <3>1, <4>1, <4>2, <4>3
    <3>2. CASE j # k
      <4>1. r[j] = Observable(c, j)
        BY <1>1, <1>2, <3>2 DEF View
      <4> QED BY <2>1, <3>2, <4>1, SameObservable, GoneAbsent
    <3> QED BY <3>1, <3>2
  <2>5. Became(r, d)
    BY <2>4 DEF Became
  <2> QED BY <2>2, <2>3, <2>5
<1>3. CASE cmd.op = "set"
  <2>1. d \in EntrySetEx(c, k, cmd.arg, 0)
    BY <1>3 DEF Effects
  <2>2. r = [View(c) EXCEPT ![k] = <<TRUE, cmd.arg, "string", 0>>]
    BY <1>3 DEF Abstract!Result, Abstract!Value
  <2> QED BY <1>2, <2>1, <2>2
<1>4. CASE cmd.op = "setex"
  <2>1. d \in EntrySetEx(c, k, cmd.arg, now + 1)
    BY <1>4 DEF Effects
  <2>2. r = [View(c) EXCEPT ![k] = <<TRUE, cmd.arg, "string", now + 1>>]
    BY <1>4 DEF Abstract!Result, Abstract!Value
  <2>3. now + 1 \in Nat
    OBVIOUS
  <2> QED BY <1>2, <2>1, <2>2, <2>3
<1>5. CASE cmd.op = "get"
  <2>1. d \in GetPtr(c, k)
    BY <1>5 DEF Effects
  <2>2. r = View(c)
    BY <1>5 DEF Abstract!Result
  <2>3. Consistent(d) /\ Loses(c, d)
    BY <1>1, <2>1, GetPtrConsistent, GetPtrLoses
  <2> QED BY <2>2, <2>3, LosesOutcome
<1>6. CASE cmd.op = "del"
  <2>1. d = DelBin(c, k)
    BY <1>6 DEF Effects
  <2>2. r = [View(c) EXCEPT ![k] = Abstract!Absent]
    BY <1>6 DEF Abstract!Result, Abstract!Value
  <2> HIDE DEF r, k
  <2>3. Consistent(d) /\ Loses(c, d) /\ k \notin Linked(d)
    BY <1>1, <2>1, DelConsistent, DelLoses
  <2>4. Blank(d) /\ Tells(c, d) /\ Became(View(c), d)
    BY <2>3, LosesOutcome
  <2>5. Observable(d, k) = Abstract!Absent
    BY <1>1, <2>3, <2>4, GoneAbsent DEF Blank
  <2>6. \A j \in Keys \ {k} : r[j] = View(c)[j]
    BY <2>2 DEF View
  <2>7. Became(r, d)
    BY <2>4, <2>5, <2>6 DEF Became
  <2> QED BY <2>3, <2>4, <2>7 DEF r
<1>7. CASE cmd.op = "flushdb"
  <2>1. d = FlushDb(c)
    BY <1>7 DEF Effects
  <2>2. Consistent(d) /\ Tells(c, d) /\ \A j \in Keys : Gone(d, j)
    BY <1>1, <2>1, FlushConsistent, FlushTells
  <2> QED BY <2>2, GoneAbsent DEF Blank, Became
<1> QED BY <1>1, <1>3, <1>4, <1>5, <1>6, <1>7 DEF Ops

\* Keys lost before a command are keys lost after it.
IsStore(s) == s = [k \in Keys |-> s[k]]

LEMMA ResultOfLess ==
    ASSUME NEW s, IsStore(s), NEW b, NEW d, NEW cmd \in Cmds, Became(s, b),
           Became(Abstract!Result(View(b), cmd), d)
    PROVE  IsStore(Abstract!Result(s, cmd)) /\ Became(Abstract!Result(s, cmd), d)
<1> DEFINE v == Abstract!Value(cmd)
           none == [k \in Keys |-> Abstract!Absent]
<1>1. cmd.key \in Keys
  BY ConnsAssumption
<1>2. View(b) = [k \in Keys |-> Observable(b, k)]
  BY DEF View
<1>3. CASE cmd.op = "get"
  <2>1. Abstract!Result(s, cmd) = s /\ Abstract!Result(View(b), cmd) = View(b)
    BY <1>3 DEF Abstract!Result
  <2> QED BY <1>2, <2>1 DEF Became
<1>4. CASE cmd.op = "flushdb"
  <2>1. Abstract!Result(s, cmd) = none /\ Abstract!Result(View(b), cmd) = none
    BY <1>4 DEF Abstract!Result
  <2>2. IsStore(none)
    BY DEF IsStore
  <2> QED BY <2>1, <2>2
<1>5. CASE cmd.op # "get" /\ cmd.op # "flushdb"
  <2>1. /\ Abstract!Result(s, cmd) = [s EXCEPT ![cmd.key] = v]
        /\ Abstract!Result(View(b), cmd) = [View(b) EXCEPT ![cmd.key] = v]
    BY <1>5 DEF Abstract!Result
  <2> HIDE DEF v
  <2>2. /\ IsStore([s EXCEPT ![cmd.key] = v])
        /\ \A k \in Keys : [s EXCEPT ![cmd.key] = v][k] = IF k = cmd.key THEN v ELSE s[k]
    BY DEF IsStore
  <2>3. \A k \in Keys : [View(b) EXCEPT ![cmd.key] = v][k]
                           = IF k = cmd.key THEN v ELSE Observable(b, k)
    BY <1>2
  <2> QED BY <2>1, <2>2, <2>3 DEF Became
<1> QED BY <1>3, <1>4, <1>5

\* One command after another, whatever each of them loses.
LEMMA QueueOutcome ==
    ASSUME NEW c, Consistent(c), Blank(c), now \in Nat, NEW q \in Seq(Cmds),
           NEW d \in RunQueue(c, q)
    PROVE  /\ Consistent(d) /\ Blank(d) /\ Tells(c, d)
           /\ Became(Abstract!Results(View(c), q), d)
<1> DEFINE n == Len(q)
<1>1. n \in Nat /\ \A i \in 1..n : q[i] \in Cmds
  OBVIOUS
<1>2. PICK g : RunStep(c, q, n, g) /\ RunQueue(c, q) = g[n]
  BY <1>1, RunValue
<1>3. PICK a : AfterStep(View(c), q, n, a) /\ Abstract!Results(View(c), q) = a[n]
  BY <1>1, AfterValue
<1> HIDE DEF n
<1> DEFINE Good(i, e) == /\ Consistent(e) /\ Blank(e) /\ Tells(c, e)
                         /\ IsStore(a[i]) /\ Became(a[i], e)
           T == {i \in Nat : i \in 0..n => \A e \in g[i] : Good(i, e)}
<1>4. g[0] = {c} /\ a[0] = View(c)
  <2>1. 0 \in 0..n
    BY <1>1
  <2> QED BY <1>2, <1>3, <2>1 DEF RunStep, AfterStep
<1>5. ASSUME NEW i \in Nat, i + 1 \in 0..n
       PROVE  /\ g[i + 1] = UNION {Effects(e, q[i + 1]) : e \in g[i]}
              /\ a[i + 1] = Abstract!Result(a[i], q[i + 1])
  <2>1. i + 1 # 0 /\ (i + 1) - 1 = i
    BY <1>5
  <2>2. g[i + 1] = UNION {Effects(e, q[i + 1]) : e \in g[(i + 1) - 1]}
    BY <1>2, <1>5, <2>1 DEF RunStep
  <2>3. a[i + 1] = Abstract!Result(a[(i + 1) - 1], q[i + 1])
    BY <1>3, <1>5, <2>1 DEF AfterStep
  <2> QED BY <2>1, <2>2, <2>3
<1>6. 0 \in T
  <2>1. Good(0, c)
    BY <1>4, NothingLost, LosesOutcome DEF IsStore, View
  <2>2. g[0] = {c}
    BY <1>4
  <2> HIDE DEF Good
  <2> QED BY <2>1, <2>2
<1>7. ASSUME NEW i \in T PROVE i + 1 \in T
  <2> SUFFICES ASSUME i + 1 \in 0..n, NEW e \in g[i + 1] PROVE Good(i + 1, e)
    OBVIOUS
  <2>1. i \in Nat /\ i \in 0..n /\ i + 1 \in 1..n
    BY <1>1
  <2>2. PICK b \in g[i] : e \in Effects(b, q[i + 1])
    BY <1>5, <2>1
  <2>3. Good(i, b)
    BY <2>1
  <2>4. q[i + 1] \in Cmds /\ a[i + 1] = Abstract!Result(a[i], q[i + 1])
    BY <1>1, <1>5, <2>1
  <2>5. /\ Consistent(e) /\ Blank(e) /\ Tells(b, e)
        /\ Became(Abstract!Result(View(b), q[i + 1]), e)
    BY <2>2, <2>3, <2>4, EffectsOutcome
  <2>6. Tells(c, e)
    BY <2>3, <2>5, TellsChain
  <2>7. IsStore(a[i + 1]) /\ Became(a[i + 1], e)
    BY <2>1, <2>3, <2>4, <2>5, ResultOfLess
  <2> QED BY <2>5, <2>6, <2>7
<1> HIDE DEF T, Good
<1>8. T = Nat
  BY <1>6, <1>7, NatInduct DEF T
<1>9. n \in T /\ n \in 0..n
  BY <1>1, <1>8
<1>10. Good(n, d)
  BY <1>2, <1>9 DEF T
<1> QED BY <1>3, <1>10 DEF Good

-----------------------------------------------------------------------------
(* The inductive invariant.                                                *)

SeenType == {<<>>} \cup (BOOLEAN \X Nat \X AllTypes \X Nat)

\* What the server keeps true of a connection slot: a free slot watches and
\* queues nothing, and the dirty flag belongs to a watch.
Tidy(c) ==
    /\ c \in ConnType
    /\ ~ c.in_use => c.watch_keys = {} /\ ~ c.in_multi
    /\ ~ c.in_multi => c.multi_q = <<>>
    /\ c.watch_dirty => c.watch_keys # {}

\* What links a slot c, its history h and the dictionary d.
Faithful(c, h, d) ==
    /\ \A k \in Keys : h[k] # <<>> <=> k \in c.watch_keys
    /\ ~ c.watch_dirty => \A k \in c.watch_keys : Observable(d, k) = h[k]

TInv ==
    /\ Consistent(core) /\ now \in Nat /\ Blank(core)
    /\ conns \in [Conns -> ConnType] /\ seen \in [Conns -> [Keys -> SeenType]]
    /\ \A x \in Conns : Tidy(conns[x]) /\ Faithful(conns[x], seen[x], core)

LEMMA TInvImplies ==
    TInv => TTypeOK /\ CleanWatchUnchanged /\ DirtyOnlyWhileWatching
<1> SUFFICES ASSUME TInv PROVE TTypeOK /\ CleanWatchUnchanged /\ DirtyOnlyWhileWatching
  OBVIOUS
<1>1. TypeOK
  BY DEF TInv, TypeOK, Consistent
<1>2. TTypeOK
  BY <1>1 DEF TInv, TTypeOK, Faithful
<1>3. CleanWatchUnchanged
  BY DEF TInv, CleanWatchUnchanged, Faithful
<1>4. DirtyOnlyWhileWatching
  BY DEF TInv, DirtyOnlyWhileWatching, Tidy
<1> QED BY <1>2, <1>3, <1>4

LEMMA ObservableType ==
    ASSUME NEW c \in CoreType, NEW k \in Keys
    PROVE  Observable(c, k) \in SeenType /\ Observable(c, k) # <<>>
<1>1. (k \in Linked(c)) \in BOOLEAN
  OBVIOUS
<1>2. c.payload[k] \in Nat /\ c.type[k] \in AllTypes /\ c.expire_at[k] \in Nat
  BY DEF CoreType
<1> DEFINE b == k \in Linked(c)
<1>3. Observable(c, k) = <<b, c.payload[k], c.type[k], c.expire_at[k]>>
  BY DEF Observable
<1>4. b \in BOOLEAN
  BY <1>1
<1> HIDE DEF b
<1>5. Observable(c, k) \in BOOLEAN \X Nat \X AllTypes \X Nat
  BY <1>2, <1>3, <1>4
<1>6. Observable(c, k) # <<>>
  BY <1>3
<1> QED BY <1>5, <1>6 DEF SeenType

LEMMA NoConnTidy == Tidy(NoConn) /\ Tidy([NoConn EXCEPT !.in_use = TRUE])
<1>1. <<>> \in UNION {[1..n -> Cmds] : n \in 0..MultiMax}
  <2>1. <<>> \in [1..0 -> Cmds] /\ 0 \in 0..MultiMax
    BY ConnsAssumption
  <2> QED BY <2>1
<1> DEFINE Q == UNION {[1..n -> Cmds] : n \in 0..MultiMax}
<1>2. <<>> \in Q /\ ConnType = [in_use : BOOLEAN, in_multi : BOOLEAN, multi_q : Q,
                                 watch_keys : SUBSET Keys, watch_dirty : BOOLEAN]
  BY <1>1 DEF ConnType
<1> HIDE DEF Q
<1> QED BY <1>2 DEF NoConn, Tidy

\* The queue of a connection is a sequence of commands, and has room.
LEMMA QueueType ==
    ASSUME NEW q \in UNION {[1..n -> Cmds] : n \in 0..MultiMax}
    PROVE  /\ q \in Seq(Cmds) /\ Len(q) \in Nat
           /\ \A cmd \in Cmds : Len(q) < MultiMax =>
                 Append(q, cmd) \in UNION {[1..n -> Cmds] : n \in 0..MultiMax}
<1>1. PICK n \in 0..MultiMax : q \in [1..n -> Cmds]
  OBVIOUS
<1>2. n \in Nat /\ MultiMax \in Nat
  BY ConnsAssumption
<1>3. q \in Seq(Cmds) /\ Len(q) = n
  BY <1>1, <1>2
<1>4. ASSUME NEW cmd \in Cmds, Len(q) < MultiMax
      PROVE  Append(q, cmd) \in UNION {[1..m -> Cmds] : m \in 0..MultiMax}
  <2>1. n + 1 \in 0..MultiMax
    BY <1>2, <1>3, <1>4
  <2>2. Append(q, cmd) \in [1..(n + 1) -> Cmds]
    <3>1. Append(q, cmd) \in Seq(Cmds) /\ Len(Append(q, cmd)) = n + 1
      BY <1>3
    <3>2. \A t \in Seq(Cmds) : t \in [1..Len(t) -> Cmds]
      OBVIOUS
    <3> QED BY <3>1, <3>2
  <2> QED BY <2>1, <2>2
<1> QED BY <1>2, <1>3, <1>4

\* No watch, nothing remembered.
LEMMA NothingSeen ==
    ASSUME NEW c \in ConnType, c.watch_keys = {}, NEW d
    PROVE  Faithful(c, Unseen, d) /\ Unseen \in [Keys -> SeenType]
BY DEF Faithful, Unseen, SeenType

LEMMA PrimeTInv ==
    ASSUME Consistent(core'), now' \in Nat, Blank(core'),
           conns' \in [Conns -> ConnType], seen' \in [Conns -> [Keys -> SeenType]],
           \A x \in Conns : Tidy(conns'[x]) /\ Faithful(conns'[x], seen'[x], core')
    PROVE  TInv'
<1>1. Consistent(core)'
  BY DEF Consistent, CoreType, AllTypes, Linked, HasTtl, OfType
<1>2. Blank(core)'
  BY DEF Blank, Gone, Linked
<1>3. \A x \in Conns : Tidy(conns[x])' /\ Faithful(conns[x], seen[x], core)'
  BY DEF Tidy, Faithful, Observable, Linked, ConnType
<1> QED BY <1>1, <1>2, <1>3 DEF TInv, ConnType, SeenType, AllTypes

\* Starting a command only empties the set of notified keys.
LEMMA FreshView ==
    ASSUME Consistent(core), Blank(core)
    PROVE  /\ Consistent(Fresh) /\ Fresh \in CoreType /\ Blank(Fresh)
           /\ \A k \in Keys : Observable(Fresh, k) = Observable(core, k)
           /\ View(Fresh) = View(core)
<1>1. Consistent(Fresh) /\ Fresh \in CoreType
  BY FreshConsistent DEF Consistent
<1>2. \A k \in Keys : Same(core, Fresh, k)
  BY FreshSame DEF Consistent
<1>3. \A k \in Keys : Observable(Fresh, k) = Observable(core, k)
  BY <1>2, SameObservable
<1>4. Blank(Fresh)
  BY <1>2 DEF Blank, Same, Gone
<1> QED BY <1>1, <1>3, <1>4 DEF View

\* A step that changes one slot and leaves the dictionary as it is.
LEMMA OnlyConnInv ==
    ASSUME TInv, NEW x \in Conns, NEW c, Tidy(c), OnlyConn(x, c),
           \/ c.watch_keys = {}
           \/ /\ c.watch_keys = conns[x].watch_keys
              /\ c.watch_dirty = conns[x].watch_dirty
    PROVE  TInv'
<1>1. /\ Consistent(core) /\ Blank(core) /\ now \in Nat
      /\ conns \in [Conns -> ConnType] /\ seen \in [Conns -> [Keys -> SeenType]]
      /\ \A y \in Conns : Tidy(conns[y]) /\ Faithful(conns[y], seen[y], core)
  BY DEF TInv
<1>2. /\ core' = Fresh /\ now' = now /\ conns' = [conns EXCEPT ![x] = c]
      /\ seen' = IF c.watch_keys = {} THEN [seen EXCEPT ![x] = Unseen] ELSE seen
  BY DEF OnlyConn
<1>3. Consistent(core') /\ Blank(core') /\ now' \in Nat
  BY <1>1, <1>2, FreshView
<1>4. c \in ConnType
  BY DEF Tidy
<1>5. /\ conns' \in [Conns -> ConnType] /\ conns'[x] = c
      /\ \A y \in Conns \ {x} : conns'[y] = conns[y]
  BY <1>1, <1>2, <1>4
<1>6. seen' \in [Conns -> [Keys -> SeenType]] /\ \A y \in Conns \ {x} : seen'[y] = seen[y]
  BY <1>1, <1>2, <1>4, NothingSeen
<1>7. \A y \in Conns : Faithful(conns[y], seen[y], core')
  <2>1. \A y \in Conns : conns[y].watch_keys \subseteq Keys
    BY <1>1 DEF ConnType
  <2> QED BY <1>1, <1>2, <2>1, FreshView DEF Faithful
<1>8. Faithful(c, seen'[x], core')
  <2>1. CASE c.watch_keys = {}
    <3>1. seen'[x] = Unseen
      BY <1>1, <1>2, <2>1
    <3> QED BY <1>4, <2>1, <3>1, NothingSeen
  <2>2. CASE c.watch_keys # {}
    <3>1. seen'[x] = seen[x]
      BY <1>2, <2>2
    <3> QED BY <1>7, <2>2, <3>1 DEF Faithful
  <2> QED BY <2>1, <2>2
<1>9. \A y \in Conns : Tidy(conns'[y]) /\ Faithful(conns'[y], seen'[y], core')
  BY <1>1, <1>5, <1>6, <1>7, <1>8
<1> QED BY <1>3, <1>5, <1>6, <1>9, PrimeTInv

\* A command or a duty of the loop changed the dictionary; ar_watch_touch has
\* marked the watchers of what it changed.
LEMMA NotifyFaithful ==
    ASSUME TInv, NEW d, Tells(Fresh, d), NEW y \in Conns
    PROVE  LET n == Notify(conns, d.touched)[y] IN
           /\ Tidy(n) /\ Faithful(n, seen[y], d)
           /\ n.in_use = conns[y].in_use /\ n.in_multi = conns[y].in_multi
           /\ n.multi_q = conns[y].multi_q /\ n.watch_keys = conns[y].watch_keys
<1> DEFINE o == conns[y]
           hit == o.in_use /\ o.watch_keys \cap d.touched # {}
           n == Notify(conns, d.touched)[y]
<1>1. /\ Tidy(o) /\ Faithful(o, seen[y], core) /\ o \in ConnType
      /\ Consistent(core) /\ Blank(core)
  BY DEF TInv, Tidy
<1>2. n = [o EXCEPT !.watch_dirty = o.watch_dirty \/ hit]
  BY <1>1 DEF Notify, ConnType
<1>3. hit \in BOOLEAN /\ (o.watch_dirty \/ hit) \in BOOLEAN
  BY <1>1 DEF ConnType
<1> DEFINE b == o.watch_dirty \/ hit
<1>4. b \in BOOLEAN /\ n = [o EXCEPT !.watch_dirty = b]
  BY <1>2, <1>3
<1>5. ~ b => ~ o.watch_dirty /\ (o.watch_keys \cap d.touched = {} \/ ~ o.in_use)
  OBVIOUS
<1>6. b => o.watch_dirty \/ o.watch_keys # {}
  OBVIOUS
<1> HIDE DEF n, o, b, hit
<1>7. /\ n \in ConnType /\ n.watch_dirty = b
      /\ n.in_use = o.in_use /\ n.in_multi = o.in_multi
      /\ n.multi_q = o.multi_q /\ n.watch_keys = o.watch_keys
  BY <1>1, <1>4 DEF ConnType
<1>8. Tidy(n)
  BY <1>1, <1>6, <1>7 DEF Tidy
<1>9. ASSUME ~ b, NEW k \in o.watch_keys PROVE Observable(d, k) = seen[y][k]
  <2>1. k \in Keys /\ k \notin d.touched
    BY <1>1, <1>5, <1>9 DEF Tidy, ConnType
  <2>2. Same(Fresh, d, k)
    BY <2>1 DEF Tells
  <2>3. Observable(d, k) = Observable(Fresh, k)
    BY <2>2, SameObservable
  <2>4. Observable(Fresh, k) = Observable(core, k)
    BY <1>1, <2>1, FreshView
  <2>5. Observable(core, k) = seen[y][k]
    BY <1>1, <1>5, <1>9 DEF Faithful
  <2> QED BY <2>3, <2>4, <2>5
<1>10. Faithful(n, seen[y], d)
  BY <1>1, <1>7, <1>9 DEF Faithful
<1> QED BY <1>7, <1>8, <1>10 DEF n, o

LEMMA CommitInv ==
    ASSUME TInv, NEW x \in Conns, NEW c,
           Consistent(core'), Blank(core'), Tells(Fresh, core'), now' \in Nat,
           conns' = [Notify(conns, core'.touched) EXCEPT ![x] = c],
           seen' = IF c.watch_keys = {} THEN [seen EXCEPT ![x] = Unseen] ELSE seen,
           c = Notify(conns, core'.touched)[x] \/ (Tidy(c) /\ c.watch_keys = {})
    PROVE  TInv'
<1> DEFINE n == Notify(conns, core'.touched)
<1>1. /\ n = [y \in Conns |-> n[y]]
      /\ seen \in [Conns -> [Keys -> SeenType]]
  BY DEF Notify, TInv
<1>2. \A y \in Conns : Tidy(n[y]) /\ Faithful(n[y], seen[y], core')
  BY NotifyFaithful
<1> HIDE DEF n
<1>3. Tidy(c) /\ c \in ConnType
  BY <1>2 DEF n, Tidy
<1>4. /\ conns' \in [Conns -> ConnType] /\ conns'[x] = c
      /\ \A y \in Conns \ {x} : conns'[y] = n[y]
  BY <1>1, <1>2, <1>3 DEF n, Tidy
<1>5. seen' \in [Conns -> [Keys -> SeenType]] /\ \A y \in Conns \ {x} : seen'[y] = seen[y]
  BY <1>1, <1>3, NothingSeen
<1>6. Faithful(c, seen'[x], core')
  <2>1. CASE c.watch_keys = {}
    <3>1. seen'[x] = Unseen
      BY <1>1, <2>1
    <3> QED BY <1>3, <2>1, <3>1, NothingSeen
  <2>2. CASE c.watch_keys # {}
    BY <1>2, <2>2 DEF n
  <2> QED BY <2>1, <2>2
<1>7. \A y \in Conns : Tidy(conns'[y]) /\ Faithful(conns'[y], seen'[y], core')
  BY <1>2, <1>3, <1>4, <1>5, <1>6
<1> QED BY <1>4, <1>5, <1>7, PrimeTInv

\* The actions that run commands, as CommitInv takes them.
LEMMA RunNowFacts ==
    ASSUME TInv, NEW x \in Conns, NEW cmd \in Cmds, RunNow(x, cmd)
    PROVE  /\ core' \in Effects(Fresh, cmd) /\ now' = now
           /\ conns' = Notify(conns, core'.touched)
           /\ conns' = [Notify(conns, core'.touched) EXCEPT
                           ![x] = Notify(conns, core'.touched)[x]]
           /\ seen' = IF conns'[x].watch_keys = {} THEN [seen EXCEPT ![x] = Unseen]
                      ELSE seen
           /\ ~ conns[x].in_multi
<1>1. /\ core' \in Effects(Fresh, cmd) /\ now' = now
      /\ conns' = [Notify(conns, core'.touched) EXCEPT
                      ![x] = Notify(conns, core'.touched)[x]]
      /\ seen' = IF conns'[x].watch_keys = {} THEN [seen EXCEPT ![x] = Unseen]
                 ELSE seen
      /\ ~ conns[x].in_multi
  BY DEF RunNow, Commit, Step
<1>2. conns' = Notify(conns, core'.touched)
  BY <1>1 DEF Notify
<1> QED BY <1>1, <1>2

LEMMA ClearTidy ==
    ASSUME NEW c, Tidy(c)
    PROVE  /\ Tidy(WatchClear(c)) /\ WatchClear(c).watch_keys = {}
           /\ Tidy(WatchClear(MultiClear(c))) /\ WatchClear(MultiClear(c)).watch_keys = {}
           /\ ~ WatchClear(MultiClear(c)).in_multi
           /\ WatchClear(MultiClear(c)).multi_q = <<>>
           /\ WatchClear(c).in_multi = c.in_multi /\ WatchClear(c).multi_q = c.multi_q
<1> DEFINE Q == UNION {[1..n -> Cmds] : n \in 0..MultiMax}
<1>1. <<>> \in Q
  BY NoConnTidy DEF Tidy, NoConn, ConnType
<1>2. ConnType = [in_use : BOOLEAN, in_multi : BOOLEAN, multi_q : Q,
                  watch_keys : SUBSET Keys, watch_dirty : BOOLEAN]
  BY DEF ConnType
<1> HIDE DEF Q
<1> QED BY <1>1, <1>2 DEF Tidy, WatchClear, MultiClear

\* EXEC, whole (n is the length of the queue) or broken off after n commands.
LEMMA ExecFacts ==
    ASSUME TInv, NEW x \in Conns, ExecRun(x) \/ ExecBroken(x)
    PROVE  \E n \in 0..Len(conns[x].multi_q), c \in ConnType :
              /\ core' \in RunQueue(Fresh, SubSeq(conns[x].multi_q, 1, n)) /\ now' = now
              /\ conns' = [Notify(conns, core'.touched) EXCEPT ![x] = c]
              /\ seen' = IF c.watch_keys = {} THEN [seen EXCEPT ![x] = Unseen] ELSE seen
              /\ Tidy(c) /\ c.watch_keys = {} /\ ~ c.in_multi /\ c.multi_q = <<>>
              /\ conns[x].in_multi /\ ~ conns[x].watch_dirty
<1> DEFINE q == conns[x].multi_q
           m == Notify(conns, core'.touched)
           done == WatchClear(MultiClear(m[x]))
<1>1. Tidy(conns[x]) /\ conns[x] \in ConnType
  BY DEF TInv, Tidy
<1>2. q \in UNION {[1..n -> Cmds] : n \in 0..MultiMax}
  BY <1>1 DEF ConnType
<1>3. q \in Seq(Cmds) /\ Len(q) \in Nat
  BY <1>2, QueueType
<1>4. m = [y \in Conns |-> m[y]]
  BY DEF Notify
<1>5. m[x] \in ConnType /\ Tidy(m[x])
  <2>1. conns[x] \in ConnType /\ m[x] = [conns[x] EXCEPT !.watch_dirty =
            @ \/ (conns[x].in_use /\ conns[x].watch_keys \cap core'.touched # {})]
    BY <1>1 DEF Notify
  <2> QED BY <1>1, <2>1 DEF Tidy, ConnType
<1>6. /\ Tidy(done) /\ done.watch_keys = {} /\ ~ done.in_multi
      /\ done.multi_q = <<>>
  BY <1>5, ClearTidy
<1>7. done \in ConnType
  BY <1>6 DEF Tidy
<1>8. PICK n \in 0..Len(q) :
         /\ core' \in RunQueue(Fresh, SubSeq(q, 1, n)) /\ now' = now
         /\ conns' = [m EXCEPT ![x] = done]
         /\ seen' = IF conns'[x].watch_keys = {} THEN [seen EXCEPT ![x] = Unseen]
                    ELSE seen
         /\ conns[x].in_multi /\ ~ conns[x].watch_dirty
  <2>1. CASE ExecRun(x)
    <3>1. SubSeq(q, 1, Len(q)) = q /\ Len(q) \in 0..Len(q)
      BY <1>3
    <3> QED BY <2>1, <3>1 DEF ExecRun, Commit, Step
  <2>2. CASE ExecBroken(x)
    BY <2>2 DEF ExecBroken, Commit, Step
  <2> QED BY <2>1, <2>2
<1>9. conns'[x] = done
  BY <1>4, <1>8
<1> HIDE DEF done, m, q
<1> QED BY <1>6, <1>7, <1>8, <1>9 DEF m, q

LEMMA ExecInv ==
    ASSUME TInv, NEW x \in Conns, ExecRun(x) \/ ExecBroken(x)
    PROVE  TInv'
<1> DEFINE q == conns[x].multi_q
<1>1. PICK n \in 0..Len(q), c \in ConnType :
         /\ core' \in RunQueue(Fresh, SubSeq(q, 1, n)) /\ now' = now
         /\ conns' = [Notify(conns, core'.touched) EXCEPT ![x] = c]
         /\ seen' = IF c.watch_keys = {} THEN [seen EXCEPT ![x] = Unseen] ELSE seen
         /\ Tidy(c) /\ c.watch_keys = {}
  BY ExecFacts
<1>2. q \in Seq(Cmds) /\ Len(q) \in Nat
  BY QueueType DEF TInv, Tidy, ConnType
<1>3. SubSeq(q, 1, n) \in Seq(Cmds)
  BY <1>2
<1>4. Consistent(Fresh) /\ Blank(Fresh) /\ now \in Nat
  BY FreshView DEF TInv
<1>5. Consistent(core') /\ Blank(core') /\ Tells(Fresh, core')
  BY <1>1, <1>3, <1>4, QueueOutcome
<1> QED BY <1>1, <1>4, <1>5, CommitInv

LEMMA WatchInv ==
    ASSUME TInv, NEW x \in Conns, NEW k \in Keys, Watch(x, k)
    PROVE  TInv'
<1> DEFINE c == [conns[x] EXCEPT !.watch_keys = @ \cup {k}]
           h == [seen[x] EXCEPT ![k] = Observable(core, k)]
<1>1. /\ Consistent(core) /\ core \in CoreType /\ Blank(core) /\ now \in Nat
      /\ conns \in [Conns -> ConnType] /\ seen \in [Conns -> [Keys -> SeenType]]
      /\ \A y \in Conns : Tidy(conns[y]) /\ Faithful(conns[y], seen[y], core)
  BY DEF TInv, Consistent
<1>2. /\ core' = Fresh /\ now' = now /\ conns[x].in_use
      /\ conns' = [conns EXCEPT ![x] = c] /\ seen' = [seen EXCEPT ![x] = h]
  BY DEF Watch
<1>3. Consistent(core') /\ Blank(core') /\ now' \in Nat
  BY <1>1, <1>2, FreshView
<1>4. /\ Tidy(c) /\ c \in ConnType /\ c.watch_keys = conns[x].watch_keys \cup {k}
      /\ c.watch_dirty = conns[x].watch_dirty
  <2> DEFINE o == conns[x]
             ks == o.watch_keys \cup {k}
  <2>1. o \in ConnType /\ ks \in SUBSET Keys /\ c = [o EXCEPT !.watch_keys = ks]
    BY <1>1 DEF ConnType
  <2>2. Tidy(o) /\ o.in_use
    BY <1>1, <1>2
  <2> HIDE DEF o, c
  <2>3. /\ c \in ConnType /\ c.watch_keys = ks /\ c.watch_dirty = o.watch_dirty
        /\ c.in_use = o.in_use /\ c.in_multi = o.in_multi /\ c.multi_q = o.multi_q
    BY <2>1 DEF ConnType
  <2>4. Tidy(c)
    BY <2>2, <2>3 DEF Tidy
  <2> QED BY <2>3, <2>4 DEF o
<1>5. /\ h \in [Keys -> SeenType] /\ h[k] = Observable(core, k) /\ h[k] # <<>>
      /\ \A j \in Keys \ {k} : h[j] = seen[x][j]
  BY <1>1, ObservableType
<1> HIDE DEF c, h
<1>6. /\ conns' \in [Conns -> ConnType] /\ conns'[x] = c
      /\ \A y \in Conns \ {x} : conns'[y] = conns[y]
      /\ seen' \in [Conns -> [Keys -> SeenType]] /\ seen'[x] = h
      /\ \A y \in Conns \ {x} : seen'[y] = seen[y]
  BY <1>1, <1>2, <1>4, <1>5
<1>7. \A j \in Keys : Observable(core', j) = Observable(core, j)
  BY <1>1, <1>2, FreshView
<1>8. \A y \in Conns \ {x} : Faithful(conns[y], seen[y], core')
  BY <1>1, <1>7 DEF Faithful, ConnType
<1>9. Faithful(c, h, core')
  <2>1. conns[x].watch_keys \subseteq Keys /\ Faithful(conns[x], seen[x], core)
    BY <1>1 DEF ConnType
  <2> QED BY <1>4, <1>5, <1>7, <2>1 DEF Faithful
<1>10. \A y \in Conns : Tidy(conns'[y]) /\ Faithful(conns'[y], seen'[y], core')
  BY <1>1, <1>4, <1>6, <1>8, <1>9
<1> QED BY <1>3, <1>6, <1>10, PrimeTInv

LEMMA QueueInv ==
    ASSUME TInv, NEW x \in Conns, NEW cmd,
           Multi(x) \/ (cmd \in Cmds /\ Queue(x, cmd))
    PROVE  TInv'
<1> DEFINE o == conns[x]
           Q == UNION {[1..n -> Cmds] : n \in 0..MultiMax}
           m == [o EXCEPT !.in_multi = TRUE, !.multi_q = <<>>]
           a == [o EXCEPT !.multi_q = Append(o.multi_q, cmd)]
<1>1. Tidy(o) /\ o \in ConnType /\ <<>> \in Q /\ o.multi_q \in Q
  <2>1. <<>> \in Q
    BY NoConnTidy DEF Tidy, NoConn, ConnType
  <2> QED BY <2>1 DEF TInv, Tidy, ConnType
<1>2. ConnType = [in_use : BOOLEAN, in_multi : BOOLEAN, multi_q : Q,
                  watch_keys : SUBSET Keys, watch_dirty : BOOLEAN]
  BY DEF ConnType
<1>3. CASE Multi(x)
  <2>1. OnlyConn(x, m) /\ o.in_use
    BY <1>3 DEF Multi
  <2> HIDE DEF o, Q
  <2>2. /\ Tidy(m) /\ m.watch_keys = o.watch_keys /\ m.watch_dirty = o.watch_dirty
    BY <1>1, <1>2, <2>1 DEF Tidy
  <2> HIDE DEF m
  <2> QED BY <2>1, <2>2, OnlyConnInv DEF o
<1>4. CASE cmd \in Cmds /\ Queue(x, cmd)
  <2>1. OnlyConn(x, a) /\ o.in_use /\ o.in_multi /\ Len(o.multi_q) < MultiMax
    BY <1>1, <1>4 DEF Queue
  <2>2. Append(o.multi_q, cmd) \in Q
    BY <1>1, <1>4, <2>1, QueueType
  <2> HIDE DEF o, Q
  <2>3. /\ Tidy(a) /\ a.watch_keys = o.watch_keys /\ a.watch_dirty = o.watch_dirty
    BY <1>1, <1>2, <2>1, <2>2 DEF Tidy
  <2> HIDE DEF a
  <2> QED BY <2>1, <2>3, OnlyConnInv DEF o
<1> QED BY <1>3, <1>4

\* The duties of the loop only lose keys.
LEMMA BackgroundFacts ==
    ASSUME TInv, Background
    PROVE  /\ Consistent(core') /\ Loses(Fresh, core')
           /\ \/ now' = now
              \/ core' = Fresh /\ now' = now + 1
           /\ conns' = Notify(conns, core'.touched) /\ seen' = seen
<1>1. Consistent(core) /\ Consistent(Fresh) /\ Fresh \in CoreType
      /\ Linked(Fresh) = Linked(core)
  BY FreshConsistent DEF TInv, Consistent
<1>2. conns' = Notify(conns, core'.touched) /\ seen' = seen
  BY DEF Background
<1>3. CASE \E X \in SUBSET Keys : ActiveExpire(X)
  <2>1. PICK X \in SUBSET Keys : ActiveExpire(X)
    BY <1>3
  <2>2. core' = FreeEntries(Fresh, X) /\ now' = now
    BY <2>1 DEF ActiveExpire, Step
  <2>3. X \subseteq Linked(Fresh)
    BY <1>1, <2>1 DEF ActiveExpire, Sampled, Linked
  <2>4. Consistent(core') /\ Loses(Fresh, core')
    BY <1>1, <2>2, <2>3, FreeConsistent, FreeLoses
  <2> QED BY <1>2, <2>2, <2>4
<1>4. CASE Tick
  BY <1>1, <1>2, <1>4, NothingLost DEF Tick
<1> QED BY <1>3, <1>4 DEF Background

LEMMA BackgroundInv ==
    ASSUME TInv, Background
    PROVE  TInv'
<1>1. /\ Consistent(core') /\ Loses(Fresh, core')
      /\ now' = now \/ now' = now + 1
      /\ conns' = Notify(conns, core'.touched) /\ seen' = seen
  BY BackgroundFacts
<1>2. Blank(Fresh) /\ now' \in Nat /\ seen \in [Conns -> [Keys -> SeenType]]
  BY <1>1, FreshView DEF TInv
<1>3. Blank(core') /\ Tells(Fresh, core')
  BY <1>1, <1>2, LosesOutcome
<1>4. \A y \in Conns : Tidy(conns'[y]) /\ Faithful(conns'[y], seen'[y], core')
  BY <1>1, <1>3, NotifyFaithful
<1>5. conns' = [y \in Conns |-> conns'[y]]
  BY <1>1 DEF Notify
<1>6. conns' \in [Conns -> ConnType]
  BY <1>4, <1>5 DEF Tidy
<1> QED BY <1>1, <1>2, <1>3, <1>4, <1>6, PrimeTInv

LEMMA TInitInv == TInit => TInv
<1> SUFFICES ASSUME TInit PROVE TInv
  OBVIOUS
<1> DEFINE Bare(d) ==
        /\ Consistent(d)
        /\ d.hot = {} /\ d.cold = {} /\ d.payload = [k \in Keys |-> 0]
        /\ d.expire_at = [k \in Keys |-> 0] /\ d.type = [k \in Keys |-> "string"]
<1>1. Bare(EmptyCore)
  BY EmptyConsistent DEF EmptyCore
<1>2. ASSUME NEW d, Bare(d), NEW m \in MaxMemories, NEW e \in EvictNames
      PROVE  Bare([d EXCEPT !.maxmemory = m, !.evict = e])
  <2>1. d \in CoreType /\ m \in Nat /\ e \in {"noop", "sampled", "plugin"}
    BY <1>2, KnobAssumption DEF Consistent
  <2>2. Consistent([d EXCEPT !.maxmemory = m])
    BY <1>2, <2>1, SettingsConsistent
  <2>3. Consistent([[d EXCEPT !.maxmemory = m] EXCEPT !.evict = e])
    BY <2>1, <2>2, SettingsConsistent
  <2>4. [[d EXCEPT !.maxmemory = m] EXCEPT !.evict = e]
          = [d EXCEPT !.maxmemory = m, !.evict = e]
    BY <2>1 DEF CoreType
  <2> DEFINE n == [d EXCEPT !.maxmemory = m, !.evict = e]
  <2>5. /\ n.hot = d.hot /\ n.cold = d.cold /\ n.payload = d.payload
        /\ n.expire_at = d.expire_at /\ n.type = d.type
    BY <2>1 DEF CoreType
  <2>6. Consistent(n)
    BY <2>3, <2>4
  <2> HIDE DEF n
  <2>7. Bare(n)
    BY <1>2, <2>5, <2>6
  <2> QED BY <2>7 DEF n
<1>3. Bare(core)
  <2> HIDE DEF Bare
  <2>1. CASE core = EmptyCore
    BY <1>1, <2>1
  <2>2. CASE \E m \in MaxMemories, e \in EvictNames :
                core = [EmptyCore EXCEPT !.maxmemory = m, !.evict = e]
    <3>1. PICK m \in MaxMemories, e \in EvictNames :
                 core = [EmptyCore EXCEPT !.maxmemory = m, !.evict = e]
      BY <2>2
    <3>2. Bare([EmptyCore EXCEPT !.maxmemory = m, !.evict = e])
      BY <1>1, <1>2, Zenon
    <3> QED BY <3>1, <3>2
  <2> QED BY <2>1, <2>2 DEF TInit
<1>4. Blank(core)
  BY <1>3 DEF Blank, Gone, Linked
<1>5. conns = [x \in Conns |-> NoConn] /\ seen = [x \in Conns |-> Unseen] /\ now = 0
  BY DEF TInit
<1>6. Tidy(NoConn) /\ NoConn \in ConnType /\ NoConn.watch_keys = {}
  BY NoConnTidy DEF Tidy, NoConn
<1>7. Faithful(NoConn, Unseen, core) /\ Unseen \in [Keys -> SeenType]
  BY <1>6, NothingSeen
<1> QED BY <1>3, <1>4, <1>5, <1>6, <1>7 DEF TInv

LEMMA TNextInv == TInv /\ [TNext]_tvars => TInv'
<1> SUFFICES ASSUME TInv, [TNext]_tvars PROVE TInv'
  OBVIOUS
<1>1. \A x \in Conns : Tidy(conns[x])
  BY DEF TInv
<1>2. ASSUME NEW x \in Conns, Accept(x) \/ Close(x) PROVE TInv'
  <2>1. OnlyConn(x, NoConn) \/ OnlyConn(x, [NoConn EXCEPT !.in_use = TRUE])
    BY <1>2 DEF Accept, Close
  <2>2. NoConn.watch_keys = {} /\ [NoConn EXCEPT !.in_use = TRUE].watch_keys = {}
    BY DEF NoConn
  <2> QED BY <2>1, <2>2, NoConnTidy, OnlyConnInv
<1>3. ASSUME NEW x \in Conns, NEW cmd \in Cmds, RunNow(x, cmd) PROVE TInv'
  <2> DEFINE c == Notify(conns, core'.touched)[x]
  <2>1. /\ core' \in Effects(Fresh, cmd) /\ now' = now
        /\ conns' = [Notify(conns, core'.touched) EXCEPT ![x] = c]
        /\ conns'[x] = c
        /\ seen' = IF conns'[x].watch_keys = {} THEN [seen EXCEPT ![x] = Unseen]
                   ELSE seen
    BY <1>3, RunNowFacts
  <2>2. Consistent(Fresh) /\ Blank(Fresh) /\ now \in Nat
    BY FreshView DEF TInv
  <2>3. Consistent(core') /\ Blank(core') /\ Tells(Fresh, core')
    BY <2>1, <2>2, EffectsOutcome
  <2> QED BY <2>1, <2>2, <2>3, CommitInv
<1>4. ASSUME NEW x \in Conns, NEW cmd \in Cmds, Queue(x, cmd) PROVE TInv'
  BY <1>4, QueueInv
<1>5. ASSUME NEW x \in Conns, NEW k \in Keys, Watch(x, k) PROVE TInv'
  BY <1>5, WatchInv
<1>6. ASSUME NEW x \in Conns, Unwatch(x) PROVE TInv'
  BY <1>1, <1>6, ClearTidy, OnlyConnInv DEF Unwatch
<1>7. ASSUME NEW x \in Conns, Multi(x) PROVE TInv'
  BY <1>7, QueueInv
<1>8. ASSUME NEW x \in Conns, Discard(x) \/ ExecAbort(x) PROVE TInv'
  BY <1>1, <1>8, ClearTidy, OnlyConnInv DEF Discard, ExecAbort
<1>9. ASSUME NEW x \in Conns, ExecRun(x) \/ ExecBroken(x) PROVE TInv'
  BY <1>9, ExecInv
<1>10. ASSUME Background PROVE TInv'
  BY <1>10, BackgroundInv
<1>11. ASSUME UNCHANGED tvars PROVE TInv'
  <2>1. core' = core /\ now' = now /\ conns' = conns /\ seen' = seen
    BY <1>11 DEF tvars
  <2> QED BY <2>1, PrimeTInv DEF TInv
<1> QED BY <1>2, <1>3, <1>4, <1>5, <1>6, <1>7, <1>8, <1>9, <1>10, <1>11
        DEF TNext, Dispatch

LEMMA TInvAlways == TSpec => []TInv
BY TInitInv, TNextInv, PTL DEF TSpec

\* Type correctness; in particular the queue of a connection never grows past
\* AR_MULTI_MAX, and the history knows exactly the watched keys.
THEOREM TransactionsTyped == TSpec => []TTypeOK
BY TInvImplies, TInvAlways, PTL

\* Compare and swap: a connection that is not dirty still finds under every
\* key it watches what was there when it began to watch it.
THEOREM CompareAndSwap == TSpec => []CleanWatchUnchanged
BY TInvImplies, TInvAlways, PTL

\* The dirty flag never outlives the watches it belongs to.
THEOREM NoSpuriousAbort == TSpec => []DirtyOnlyWhileWatching
BY TInvImplies, TInvAlways, PTL

-----------------------------------------------------------------------------
(* The server implements the abstract store.  The abstract variables are   *)
(* functions of the concrete ones, so that their next values can be named. *)

MarksOf(cs, h) == [x \in Conns |-> [k \in cs[x].watch_keys |-> h[x][k]]]
OpenOf(cs) == {x \in Conns : cs[x].in_multi}
QueuesOf(cs) == [x \in Conns |-> cs[x].multi_q]

LEMMA StoreMap ==
    /\ [k \in Keys |-> Observable(core, k)] = View(core)
    /\ [k \in Keys |-> Observable(core, k)]' = View(core')
BY DEF View, Observable, Linked

LEMMA ConnsMap ==
    /\ [x \in Conns |-> [k \in conns[x].watch_keys |-> seen[x][k]]] = MarksOf(conns, seen)
    /\ [x \in Conns |-> [k \in conns[x].watch_keys |-> seen[x][k]]]' = MarksOf(conns', seen')
    /\ {x \in Conns : conns[x].in_multi} = OpenOf(conns)
    /\ {x \in Conns : conns[x].in_multi}' = OpenOf(conns')
    /\ [x \in Conns |-> conns[x].multi_q] = QueuesOf(conns)
    /\ [x \in Conns |-> conns[x].multi_q]' = QueuesOf(conns')
BY DEF MarksOf, OpenOf, QueuesOf

\* The clients find the store s, some of its keys lost.
LEMMA StoreBecomes ==
    ASSUME NEW s, Became(s, core'), now' = now
    PROVE  Abstract!Becomes(s)
<1> DEFINE L == {k \in Keys : Observable(core', k) = Abstract!Absent}
<1>1. \A k \in Keys : View(core')[k] = IF k \in L THEN Abstract!Absent ELSE s[k]
  BY DEF View, Became
<1>2. View(core') = [k \in Keys |-> IF k \in L THEN Abstract!Absent ELSE s[k]]
  BY <1>1 DEF View
<1>3. L \in SUBSET Keys
  OBVIOUS
<1> HIDE DEF L
<1>4. View(core') \in {[k \in Keys |-> IF k \in M THEN Abstract!Absent ELSE s[k]] :
                          M \in SUBSET Keys}
  BY <1>2, <1>3
<1> QED BY <1>4, StoreMap DEF Abstract!Becomes

\* What the slot y of connection shows is what it showed before.
Kept(y) ==
    /\ conns'[y].watch_keys = conns[y].watch_keys
    /\ conns'[y].in_multi = conns[y].in_multi
    /\ conns'[y].multi_q = conns[y].multi_q
    /\ \A k \in conns[y].watch_keys : seen'[y][k] = seen[y][k]

LEMMA AllKept ==
    ASSUME \A y \in Conns : Kept(y)
    PROVE  /\ MarksOf(conns', seen') = MarksOf(conns, seen)
           /\ OpenOf(conns') = OpenOf(conns) /\ QueuesOf(conns') = QueuesOf(conns)
<1>1. \A y \in Conns : [k \in conns'[y].watch_keys |-> seen'[y][k]]
                          = [k \in conns[y].watch_keys |-> seen[y][k]]
  BY DEF Kept
<1>2. MarksOf(conns', seen') = MarksOf(conns, seen)
  BY <1>1 DEF MarksOf
<1> QED BY <1>2 DEF Kept, OpenOf, QueuesOf

LEMMA ConnReset ==
    ASSUME NEW x \in Conns, \A y \in Conns \ {x} : Kept(y),
           conns'[x].watch_keys = {}, ~ conns'[x].in_multi, conns'[x].multi_q = <<>>
    PROVE  Abstract!Reset(x)
<1>1. \A y \in Conns \ {x} : [k \in conns'[y].watch_keys |-> seen'[y][k]]
                                = [k \in conns[y].watch_keys |-> seen[y][k]]
  BY DEF Kept
<1>2. [k \in conns'[x].watch_keys |-> seen'[x][k]] = Abstract!NoMarks
  BY DEF Abstract!NoMarks
<1>3. MarksOf(conns', seen') = [MarksOf(conns, seen) EXCEPT ![x] = Abstract!NoMarks]
  BY <1>1, <1>2 DEF MarksOf
<1>4. OpenOf(conns') = OpenOf(conns) \ {x}
  BY DEF Kept, OpenOf
<1>5. QueuesOf(conns') = [QueuesOf(conns) EXCEPT ![x] = <<>>]
  BY DEF Kept, QueuesOf
<1> QED BY <1>3, <1>4, <1>5, ConnsMap DEF Abstract!Reset

LEMMA StoreKept ==
    ASSUME TInv, core' = Fresh
    PROVE  View(core') = View(core)
BY FreshView DEF TInv

\* The actions that leave the dictionary alone.
LEMMA OnlyConnMap ==
    ASSUME TInv, NEW x \in Conns, NEW c, OnlyConn(x, c)
    PROVE  /\ View(core') = View(core) /\ now' = now
           /\ conns'[x] = c /\ \A y \in Conns \ {x} : Kept(y)
           /\ c.watch_keys = conns[x].watch_keys =>
                 MarksOf(conns', seen') = MarksOf(conns, seen)
           /\ c.watch_keys = {} =>
                 MarksOf(conns', seen') = [MarksOf(conns, seen) EXCEPT ![x] = Abstract!NoMarks]
<1>1. View(core') = View(core) /\ now' = now
  BY StoreKept DEF OnlyConn
<1>2. /\ conns \in [Conns -> ConnType] /\ seen \in [Conns -> [Keys -> SeenType]]
      /\ conns' = [conns EXCEPT ![x] = c]
      /\ seen' = IF c.watch_keys = {} THEN [seen EXCEPT ![x] = Unseen] ELSE seen
  BY DEF TInv, OnlyConn
<1>3. conns'[x] = c /\ \A y \in Conns \ {x} : conns'[y] = conns[y] /\ seen'[y] = seen[y]
  BY <1>2
<1>4. \A y \in Conns \ {x} : Kept(y)
  BY <1>3 DEF Kept
<1>5. \A y \in Conns \ {x} : [k \in conns'[y].watch_keys |-> seen'[y][k]]
                                = [k \in conns[y].watch_keys |-> seen[y][k]]
  BY <1>3
<1>6. ASSUME c.watch_keys = conns[x].watch_keys
      PROVE  MarksOf(conns', seen') = MarksOf(conns, seen)
  <2>1. \A k \in c.watch_keys : seen'[x][k] = seen[x][k]
    BY <1>2
  <2>2. [k \in conns'[x].watch_keys |-> seen'[x][k]]
          = [k \in conns[x].watch_keys |-> seen[x][k]]
    BY <1>3, <1>6, <2>1
  <2> QED BY <1>5, <2>2 DEF MarksOf
<1>7. ASSUME c.watch_keys = {}
      PROVE  MarksOf(conns', seen') = [MarksOf(conns, seen) EXCEPT ![x] = Abstract!NoMarks]
  <2>1. [k \in conns'[x].watch_keys |-> seen'[x][k]] = Abstract!NoMarks
    BY <1>3, <1>7 DEF Abstract!NoMarks
  <2> QED BY <1>5, <2>1 DEF MarksOf
<1> QED BY <1>1, <1>3, <1>4, <1>6, <1>7

LEMMA AbortMaps ==
    ASSUME TInv, NEW x \in Conns,
           Accept(x) \/ Close(x) \/ Discard(x) \/ ExecAbort(x)
    PROVE  Abstract!Abort(x)
<1> DEFINE Idle(c) == c.watch_keys = {} /\ ~ c.in_multi /\ c.multi_q = <<>>
<1>1. Tidy(conns[x])
  BY DEF TInv
<1>2. /\ Idle(NoConn) /\ Idle([NoConn EXCEPT !.in_use = TRUE])
      /\ Idle(WatchClear(MultiClear(conns[x])))
  BY <1>1, ClearTidy DEF NoConn
<1>3. PICK c : OnlyConn(x, c) /\ Idle(c)
  <2> HIDE DEF Idle
  <2> QED BY <1>2 DEF Accept, Close, Discard, ExecAbort
<1>4. /\ View(core') = View(core) /\ now' = now
      /\ conns'[x] = c /\ \A y \in Conns \ {x} : Kept(y)
  BY <1>3, OnlyConnMap
<1>5. Abstract!Reset(x)
  BY <1>3, <1>4, ConnReset
<1> QED BY <1>4, <1>5, StoreMap DEF Abstract!Abort

LEMMA UnwatchMaps ==
    ASSUME TInv, NEW x \in Conns, Unwatch(x)
    PROVE  Abstract!Unmark(x)
<1> DEFINE c == WatchClear(conns[x])
<1>1. OnlyConn(x, c)
  BY DEF Unwatch
<1>2. Tidy(conns[x])
  BY DEF TInv
<1>3. /\ c.watch_keys = {} /\ c.in_multi = conns[x].in_multi
      /\ c.multi_q = conns[x].multi_q
  BY <1>2, ClearTidy
<1> HIDE DEF c
<1>4. /\ View(core') = View(core) /\ now' = now
      /\ conns'[x] = c /\ \A y \in Conns \ {x} : Kept(y)
      /\ MarksOf(conns', seen') = [MarksOf(conns, seen) EXCEPT ![x] = Abstract!NoMarks]
  BY <1>1, <1>3, OnlyConnMap
<1>5. OpenOf(conns') = OpenOf(conns) /\ QueuesOf(conns') = QueuesOf(conns)
  BY <1>3, <1>4 DEF Kept, OpenOf, QueuesOf
<1> QED BY <1>4, <1>5, StoreMap, ConnsMap DEF Abstract!Unmark

LEMMA MultiMaps ==
    ASSUME TInv, NEW x \in Conns, Multi(x)
    PROVE  Abstract!Open(x)
<1> DEFINE c == [conns[x] EXCEPT !.in_multi = TRUE, !.multi_q = <<>>]
<1>1. OnlyConn(x, c) /\ ~ conns[x].in_multi
  BY DEF Multi
<1>2. Tidy(conns[x]) /\ conns[x] \in ConnType
  BY DEF TInv, Tidy
<1>3. c.watch_keys = conns[x].watch_keys /\ c.in_multi /\ c.multi_q = conns[x].multi_q
  BY <1>1, <1>2 DEF Tidy, ConnType
<1> HIDE DEF c
<1>4. /\ View(core') = View(core) /\ now' = now
      /\ conns'[x] = c /\ \A y \in Conns \ {x} : Kept(y)
      /\ MarksOf(conns', seen') = MarksOf(conns, seen)
  BY <1>1, <1>3, OnlyConnMap
<1>5. /\ x \notin OpenOf(conns) /\ OpenOf(conns') = OpenOf(conns) \cup {x}
      /\ QueuesOf(conns') = QueuesOf(conns)
  BY <1>1, <1>3, <1>4 DEF Kept, OpenOf, QueuesOf
<1> QED BY <1>4, <1>5, StoreMap, ConnsMap DEF Abstract!Open

LEMMA QueueMaps ==
    ASSUME TInv, NEW x \in Conns, NEW cmd \in Cmds, Queue(x, cmd)
    PROVE  Abstract!Enqueue(x, cmd)
<1> DEFINE c == [conns[x] EXCEPT !.multi_q = Append(conns[x].multi_q, cmd)]
<1>1. conns[x] \in ConnType
  BY DEF TInv, Tidy
<1>2. OnlyConn(x, c) /\ conns[x].in_multi
  BY <1>1 DEF Queue
<1>3. /\ c.watch_keys = conns[x].watch_keys /\ c.in_multi
      /\ c.multi_q = Append(conns[x].multi_q, cmd)
  BY <1>1, <1>2 DEF ConnType
<1> HIDE DEF c
<1>4. /\ View(core') = View(core) /\ now' = now
      /\ conns'[x] = c /\ \A y \in Conns \ {x} : Kept(y)
      /\ MarksOf(conns', seen') = MarksOf(conns, seen)
  BY <1>2, <1>3, OnlyConnMap
<1>5. x \in OpenOf(conns) /\ OpenOf(conns') = OpenOf(conns)
  BY <1>2, <1>3, <1>4 DEF Kept, OpenOf
<1>6. QueuesOf(conns') = [QueuesOf(conns) EXCEPT ![x] = Append(QueuesOf(conns)[x], cmd)]
  BY <1>3, <1>4 DEF Kept, QueuesOf
<1> QED BY <1>4, <1>5, <1>6, StoreMap, ConnsMap DEF Abstract!Enqueue

LEMMA WatchMaps ==
    ASSUME TInv, NEW x \in Conns, NEW k \in Keys, Watch(x, k)
    PROVE  Abstract!Mark(x, k)
<1> DEFINE old == conns[x].watch_keys
           M == MarksOf(conns, seen)[x]
           m == [j \in DOMAIN M \cup {k} |-> IF j = k THEN View(core)[k] ELSE M[j]]
<1>1. /\ conns \in [Conns -> ConnType] /\ seen \in [Conns -> [Keys -> SeenType]]
      /\ core' = Fresh /\ now' = now /\ ~ conns[x].in_multi /\ k \notin old
      /\ conns' = [conns EXCEPT ![x].watch_keys = @ \cup {k}]
      /\ seen' = [seen EXCEPT ![x][k] = Observable(core, k)]
  BY DEF TInv, Watch
<1>2. /\ \A y \in Conns \ {x} : conns'[y] = conns[y] /\ seen'[y] = seen[y]
      /\ conns'[x] = [conns[x] EXCEPT !.watch_keys = @ \cup {k}]
      /\ seen'[x] = [seen[x] EXCEPT ![k] = Observable(core, k)]
  BY <1>1
<1>3. /\ conns'[x].watch_keys = old \cup {k} /\ ~ conns'[x].in_multi
      /\ conns'[x].multi_q = conns[x].multi_q /\ old \subseteq Keys
  <2>1. conns[x] \in ConnType
    BY <1>1
  <2> QED BY <1>1, <1>2, <2>1 DEF ConnType
<1>4. seen'[x][k] = View(core)[k] /\ \A j \in old : seen'[x][j] = seen[x][j]
  BY <1>1, <1>2, <1>3 DEF View
<1>5. M = [j \in old |-> seen[x][j]] /\ DOMAIN M = old
  BY DEF MarksOf
<1>6. [j \in conns'[x].watch_keys |-> seen'[x][j]] = m
  BY <1>1, <1>3, <1>4, <1>5
<1> HIDE DEF m, M
<1>7. MarksOf(conns', seen') = [MarksOf(conns, seen) EXCEPT ![x] = m]
  BY <1>2, <1>6 DEF MarksOf
<1>8. /\ x \notin OpenOf(conns) /\ OpenOf(conns') = OpenOf(conns)
      /\ QueuesOf(conns') = QueuesOf(conns)
  BY <1>1, <1>2, <1>3 DEF OpenOf, QueuesOf
<1>9. View(core') = View(core)
  BY <1>1, StoreKept
<1>10. MarksOf(conns', seen') = [MarksOf(conns, seen) EXCEPT ![x] =
          [j \in DOMAIN @ \cup {k} |-> IF j = k THEN View(core)[k] ELSE @[j]]]
  BY <1>7 DEF m, M
<1>11. k \notin DOMAIN MarksOf(conns, seen)[x]
  BY <1>1, <1>5 DEF M
<1> HIDE DEF old
<1>12. [j \in Keys |-> Observable(core, j)]' = [j \in Keys |-> Observable(core, j)]
  BY <1>9, StoreMap
<1> QED BY <1>1, <1>8, <1>10, <1>11, <1>12, Zenon
        DEF Abstract!Mark, MarksOf, OpenOf, QueuesOf, View

\* After ar_watch_touch every slot still shows what it showed.
LEMMA NotifyKept ==
    ASSUME TInv, Tells(Fresh, core'), NEW y \in Conns,
           conns'[y] = Notify(conns, core'.touched)[y],
           \/ seen'[y] = seen[y]
           \/ conns[y].watch_keys = {}
    PROVE  Kept(y)
<1> DEFINE n == Notify(conns, core'.touched)[y]
<1>1. /\ n.in_multi = conns[y].in_multi
      /\ n.multi_q = conns[y].multi_q /\ n.watch_keys = conns[y].watch_keys
  BY NotifyFaithful
<1> HIDE DEF n
<1>2. conns'[y] = n
  BY DEF n
<1> QED BY <1>1, <1>2 DEF Kept

LEMMA RunMaps ==
    ASSUME TInv, NEW x \in Conns, NEW cmd \in Cmds, RunNow(x, cmd)
    PROVE  Abstract!Run(x, cmd)
<1>1. /\ core' \in Effects(Fresh, cmd) /\ now' = now
      /\ conns' = Notify(conns, core'.touched)
      /\ seen' = IF conns'[x].watch_keys = {} THEN [seen EXCEPT ![x] = Unseen] ELSE seen
      /\ ~ conns[x].in_multi
  BY RunNowFacts
<1>2. Consistent(Fresh) /\ Blank(Fresh) /\ now \in Nat /\ View(Fresh) = View(core)
  BY FreshView DEF TInv
<1>3. Tells(Fresh, core') /\ Became(Abstract!Result(View(core), cmd), core')
  BY <1>1, <1>2, EffectsOutcome
<1>4. Abstract!Becomes(Abstract!Result(View(core), cmd))
  BY <1>1, <1>3, StoreBecomes
<1>5. conns'[x].watch_keys = conns[x].watch_keys
  BY <1>1, <1>3, NotifyFaithful
<1>6. \A y \in Conns : seen'[y] = seen[y] \/ conns[y].watch_keys = {}
  BY <1>1, <1>5 DEF TInv
<1>7. \A y \in Conns : Kept(y)
  BY <1>1, <1>3, <1>6, NotifyKept
<1>8. x \notin OpenOf(conns)
  BY <1>1 DEF OpenOf
<1>9. Abstract!Becomes(Abstract!Result([k \in Keys |-> Observable(core, k)], cmd))
  BY <1>4, StoreMap
<1> QED BY <1>7, <1>8, <1>9, AllKept, ConnsMap DEF Abstract!Run

LEMMA ExecMaps ==
    ASSUME TInv, NEW x \in Conns, ExecRun(x) \/ ExecBroken(x)
    PROVE  Abstract!Commit(x)
<1> DEFINE q == conns[x].multi_q
<1>1. PICK n \in 0..Len(q), c \in ConnType :
         /\ core' \in RunQueue(Fresh, SubSeq(q, 1, n)) /\ now' = now
         /\ conns' = [Notify(conns, core'.touched) EXCEPT ![x] = c]
         /\ seen' = IF c.watch_keys = {} THEN [seen EXCEPT ![x] = Unseen] ELSE seen
         /\ Tidy(c) /\ c.watch_keys = {} /\ ~ c.in_multi /\ c.multi_q = <<>>
         /\ conns[x].in_multi /\ ~ conns[x].watch_dirty
  BY ExecFacts
<1>2. SubSeq(q, 1, n) \in Seq(Cmds)
  <2>1. q \in Seq(Cmds)
    BY QueueType DEF TInv, Tidy, ConnType
  <2> QED BY <2>1
<1>3. /\ Consistent(Fresh) /\ Blank(Fresh) /\ now \in Nat /\ View(Fresh) = View(core)
      /\ seen \in [Conns -> [Keys -> SeenType]] /\ conns \in [Conns -> ConnType]
  BY FreshView DEF TInv
<1>4. Tells(Fresh, core') /\ Became(Abstract!Results(View(core), SubSeq(q, 1, n)), core')
  BY <1>1, <1>2, <1>3, QueueOutcome
<1>5. Abstract!Becomes(Abstract!Results(View(core), SubSeq(q, 1, n)))
  BY <1>1, <1>4, StoreBecomes
<1>6. /\ conns'[x] = c
      /\ \A y \in Conns \ {x} : /\ conns'[y] = Notify(conns, core'.touched)[y]
                                /\ seen'[y] = seen[y]
  <2> DEFINE m == Notify(conns, core'.touched)
  <2>1. m = [y \in Conns |-> m[y]]
    BY DEF Notify
  <2> HIDE DEF m
  <2>2. conns' = [m EXCEPT ![x] = c]
    BY <1>1 DEF m
  <2>3. conns'[x] = c /\ \A y \in Conns \ {x} : conns'[y] = m[y]
    BY <2>1, <2>2
  <2> QED BY <1>1, <1>3, <2>3 DEF m
<1>7. \A y \in Conns \ {x} : Kept(y)
  BY <1>4, <1>6, NotifyKept
<1>8. Abstract!Reset(x)
  BY <1>1, <1>6, <1>7, ConnReset
<1>9. /\ x \in OpenOf(conns) /\ QueuesOf(conns)[x] = q
      /\ \A k \in DOMAIN MarksOf(conns, seen)[x] :
            View(core)[k] = MarksOf(conns, seen)[x][k]
  <2>1. conns[x].watch_keys \subseteq Keys
    BY <1>3 DEF ConnType
  <2>2. \A k \in conns[x].watch_keys : Observable(core, k) = seen[x][k]
    BY <1>1 DEF TInv, Faithful
  <2> QED BY <1>1, <2>1, <2>2 DEF OpenOf, QueuesOf, MarksOf, View
<1>10. \E i \in 0..Len(QueuesOf(conns)[x]) :
          Abstract!Becomes(Abstract!Results(View(core), SubSeq(QueuesOf(conns)[x], 1, i)))
  BY <1>5, <1>9
<1> QED BY <1>8, <1>9, <1>10, Zenon
        DEF Abstract!Commit, MarksOf, OpenOf, QueuesOf, View

LEMMA BackgroundMaps ==
    ASSUME TInv, Background
    PROVE  Abstract!Lose \/ Abstract!Tick
<1>1. /\ Consistent(core') /\ Loses(Fresh, core')
      /\ \/ now' = now
         \/ core' = Fresh /\ now' = now + 1
      /\ conns' = Notify(conns, core'.touched) /\ seen' = seen
  BY BackgroundFacts
<1>2. Blank(Fresh) /\ View(Fresh) = View(core)
  BY FreshView DEF TInv
<1>3. Tells(Fresh, core') /\ Became(View(core), core')
  BY <1>1, <1>2, LosesOutcome
<1>4. \A y \in Conns : Kept(y)
  BY <1>1, <1>3, NotifyKept
<1>5. /\ MarksOf(conns', seen') = MarksOf(conns, seen)
      /\ OpenOf(conns') = OpenOf(conns) /\ QueuesOf(conns') = QueuesOf(conns)
  BY <1>4, AllKept
<1>6. CASE now' = now
  <2>1. Abstract!Becomes([k \in Keys |-> Observable(core, k)])
    BY <1>3, <1>6, StoreBecomes, StoreMap
  <2> QED BY <1>5, <2>1, ConnsMap DEF Abstract!Lose
<1>7. CASE core' = Fresh /\ now' = now + 1
  <2>1. View(core') = View(core)
    BY <1>2, <1>7
  <2> QED BY <1>5, <1>7, <2>1, StoreMap, ConnsMap DEF Abstract!Tick
<1> QED BY <1>1, <1>6, <1>7

LEMMA InitMaps ==
    ASSUME TInit
    PROVE  Abstract!Init
<1>1. Blank(core) /\ now = 0
  BY TInitInv DEF TInv, TInit
<1>2. core.hot = {} /\ core.cold = {}
  <2>1. EmptyCore \in CoreType /\ EmptyCore.hot = {} /\ EmptyCore.cold = {}
    BY EmptyConsistent DEF Consistent, EmptyCore
  <2>2. ASSUME NEW m, NEW e, core = [EmptyCore EXCEPT !.maxmemory = m, !.evict = e]
        PROVE  core.hot = {} /\ core.cold = {}
    BY <2>1, <2>2 DEF CoreType
  <2>3. ASSUME core = EmptyCore PROVE core.hot = {} /\ core.cold = {}
    BY <2>1, <2>3
  <2> QED BY <2>2, <2>3 DEF TInit
<1>3. \A k \in Keys : Observable(core, k) = Abstract!Absent
  BY <1>1, <1>2, GoneAbsent DEF Blank, Linked
<1>4. View(core) = [k \in Keys |-> Abstract!Absent]
  BY <1>3 DEF View
<1>5. /\ MarksOf(conns, seen) = [x \in Conns |-> Abstract!NoMarks]
      /\ OpenOf(conns) = {} /\ QueuesOf(conns) = [x \in Conns |-> <<>>]
  BY DEF TInit, NoConn, MarksOf, OpenOf, QueuesOf, Abstract!NoMarks
<1> QED BY <1>1, <1>4, <1>5, StoreMap, ConnsMap DEF Abstract!Init

LEMMA NextMaps ==
    ASSUME TInv, [TNext]_tvars
    PROVE  [Abstract!Next]_(Abstract!avars)
<1>1. ASSUME NEW x \in Conns, Accept(x) \/ Close(x) \/ Discard(x) \/ ExecAbort(x)
      PROVE  Abstract!Next
  BY <1>1, AbortMaps DEF Abstract!Next
<1>2. ASSUME NEW x \in Conns, NEW cmd \in Cmds, RunNow(x, cmd) PROVE Abstract!Next
  BY <1>2, RunMaps DEF Abstract!Next
<1>3. ASSUME NEW x \in Conns, NEW cmd \in Cmds, Queue(x, cmd) PROVE Abstract!Next
  BY <1>3, QueueMaps DEF Abstract!Next
<1>4. ASSUME NEW x \in Conns, NEW k \in Keys, Watch(x, k) PROVE Abstract!Next
  BY <1>4, WatchMaps DEF Abstract!Next
<1>5. ASSUME NEW x \in Conns, Unwatch(x) PROVE Abstract!Next
  BY <1>5, UnwatchMaps DEF Abstract!Next
<1>6. ASSUME NEW x \in Conns, Multi(x) PROVE Abstract!Next
  BY <1>6, MultiMaps DEF Abstract!Next
<1>7. ASSUME NEW x \in Conns, ExecRun(x) \/ ExecBroken(x) PROVE Abstract!Next
  BY <1>7, ExecMaps DEF Abstract!Next
<1>8. ASSUME Background PROVE Abstract!Next
  BY <1>8, BackgroundMaps DEF Abstract!Next
<1>9. ASSUME UNCHANGED tvars PROVE UNCHANGED Abstract!avars
  BY <1>9 DEF tvars, Abstract!avars, Observable, Linked
<1> QED BY <1>1, <1>2, <1>3, <1>4, <1>5, <1>6, <1>7, <1>8, <1>9 DEF TNext, Dispatch

\* The server implements the abstract store, for any number of connections
\* and keys and any queue: an EXEC that runs is one step that found every
\* watched key as it was when it was watched, and applied its commands in
\* order; no step makes up or alters a value.
THEOREM Implements == TSpec => ImplementsOptimisticStore
<1>1. TInit => Abstract!Init
  BY InitMaps
<1>2. TInv /\ [TNext]_tvars => [Abstract!Next]_(Abstract!avars)
  BY NextMaps
<1> QED BY <1>1, <1>2, TInvAlways, PTL DEF TSpec, ImplementsOptimisticStore, Abstract!Spec

-----------------------------------------------------------------------------
(* The clients of CasClients lose no update, for any number of clients,    *)
(* goals and dropped connections.  First the dictionary of the race.       *)


\* No limit, one table, and the contended key in it without a TTL.
Racing(c) ==
    /\ Consistent(c)
    /\ c.layout = "flat" /\ c.maxmemory = 0
    /\ Stored(c, Contended, c.payload[Contended], 0)

Bid(n) == [op |-> "set", key |-> Contended, arg |-> n]

\* The contended key is not due, so a lookup returns its entry.
LEMMA RacingFound ==
    ASSUME NEW c, Racing(c)
    PROVE  FindEntry(c, Contended) = c
<1>1. Contended \in Keys /\ c.expire_at[Contended] = 0
  BY RaceAssumption DEF Racing, Stored
<1>2. Contended \notin Due(c)
  BY <1>1 DEF Due, HasTtl
<1> QED BY <1>2 DEF FindEntry

\* A SET of the contended key evicts nothing: it leaves its value, and its
\* watchers know.
LEMMA BidOutcome ==
    ASSUME NEW c, Racing(c), NEW n \in Nat, NEW d \in Effects(c, Bid(n))
    PROVE  Racing(d) /\ d.payload[Contended] = n /\ Contended \in d.touched
<1> DEFINE k == Contended
           r == ReplaceByString(c, k, n)
<1>1. /\ Consistent(c) /\ c \in CoreType /\ k \in Linked(c) /\ k \in Keys
      /\ c.layout = "flat" /\ c.maxmemory = 0 /\ c.expire_at[k] = 0
  BY RaceAssumption DEF Racing, Stored, Consistent
<1>2. d \in EntrySetEx(c, k, n, 0)
  BY DEF Effects, Bid
<1>3. r.layout = c.layout /\ r.maxmemory = c.maxmemory /\ r.expire_at = c.expire_at
  BY <1>1 DEF ReplaceByString, CoreType
<1> HIDE DEF r
<1>4. SetExpireAt(r, k, 0) = r
  BY <1>1, <1>3 DEF SetExpireAt, ClearExpire
<1>5. TouchGet(r, k) = {r}
  BY <1>1, <1>3 DEF TouchGet
<1>6. MaybeEvict(r) = {r}
  BY <1>1, <1>3 DEF MaybeEvict, OverMaxmemory
<1>7. d = WatchTouch(r, {k})
  BY <1>1, <1>2, <1>4, <1>5, <1>6, RacingFound DEF EntrySetEx, r
<1>8. Consistent(r) /\ r \in CoreType
  BY <1>1, ReplaceConsistent DEF Consistent, r
<1>9. d.layout = r.layout /\ d.maxmemory = r.maxmemory
  BY <1>7, <1>8 DEF WatchTouch, CoreType
<1>10. Consistent(d) /\ k \in d.touched /\ (Stored(d, k, n, 0) \/ Gone(d, k))
  BY <1>1, <1>2, EntrySetConsistent, EntrySetOutcome
<1>11. k \in Linked(d)
  BY <1>1, <1>7, <1>8, ReplaceConsistent, WatchTouchConsistent DEF r
<1> QED BY <1>1, <1>3, <1>9, <1>10, <1>11 DEF Racing, Stored, Gone

LEMMA ReadOutcome ==
    ASSUME NEW c, Racing(c), NEW cmd, cmd.op = "get", cmd.key = Contended,
           NEW d \in Effects(c, cmd)
    PROVE  d = c
<1>1. d \in GetPtr(c, Contended)
  BY DEF Effects
<1>2. TouchGet(c, Contended) = {c}
  BY DEF TouchGet, Racing
<1> QED BY <1>1, <1>2, RacingFound DEF GetPtr

LEMMA FreshRacing ==
    ASSUME Racing(core)
    PROVE  /\ Racing(Fresh) /\ Fresh.payload = core.payload
<1>1. core \in CoreType /\ Consistent(core)
  BY DEF Racing, Consistent
<1>2. /\ Fresh.layout = core.layout /\ Fresh.maxmemory = core.maxmemory
      /\ Fresh.payload = core.payload /\ Fresh.type = core.type
      /\ Fresh.expire_at = core.expire_at
  BY <1>1 DEF Fresh, CoreType
<1>3. Consistent(Fresh) /\ Linked(Fresh) = Linked(core)
  BY <1>1, FreshConsistent
<1> QED BY <1>2, <1>3 DEF Racing, Stored

-----------------------------------------------------------------------------
(* The inductive invariant: where a client is, what its slot holds, and    *)
(* the value it read unless its slot is dirty.                             *)

Watching == {"watching", "read", "begun", "queued"}

Bids == Seq([op : {"set"}, key : {Contended}, arg : Nat])

SlotType == [in_use : BOOLEAN, in_multi : BOOLEAN, multi_q : Bids,
             watch_keys : SUBSET Keys, watch_dirty : BOOLEAN]

\* Slot c of a client at p that read n, when the key holds v.
InStep(c, p, n, v) ==
    /\ c \in SlotType
    /\ p # "closed" => c.in_use
    /\ p = "begun" => c.multi_q = <<>>
    /\ p = "queued" => c.multi_q = <<Bid(n + 1)>>
    /\ p \in Watching => Contended \in c.watch_keys
    /\ p \in Watching \ {"watching"} => c.watch_dirty \/ n = v

CasInv ==
    /\ Racing(core)
    /\ pc \in [Conns -> {"closed", "idle"} \cup Watching]
    /\ cur \in [Conns -> Nat] /\ wins \in [Conns -> Nat]
    /\ conns \in [Conns -> SlotType]
    /\ \A x \in Conns : InStep(conns[x], pc[x], cur[x], core.payload[Contended])
    /\ core.payload[Contended] = Total(wins, Conns)

LEMMA PrimeCas ==
    ASSUME Racing(core'), pc' \in [Conns -> {"closed", "idle"} \cup Watching],
           cur' \in [Conns -> Nat], wins' \in [Conns -> Nat],
           conns' \in [Conns -> SlotType],
           \A x \in Conns :
              InStep(conns'[x], pc'[x], cur'[x], core'.payload[Contended]),
           core'.payload[Contended] = Total(wins', Conns)
    PROVE  CasInv'
<1>1. Consistent(core)'
  BY DEF Racing, Consistent, CoreType, AllTypes, Linked, HasTtl, OfType
<1>2. Racing(core)'
  BY <1>1 DEF Racing, Stored, Linked
<1>3. \A x \in Conns : InStep(conns[x], pc[x], cur[x], core.payload[Contended])'
  BY DEF InStep, SlotType, Bids, Bid, Watching
<1>4. Total(wins, Conns)' = Total(wins', Conns)
  BY DEF Total, MapThenSumSet, MapThenFoldSet
<1> QED BY <1>2, <1>3, <1>4 DEF CasInv, SlotType, Bids, Watching

\* A step of one client that leaves the dictionary as it is.
LEMMA SlotStep ==
    ASSUME CasInv, NEW x \in Conns, NEW c, NEW p \in {"closed", "idle"} \cup Watching,
           core' = Fresh, conns' = [conns EXCEPT ![x] = c],
           pc' = [pc EXCEPT ![x] = p], cur' = cur, wins' = wins,
           InStep(c, p, cur[x], core.payload[Contended])
    PROVE  CasInv'
<1>1. Racing(core') /\ core'.payload = core.payload
  BY FreshRacing DEF CasInv
<1>2. c \in SlotType
  BY DEF InStep
<1>3. /\ conns' \in [Conns -> SlotType]
      /\ pc' \in [Conns -> {"closed", "idle"} \cup Watching]
      /\ cur' \in [Conns -> Nat] /\ wins' \in [Conns -> Nat]
      /\ core'.payload[Contended] = Total(wins', Conns)
  BY <1>1, <1>2 DEF CasInv
<1>4. \A y \in Conns : InStep(conns'[y], pc'[y], cur'[y], core'.payload[Contended])
  <2> TAKE y \in Conns
  <2>1. CASE y = x
    <3>1. conns'[y] = c /\ pc'[y] = p /\ cur'[y] = cur[x]
      BY <2>1 DEF CasInv
    <3> QED BY <1>1, <3>1
  <2>2. CASE y # x
    <3>1. conns'[y] = conns[y] /\ pc'[y] = pc[y] /\ cur'[y] = cur[y]
      BY <2>2 DEF CasInv
    <3> QED BY <1>1, <3>1 DEF CasInv
  <2> QED BY <2>1, <2>2
<1> QED BY <1>1, <1>3, <1>4, PrimeCas

\* ar_watch_touch changes nothing but dirty flags, which it raises for every
\* client that watches the contended key when that key is among K.
LEMMA NotifySlots ==
    ASSUME CasInv, NEW K, NEW y \in Conns
    PROVE  LET n == Notify(conns, K)[y] IN
           /\ n \in SlotType
           /\ n.in_use = conns[y].in_use /\ n.in_multi = conns[y].in_multi
           /\ n.multi_q = conns[y].multi_q /\ n.watch_keys = conns[y].watch_keys
           /\ conns[y].watch_dirty => n.watch_dirty
           /\ pc[y] \in Watching /\ Contended \in K => n.watch_dirty
<1> DEFINE o == conns[y]
           b == o.watch_dirty \/ (o.in_use /\ o.watch_keys \cap K # {})
           n == Notify(conns, K)[y]
<1>1. o \in SlotType /\ InStep(o, pc[y], cur[y], core.payload[Contended])
  BY DEF CasInv
<1>2. n = [o EXCEPT !.watch_dirty = b]
  BY <1>1 DEF Notify, SlotType
<1>3. b \in BOOLEAN
  BY <1>1 DEF SlotType
<1>4. o.watch_dirty => b
  OBVIOUS
<1>5. pc[y] \in Watching /\ Contended \in K => b
  <2> SUFFICES ASSUME pc[y] \in Watching, Contended \in K PROVE b
    OBVIOUS
  <2>1. pc[y] # "closed"
    BY DEF Watching
  <2>2. o.in_use /\ Contended \in o.watch_keys
    BY <1>1, <2>1 DEF InStep
  <2> QED BY <2>2
<1> HIDE DEF n, o, b
<1>6. /\ n \in SlotType /\ n.watch_dirty = b
      /\ n.in_use = o.in_use /\ n.in_multi = o.in_multi
      /\ n.multi_q = o.multi_q /\ n.watch_keys = o.watch_keys
  BY <1>1, <1>2, <1>3 DEF SlotType
<1> QED BY <1>4, <1>5, <1>6 DEF n, o

-----------------------------------------------------------------------------
(* One lemma per step of a client.                                         *)

LEMMA EmptyBids == <<>> \in Bids
BY DEF Bids

LEMMA ConnectInv ==
    ASSUME CasInv, NEW x \in Conns, Connect(x)
    PROVE  CasInv'
<1> DEFINE c == [NoConn EXCEPT !.in_use = TRUE]
<1>1. /\ core' = Fresh /\ conns' = [conns EXCEPT ![x] = c]
      /\ pc' = [pc EXCEPT ![x] = "idle"] /\ cur' = cur /\ wins' = wins
  BY DEF Connect, At, Accept, OnlyConn
<1>2. c \in SlotType /\ c.in_use
  BY EmptyBids DEF NoConn, SlotType
<1>3. InStep(c, "idle", cur[x], core.payload[Contended])
  <2> HIDE DEF c
  <2> QED BY <1>2 DEF InStep, Watching
<1> QED BY <1>1, <1>3, SlotStep

LEMMA DropInv ==
    ASSUME CasInv, NEW x \in Conns, Drop(x)
    PROVE  CasInv'
<1>1. /\ core' = Fresh /\ conns' = [conns EXCEPT ![x] = NoConn]
      /\ pc' = [pc EXCEPT ![x] = "closed"] /\ cur' = cur /\ wins' = wins
  BY DEF Drop, Close, OnlyConn
<1>2. NoConn \in SlotType
  BY EmptyBids DEF NoConn, SlotType
<1>3. InStep(NoConn, "closed", cur[x], core.payload[Contended])
  BY <1>2 DEF InStep, Watching
<1> QED BY <1>1, <1>3, SlotStep

LEMMA WatchItInv ==
    ASSUME CasInv, NEW x \in Conns, WatchIt(x)
    PROVE  CasInv'
<1> DEFINE o == conns[x]
           c == [o EXCEPT !.watch_keys = o.watch_keys \cup {Contended}]
<1>1. o \in SlotType /\ conns \in [Conns -> SlotType] /\ Contended \in Keys
  BY RaceAssumption DEF CasInv
<1>2. /\ core' = Fresh /\ conns' = [conns EXCEPT ![x] = c]
      /\ pc' = [pc EXCEPT ![x] = "watching"] /\ cur' = cur /\ wins' = wins
      /\ o.in_use
  BY <1>1 DEF WatchIt, At, Watch
<1>3. c \in SlotType /\ Contended \in c.watch_keys /\ c.in_use = o.in_use
  BY <1>1 DEF SlotType
<1>4. InStep(c, "watching", cur[x], core.payload[Contended]) /\ "watching" \in Watching
  <2> HIDE DEF c, o
  <2> QED BY <1>2, <1>3 DEF InStep, Watching
<1> QED BY <1>2, <1>4, SlotStep

LEMMA BeginInv ==
    ASSUME CasInv, NEW x \in Conns, Begin(x)
    PROVE  CasInv'
<1> DEFINE o == conns[x]
           c == [o EXCEPT !.in_multi = TRUE, !.multi_q = <<>>]
<1>1. o \in SlotType /\ InStep(o, "read", cur[x], core.payload[Contended])
  BY DEF CasInv, Begin, At
<1>2. /\ core' = Fresh /\ conns' = [conns EXCEPT ![x] = c]
      /\ pc' = [pc EXCEPT ![x] = "begun"] /\ cur' = cur /\ wins' = wins
  BY DEF Begin, At, Multi, OnlyConn
<1> HIDE DEF o
<1>3. /\ c \in SlotType /\ c.in_use = o.in_use /\ c.multi_q = <<>>
      /\ c.watch_keys = o.watch_keys /\ c.watch_dirty = o.watch_dirty
  BY <1>1, EmptyBids DEF SlotType
<1>4. InStep(c, "begun", cur[x], core.payload[Contended]) /\ "begun" \in Watching
  <2> HIDE DEF c
  <2> QED BY <1>1, <1>3 DEF InStep, Watching
<1> QED BY <1>2, <1>4, SlotStep

LEMMA UpdateInv ==
    ASSUME CasInv, NEW x \in Conns, Update(x)
    PROVE  CasInv'
<1> DEFINE o == conns[x]
           b == Bid(cur[x] + 1)
           q == Append(o.multi_q, b)
           c == [o EXCEPT !.multi_q = q]
<1>1. /\ o \in SlotType /\ InStep(o, "begun", cur[x], core.payload[Contended])
      /\ cur[x] \in Nat
  BY DEF CasInv, Update, At
<1>2. [Race EXCEPT !.arg = cur[x] + 1] = b
  BY DEF Race, Bid
<1>3. /\ core' = Fresh /\ conns' = [conns EXCEPT ![x] = c]
      /\ pc' = [pc EXCEPT ![x] = "queued"] /\ cur' = cur /\ wins' = wins
  BY <1>2 DEF Update, At, Queue, OnlyConn
<1>4. b \in [op : {"set"}, key : {Contended}, arg : Nat]
  BY <1>1 DEF Bid
<1> HIDE DEF b
<1>5. q = <<b>> /\ q \in Bids
  <2>1. o.multi_q = <<>>
    BY <1>1 DEF InStep
  <2> DEFINE B == [op : {"set"}, key : {Contended}, arg : Nat]
  <2>2. b \in B /\ Bids = Seq(B)
    BY <1>4 DEF Bids
  <2> HIDE DEF B, o
  <2>3. Append(<<>>, b) = <<b>> /\ <<b>> \in Seq(B)
    BY <2>2
  <2> QED BY <2>1, <2>2, <2>3
<1> HIDE DEF o, q
<1>6. /\ c \in SlotType /\ c.in_use = o.in_use /\ c.multi_q = q
      /\ c.watch_keys = o.watch_keys /\ c.watch_dirty = o.watch_dirty
  BY <1>1, <1>5 DEF SlotType
<1>7. InStep(c, "queued", cur[x], core.payload[Contended]) /\ "queued" \in Watching
  <2> HIDE DEF c
  <2> QED BY <1>1, <1>5, <1>6 DEF InStep, Watching, b
<1> QED BY <1>3, <1>7, SlotStep

LEMMA ClearSlot ==
    ASSUME NEW o \in SlotType
    PROVE  LET c == WatchClear(MultiClear(o)) IN
           c \in SlotType /\ c.in_use = o.in_use
BY EmptyBids DEF WatchClear, MultiClear, SlotType

LEMMA LoseInv ==
    ASSUME CasInv, NEW x \in Conns, Lose(x)
    PROVE  CasInv'
<1> DEFINE c == WatchClear(MultiClear(conns[x]))
<1>1. conns[x] \in SlotType /\ conns[x].in_use
  BY DEF CasInv, Lose, ExecAbort
<1>2. /\ core' = Fresh /\ conns' = [conns EXCEPT ![x] = c]
      /\ pc' = [pc EXCEPT ![x] = "idle"] /\ cur' = cur /\ wins' = wins
  BY DEF Lose, At, ExecAbort, OnlyConn
<1>3. c \in SlotType /\ c.in_use
  BY <1>1, ClearSlot
<1>4. InStep(c, "idle", cur[x], core.payload[Contended])
  <2> HIDE DEF c
  <2> QED BY <1>3 DEF InStep, Watching
<1> QED BY <1>2, <1>4, SlotStep

\* GET changes nothing, and tells the client what the key holds.
LEMMA ReadInv ==
    ASSUME CasInv, NEW x \in Conns, Read(x)
    PROVE  CasInv'
<1> DEFINE v == core.payload[Contended]
           n == Notify(conns, core'.touched)
           cmd == [Race EXCEPT !.op = "get"]
<1>1. /\ core' \in Effects(Fresh, cmd)
      /\ conns' = [n EXCEPT ![x] = n[x]]
      /\ pc' = [pc EXCEPT ![x] = "read"] /\ pc[x] = "watching"
      /\ cur' = [cur EXCEPT ![x] = core'.payload[Contended]] /\ wins' = wins
  BY DEF Read, At, RunNow, Commit, Step
<1>2. cmd.op = "get" /\ cmd.key = Contended
  BY DEF Race
<1>3. Racing(Fresh) /\ Fresh.payload = core.payload
  BY FreshRacing DEF CasInv
<1> HIDE DEF cmd
<1>4. core' = Fresh
  BY <1>1, <1>2, <1>3, ReadOutcome
<1>5. core'.payload[Contended] = v /\ v \in Nat /\ Racing(core')
  BY <1>3, <1>4, RaceAssumption DEF CasInv, Racing, Consistent, CoreType
<1>6. conns' = n /\ n = [y \in Conns |-> n[y]]
  BY <1>1 DEF Notify
<1> HIDE DEF n, v
<1>7. \A y \in Conns : InStep(conns'[y], pc'[y], cur'[y], core'.payload[Contended])
  <2> TAKE y \in Conns
  <2>1. /\ n[y] \in SlotType
        /\ n[y].in_use = conns[y].in_use /\ n[y].multi_q = conns[y].multi_q
        /\ n[y].watch_keys = conns[y].watch_keys
        /\ conns[y].watch_dirty => n[y].watch_dirty
    BY NotifySlots DEF n
  <2>2. InStep(conns[y], pc[y], cur[y], v)
    BY DEF CasInv, v
  <2>3. CASE y = x
    <3>1. pc'[y] = "read" /\ cur'[y] = v
      BY <1>1, <1>5, <2>3 DEF CasInv
    <3>2. conns[y].in_use /\ Contended \in conns[y].watch_keys
      BY <1>1, <2>2, <2>3 DEF InStep, Watching
    <3> QED BY <1>5, <1>6, <2>1, <3>1, <3>2 DEF InStep, Watching
  <2>4. CASE y # x
    <3>1. pc'[y] = pc[y] /\ cur'[y] = cur[y]
      BY <1>1, <2>4 DEF CasInv
    <3> QED BY <1>5, <1>6, <2>1, <2>2, <3>1 DEF InStep
  <2> QED BY <2>3, <2>4
<1>8. /\ conns' \in [Conns -> SlotType]
      /\ pc' \in [Conns -> {"closed", "idle"} \cup Watching]
      /\ cur' \in [Conns -> Nat] /\ wins' \in [Conns -> Nat]
  <2>1. \A y \in Conns : n[y] \in SlotType
    BY NotifySlots DEF n
  <2> QED BY <1>1, <1>5, <1>6, <2>1 DEF CasInv, Watching
<1>9. core'.payload[Contended] = Total(wins', Conns)
  BY <1>1, <1>5 DEF CasInv, v
<1> QED BY <1>5, <1>7, <1>8, <1>9, PrimeCas

\* EXEC on a clean slot runs the queued SET of one more than the key holds.
LEMMA WinFacts ==
    ASSUME CasInv, NEW x \in Conns, Win(x)
    PROVE  /\ Racing(core') /\ Contended \in core'.touched
           /\ core'.payload[Contended] = core.payload[Contended] + 1
<1> DEFINE b == Bid(cur[x] + 1)
<1>1. /\ core' \in RunQueue(Fresh, conns[x].multi_q) /\ ~ conns[x].watch_dirty
      /\ pc[x] = "queued"
  BY DEF Win, At, ExecRun, Commit, Step
<1>2. conns[x].multi_q = <<b>> /\ cur[x] = core.payload[Contended] /\ cur[x] + 1 \in Nat
  BY <1>1 DEF CasInv, InStep, Watching
<1> HIDE DEF b
<1>3. Len(<<b>>) = 1 /\ <<b>>[1] = b
  OBVIOUS
<1>4. PICK g : RunStep(Fresh, <<b>>, 1, g) /\ RunQueue(Fresh, <<b>>) = g[1]
  BY <1>3, RunValue
<1>5. g[0] = {Fresh} /\ g[1] = UNION {Effects(d, <<b>>[1]) : d \in g[1 - 1]}
  BY <1>4 DEF RunStep
<1>6. core' \in Effects(Fresh, b)
  <2>1. 1 - 1 = 0
    OBVIOUS
  <2> QED BY <1>1, <1>2, <1>3, <1>4, <1>5, <2>1
<1>7. Racing(Fresh)
  BY FreshRacing DEF CasInv
<1> QED BY <1>2, <1>6, <1>7, BidOutcome DEF b

LEMMA WinInv ==
    ASSUME CasInv, NEW x \in Conns, Win(x)
    PROVE  CasInv'
<1> DEFINE v == core.payload[Contended]
           n == Notify(conns, core'.touched)
           c == WatchClear(MultiClear(n[x]))
<1>1. /\ Racing(core') /\ Contended \in core'.touched
      /\ core'.payload[Contended] = v + 1
  BY WinFacts
<1>2. /\ conns' = [n EXCEPT ![x] = c] /\ conns[x].in_use
      /\ pc' = [pc EXCEPT ![x] = "idle"] /\ pc[x] = "queued"
      /\ wins' = [wins EXCEPT ![x] = wins[x] + 1] /\ cur' = cur
  BY DEF Win, At, ExecRun, Commit, CasInv
<1>3. n = [y \in Conns |-> n[y]]
  BY DEF Notify
<1>4. /\ \A y \in Conns : n[y] \in SlotType
      /\ n[x].in_use = conns[x].in_use
  BY NotifySlots
<1> HIDE DEF n, v
<1>5. c \in SlotType /\ c.in_use
  BY <1>2, <1>4, ClearSlot
<1> HIDE DEF c
<1>6. \A y \in Conns : InStep(conns'[y], pc'[y], cur'[y], core'.payload[Contended])
  <2> TAKE y \in Conns
  <2>1. CASE y = x
    <3>1. conns'[y] = c /\ pc'[y] = "idle"
      BY <1>2, <1>3, <2>1 DEF CasInv
    <3> QED BY <1>5, <3>1 DEF InStep, Watching
  <2>2. CASE y # x
    <3>1. conns'[y] = n[y] /\ pc'[y] = pc[y] /\ cur'[y] = cur[y]
      BY <1>2, <1>3, <2>2 DEF CasInv
    <3>2. /\ n[y].in_use = conns[y].in_use /\ n[y].multi_q = conns[y].multi_q
          /\ n[y].watch_keys = conns[y].watch_keys
          /\ pc[y] \in Watching => n[y].watch_dirty
      BY <1>1, NotifySlots DEF n
    <3>3. InStep(conns[y], pc[y], cur[y], v)
      BY DEF CasInv, v
    <3> QED BY <1>4, <3>1, <3>2, <3>3 DEF InStep
  <2> QED BY <2>1, <2>2
<1>7. /\ conns' \in [Conns -> SlotType]
      /\ pc' \in [Conns -> {"closed", "idle"} \cup Watching]
      /\ cur' \in [Conns -> Nat] /\ wins' \in [Conns -> Nat]
  BY <1>2, <1>3, <1>4, <1>5 DEF CasInv
<1>8. core'.payload[Contended] = Total(wins', Conns)
  <2> DEFINE u == wins'
  <2>1. wins \in [Conns -> Nat] /\ v = Total(wins, Conns) /\ IsFiniteSet(Conns)
    BY RaceAssumption DEF CasInv, v
  <2>2. /\ \A y \in Conns : wins[y] \in Nat /\ u[y] \in Nat
        /\ \A y \in Conns \ {x} : wins[y] = u[y]
        /\ u[x] = wins[x] + 1
    BY <1>2, <2>1
  <2> HIDE DEF u
  <2>3. Total(u, Conns) + wins[x] = Total(wins, Conns) + u[x]
    BY <2>1, <2>2, TotalChange
  <2>4. Total(u, Conns) \in Nat /\ Total(wins, Conns) \in Nat
    BY <2>1, <2>2, TotalPick
  <2> QED BY <1>1, <2>1, <2>2, <2>3, <2>4 DEF u
<1> QED BY <1>1, <1>6, <1>7, <1>8, PrimeCas

LEMMA CasInitInv == CInit => CasInv
<1> SUFFICES ASSUME CInit PROVE CasInv
  OBVIOUS
<1>1. /\ EmptyCore.hot = {} /\ EmptyCore.cold = {} /\ EmptyCore.layout = "flat"
      /\ EmptyCore.maxmemory = 0 /\ EmptyCore.expire_at = [k \in Keys |-> 0]
      /\ EmptyCore \in CoreType /\ Consistent(EmptyCore)
  BY EmptyConsistent DEF EmptyCore, Consistent
<1>2. Contended \in Keys \ Linked(EmptyCore) /\ "string" \in AllTypes /\ 0 \in Nat
  BY <1>1, RaceAssumption DEF Linked, AllTypes
<1>3. core = LinkNew(EmptyCore, Contended, "string", 0)
  BY DEF CInit
<1>4. Consistent(core) /\ Contended \in Linked(core)
  BY <1>1, <1>2, <1>3, LinkConsistent
<1>5. /\ core.layout = "flat" /\ core.maxmemory = 0
      /\ core.payload[Contended] = 0 /\ core.type[Contended] = "string"
      /\ core.expire_at[Contended] = 0
  BY <1>1, <1>2, <1>3 DEF LinkNew, CoreType
<1>6. Racing(core)
  BY <1>4, <1>5 DEF Racing, Stored
<1>7. NoConn \in SlotType
  BY EmptyBids DEF NoConn, SlotType
<1>8. /\ conns \in [Conns -> SlotType] /\ cur \in [Conns -> Nat]
      /\ wins \in [Conns -> Nat] /\ pc \in [Conns -> {"closed", "idle"} \cup Watching]
      /\ \A x \in Conns : conns[x] = NoConn /\ pc[x] = "closed" /\ wins[x] = 0
  BY <1>7 DEF CInit
<1>9. \A x \in Conns : InStep(conns[x], pc[x], cur[x], core.payload[Contended])
  BY <1>7, <1>8 DEF InStep, Watching
<1>10. Total(wins, Conns) = 0
  <2> QED BY <1>8, RaceAssumption, TotalZero
<1> QED BY <1>5, <1>6, <1>8, <1>9, <1>10 DEF CasInv

LEMMA CasNextInv == CasInv /\ [CNext]_cvars => CasInv'
<1> SUFFICES ASSUME CasInv, [CNext]_cvars PROVE CasInv'
  OBVIOUS
<1>1. CASE UNCHANGED cvars
  <2>1. /\ core' = core /\ conns' = conns /\ pc' = pc /\ cur' = cur /\ wins' = wins
    BY <1>1 DEF cvars
  <2> QED BY <2>1, PrimeCas DEF CasInv
<1>2. CASE CNext
  <2>1. PICK x \in Conns : Client(x) \/ Drop(x)
    BY <1>2 DEF CNext
  <2> QED BY <2>1, ConnectInv, DropInv, WatchItInv, ReadInv, BeginInv, UpdateInv,
             WinInv, LoseInv DEF Client
<1> QED BY <1>1, <1>2

\* The value of the contended key counts the EXECs that were not answered by
\* the null array, whatever the number of clients, the order of their
\* commands and the connections they lose: dispatch's WATCH, MULTI and EXEC
\* make a read-modify-write atomic.
THEOREM UpdatesNotLost == CSpec => []NoLostUpdate
<1>1. CasInv => NoLostUpdate
  BY DEF CasInv, NoLostUpdate, Total
<1> QED BY <1>1, CasInitInv, CasNextInv, PTL DEF CSpec
===============================================================================
