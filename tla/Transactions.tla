----------------------------- MODULE Transactions -----------------------------
(***************************************************************************)
(* Optimistic transactions: WATCH, UNWATCH, MULTI, queueing, EXEC and      *)
(* DISCARD of native/src/ar_server.c (dispatch), over the dictionary of    *)
(* module Keyspace.  The two meet in ar_watch_touch, which marks dirty     *)
(* every connection that watches a changed key: Keyspace collects those    *)
(* keys in core.touched, this module hands them to the connections.        *)
(*                                                                         *)
(* `seen' is a history variable: what was stored under each key when the   *)
(* connection began to watch it.                                           *)
(***************************************************************************)
EXTENDS Keyspace, Sequences

CONSTANTS
    Conns,      \* connection slots (AR_MAX_CONN of them)
    Cmds,       \* commands clients send: [op, key, arg]
    MultiMax,   \* AR_MULTI_MAX: commands a queue holds
    WatchMax,   \* AR_WATCH_MAX: keys a connection watches
    AllocFails  \* whether realloc of a reply buffer may fail

Ops == {"set", "setex", "get", "del", "flushdb"}

ASSUME ConnsAssumption ==
    /\ Cmds \subseteq [op : Ops, key : Keys, arg : Nat]
    /\ MultiMax \in Nat /\ WatchMax \in Nat /\ AllocFails \in BOOLEAN

VARIABLES conns, seen

tvars == <<core, now, conns, seen>>

NoConn == [in_use |-> FALSE, in_multi |-> FALSE, multi_q |-> <<>>,
           watch_keys |-> {}, watch_dirty |-> FALSE]

ConnType == [in_use : BOOLEAN, in_multi : BOOLEAN,
             multi_q : UNION {[1..n -> Cmds] : n \in 0..MultiMax},
             watch_keys : SUBSET Keys, watch_dirty : BOOLEAN]

Unseen == [k \in Keys |-> <<>>]

TTypeOK ==
    /\ TypeOK
    /\ conns \in [Conns -> ConnType]
    /\ \A x \in Conns, k \in Keys :
          seen[x][k] # <<>> <=> k \in conns[x].watch_keys

-----------------------------------------------------------------------------
(* What a command does to the dictionary, and to the watchers.  The other  *)
(* write commands meet transactions in the same two ways: they change the  *)
(* record and leave in core.touched what they changed (Keyspace checks     *)
(* that they do: WatchSeesEveryChange).                                    *)

Effects(c, cmd) ==
    LET k == cmd.key
    IN  CASE cmd.op = "set"   -> EntrySetEx(c, k, cmd.arg, 0)
          [] cmd.op = "setex" -> EntrySetEx(c, k, cmd.arg, now + 1)
          [] cmd.op = "get"   -> GetPtr(c, k)
          [] cmd.op = "del"   -> {DelBin(c, k)}
          [] OTHER            -> {FlushDb(c)}

\* EXEC dispatches the queued commands one after the other: run[i] are the
\* records the first i of them may leave.
RunQueue(c, q) ==
    LET run[i \in 0..Len(q)] ==
            IF i = 0 THEN {c} ELSE UNION {Effects(d, q[i]) : d \in run[i - 1]}
    IN  run[Len(q)]

\* Mutant: only connections inside MULTI are marked.
Notify_InMultiOnly(cs, K) ==
    [x \in Conns |-> [cs[x] EXCEPT !.watch_dirty =
                         @ \/ (cs[x].in_multi /\ cs[x].watch_keys \cap K # {})]]

\* ar_watch_touch: every connection that watches a touched key turns dirty.
Notify(cs, K) ==
    [x \in Conns |-> [cs[x] EXCEPT !.watch_dirty =
                         @ \/ (cs[x].in_use /\ cs[x].watch_keys \cap K # {})]]

MultiClear(c) == [c EXCEPT !.in_multi = FALSE, !.multi_q = <<>>]

\* Mutant: the keys are forgotten, the flag stays.
WatchClear_KeepsDirty(c) == [c EXCEPT !.watch_keys = {}]

WatchClear(c) == [c EXCEPT !.watch_keys = {}, !.watch_dirty = FALSE]

\* The dictionary takes one of the states of S; connection x becomes c after
\* the notifications, and has forgotten its watches if it watches no key.
Commit(S, x, c(_)) ==
    /\ Step(S)
    /\ conns' = [Notify(conns, core'.touched) EXCEPT ![x] = c(@)]
    /\ seen' = IF conns'[x].watch_keys = {} THEN [seen EXCEPT ![x] = Unseen] ELSE seen

\* A change of connection x that leaves the dictionary alone.
OnlyConn(x, c) ==
    /\ core' = Fresh /\ now' = now
    /\ conns' = [conns EXCEPT ![x] = c]
    /\ seen' = IF c.watch_keys = {} THEN [seen EXCEPT ![x] = Unseen] ELSE seen

-----------------------------------------------------------------------------
(* The branches of dispatch.                                               *)

\* conn_alloc takes a free slot and resets it; conn_close resets it again.
Accept(x) ==
    /\ ~ conns[x].in_use
    /\ OnlyConn(x, [NoConn EXCEPT !.in_use = TRUE])

Close(x) ==
    /\ conns[x].in_use
    /\ OnlyConn(x, NoConn)

\* A command outside MULTI runs at once.
RunNow(x, cmd) ==
    /\ conns[x].in_use /\ ~ conns[x].in_multi
    /\ Commit(Effects(Fresh, cmd), x, LAMBDA c : c)

\* WATCH looks nothing up and leaves the dirty flag as it is; beyond the
\* limit it is refused.
Watch(x, k) ==
    /\ conns[x].in_use /\ ~ conns[x].in_multi
    /\ k \notin conns[x].watch_keys
    /\ Cardinality(conns[x].watch_keys) < WatchMax
    /\ core' = Fresh /\ now' = now
    /\ conns' = [conns EXCEPT ![x].watch_keys = @ \cup {k}]
    /\ seen' = [seen EXCEPT ![x][k] = Observable(core, k)]

\* UNWATCH is never queued: inside MULTI too it acts at once.
Unwatch(x) ==
    /\ conns[x].in_use
    /\ OnlyConn(x, WatchClear(conns[x]))

Multi(x) ==
    /\ conns[x].in_use /\ ~ conns[x].in_multi
    /\ OnlyConn(x, [conns[x] EXCEPT !.in_multi = TRUE, !.multi_q = <<>>])

\* Mutant: the queue takes one command too many.
Queue_OffByOne(x, cmd) ==
    /\ conns[x].in_use /\ conns[x].in_multi
    /\ Len(conns[x].multi_q) <= MultiMax
    /\ OnlyConn(x, [conns[x] EXCEPT !.multi_q = Append(@, cmd)])

\* A full queue refuses the command and stays executable.
Queue(x, cmd) ==
    /\ conns[x].in_use /\ conns[x].in_multi
    /\ Len(conns[x].multi_q) < MultiMax
    /\ OnlyConn(x, [conns[x] EXCEPT !.multi_q = Append(@, cmd)])

Discard(x) ==
    /\ conns[x].in_use /\ conns[x].in_multi
    /\ OnlyConn(x, WatchClear(MultiClear(conns[x])))

\* Mutant: the flag is looked at after the queue has run.
ExecAbort_TooLate(x) ==
    /\ conns[x].in_use /\ conns[x].in_multi
    /\ conns[x].watch_dirty
    /\ Commit(RunQueue(Fresh, conns[x].multi_q), x,
              LAMBDA c : WatchClear(MultiClear(c)))

ExecAbort(x) ==
    /\ conns[x].in_use /\ conns[x].in_multi
    /\ conns[x].watch_dirty
    /\ OnlyConn(x, WatchClear(MultiClear(conns[x])))

ExecRun(x) ==
    /\ conns[x].in_use /\ conns[x].in_multi
    /\ ~ conns[x].watch_dirty
    /\ Commit(RunQueue(Fresh, conns[x].multi_q), x,
              LAMBDA c : WatchClear(MultiClear(c)))

\* A reply that cannot be buffered stops EXEC half way: the commands up to
\* it have run, the queue and the watches are cleared as after a whole EXEC.
\* The connection is marked should_close and stays in use until its buffer is
\* flushed; Close is that later step.
ExecBroken(x) ==
    /\ AllocFails
    /\ conns[x].in_use /\ conns[x].in_multi
    /\ ~ conns[x].watch_dirty
    /\ \E n \in 0..Len(conns[x].multi_q) :
          Commit(RunQueue(Fresh, SubSeq(conns[x].multi_q, 1, n)), x,
                 LAMBDA c : WatchClear(MultiClear(c)))

\* Duties of the event loop between two commands.
Background ==
    /\ \/ \E X \in SUBSET Keys : ActiveExpire(X)
       \/ Tick
    /\ conns' = Notify(conns, core'.touched)
    /\ seen' = seen

TInit ==
    /\ \/ core = EmptyCore
       \/ \E m \in MaxMemories, e \in EvictNames :
             core = [EmptyCore EXCEPT !.maxmemory = m, !.evict = e]
    /\ now = 0
    /\ conns = [x \in Conns |-> NoConn]
    /\ seen = [x \in Conns |-> Unseen]

Dispatch(x) ==
    \/ Accept(x) \/ Close(x)
    \/ \E cmd \in Cmds : RunNow(x, cmd) \/ Queue(x, cmd)
    \/ \E k \in Keys : Watch(x, k)
    \/ Unwatch(x) \/ Multi(x) \/ Discard(x)
    \/ ExecAbort(x) \/ ExecRun(x) \/ ExecBroken(x)

TNext == (\E x \in Conns : Dispatch(x)) \/ Background

TSpec == TInit /\ [][TNext]_tvars

-----------------------------------------------------------------------------
(* Properties.                                                             *)

\* Compare and swap: while a connection is not dirty, what is stored under
\* the keys it watches is what was stored when it began to watch them: value,
\* type and deadline, whichever client, sampling eviction or expiry cycle
\* might have changed it.  So the queue EXEC runs meets no foreign change.
CleanWatchUnchanged ==
    \A x \in Conns : ~ conns[x].watch_dirty =>
        \A k \in conns[x].watch_keys : Observable(core, k) = seen[x][k]

\* No spurious abort: the dirty flag never outlives the watches it belongs
\* to.  A flag left by a finished transaction, by the writes of EXEC to keys
\* its own connection watched, or by an earlier client of the slot would
\* abort the next transaction, which watches nothing.
DirtyOnlyWhileWatching ==
    \A x \in Conns : conns[x].watch_dirty => conns[x].watch_keys # {}

\* The server implements the abstract store: the dirty flag, two tables and
\* sampling eviction behave like a commit that compares the marked values and
\* then runs in one step.  No step alters a value except as its command says;
\* keys may only be lost.
Abstract == INSTANCE OptimisticStore WITH
    store <- [k \in Keys |-> Observable(core, k)],
    clock <- now,
    marks <- [x \in Conns |-> [k \in conns[x].watch_keys |-> seen[x][k]]],
    open <- {x \in Conns : conns[x].in_multi},
    queue <- [x \in Conns |-> conns[x].multi_q]

ImplementsOptimisticStore == Abstract!Spec
===============================================================================
