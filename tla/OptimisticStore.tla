--------------------------- MODULE OptimisticStore ---------------------------
(***************************************************************************)
(* What WATCH, MULTI and EXEC promise, without dirty flags, tables,        *)
(* counters or eviction kernels: a cache of values, and per connection the *)
(* values it marked and the commands it queued.                            *)
(*                                                                         *)
(* A commit runs the whole queue in one step, and only while every marked  *)
(* key still holds the value it was marked with.  Being a cache, the store *)
(* may lose keys in any step (expiry, eviction); it may never make up or   *)
(* alter a value.                                                          *)
(***************************************************************************)
EXTENDS Naturals, Sequences

CONSTANTS
    Keys,    \* key names
    Conns,   \* connections
    Cmds     \* commands: [op, key, arg]

VARIABLES
    store,   \* value of each key: <<exists, size, type, deadline>>
    clock,   \* the time deadlines are computed from
    marks,   \* per connection: the marked keys with their values
    open,    \* connections inside MULTI
    queue    \* per connection: the queued commands

avars == <<store, clock, marks, open, queue>>

Absent == <<FALSE, 0, "string", 0>>

Value(cmd) ==
    CASE cmd.op = "set"   -> <<TRUE, cmd.arg, "string", 0>>
      [] cmd.op = "setex" -> <<TRUE, cmd.arg, "string", clock + 1>>
      [] OTHER            -> Absent

\* What a command leaves, if the store loses nothing.
Result(s, cmd) ==
    CASE cmd.op = "get"     -> s
      [] cmd.op = "flushdb" -> [k \in Keys |-> Absent]
      [] OTHER              -> [s EXCEPT ![cmd.key] = Value(cmd)]

\* ... and a sequence of commands, one after the other.
Results(s, cmds) ==
    LET after[i \in 0..Len(cmds)] ==
            IF i = 0 THEN s ELSE Result(after[i - 1], cmds[i])
    IN  after[Len(cmds)]

\* The store becomes s, some of its keys lost.
Becomes(s) ==
    /\ store' \in {[k \in Keys |-> IF k \in L THEN Absent ELSE s[k]] :
                      L \in SUBSET Keys}
    /\ UNCHANGED clock

NoMarks == [k \in {} |-> Absent]

\* Connection x keeps neither marks nor queue.
Reset(x) ==
    /\ marks' = [marks EXCEPT ![x] = NoMarks]
    /\ open' = open \ {x}
    /\ queue' = [queue EXCEPT ![x] = <<>>]

Run(x, cmd) ==
    /\ x \notin open
    /\ Becomes(Result(store, cmd))
    /\ UNCHANGED <<marks, open, queue>>

Mark(x, k) ==
    /\ x \notin open /\ k \notin DOMAIN marks[x]
    /\ marks' = [marks EXCEPT ![x] =
                   [j \in DOMAIN @ \cup {k} |-> IF j = k THEN store[k] ELSE @[j]]]
    /\ UNCHANGED <<store, clock, open, queue>>

Unmark(x) ==
    /\ marks' = [marks EXCEPT ![x] = NoMarks]
    /\ UNCHANGED <<store, clock, open, queue>>

Open(x) ==
    /\ x \notin open
    /\ open' = open \cup {x}
    /\ UNCHANGED <<store, clock, marks, queue>>

Enqueue(x, cmd) ==
    /\ x \in open
    /\ queue' = [queue EXCEPT ![x] = Append(@, cmd)]
    /\ UNCHANGED <<store, clock, marks, open>>

\* The queue, or the part of it that ran before the connection broke.
Commit(x) ==
    /\ x \in open
    /\ \A k \in DOMAIN marks[x] : store[k] = marks[x][k]
    /\ \E n \in 0..Len(queue[x]) : Becomes(Results(store, SubSeq(queue[x], 1, n)))
    /\ Reset(x)

\* DISCARD, an EXEC that is refused, a connection that goes or comes.
Abort(x) ==
    /\ Reset(x)
    /\ UNCHANGED <<store, clock>>

Lose == Becomes(store) /\ UNCHANGED <<marks, open, queue>>

Tick == clock' = clock + 1 /\ UNCHANGED <<store, marks, open, queue>>

Init ==
    /\ store = [k \in Keys |-> Absent]
    /\ clock = 0
    /\ marks = [x \in Conns |-> NoMarks]
    /\ open = {}
    /\ queue = [x \in Conns |-> <<>>]

Next ==
    \/ \E x \in Conns, cmd \in Cmds : Run(x, cmd) \/ Enqueue(x, cmd)
    \/ \E x \in Conns, k \in Keys : Mark(x, k)
    \/ \E x \in Conns : Unmark(x) \/ Open(x) \/ Commit(x) \/ Abort(x)
    \/ Lose \/ Tick

Spec == Init /\ [][Next]_avars
===============================================================================
