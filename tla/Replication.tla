----------------------------- MODULE Replication -----------------------------
(***************************************************************************)
(* Replication between servers (native/src/ar_server.c): REPLICAOF opens a *)
(* link to a master and makes the node read-only, SYNC answers with the    *)
(* whole dictionary as a stream of commands, and every later write of the  *)
(* master is appended to the same stream verbatim.  Nothing is             *)
(* acknowledged, numbered or sent again; a link that breaks takes the      *)
(* commands in flight with it, and nobody connects again by itself.        *)
(*                                                                         *)
(* A node executes a command to completion; the nodes, the streams, the    *)
(* operator and the clock interleave freely.  A stream holds what is in    *)
(* the master's write buffer, in the network and in the replica's read     *)
(* buffer.  Closing it after a failed write of the master, after EOF, or   *)
(* after an error is LoseLink: bytes received together with EOF are not    *)
(* executed (handle_read), so nothing of the stream survives it.           *)
(*                                                                         *)
(* Abstracted: a value is a string or a list of elements (hashes and       *)
(* sorted sets are sent like strings: their commands overwrite); no        *)
(* maxmemory, as evictions are not propagated and make copies differ.      *)
(***************************************************************************)
EXTENDS Naturals, Sequences, SequencesExt, FiniteSets

CONSTANTS
    Nodes,     \* servers
    Keys,      \* key names
    Vals,      \* what a string or an element of a list can be
    Cmds,      \* write commands of clients
    Second,    \* milliseconds in a second, the unit of ttl
    MaxArgv,   \* AR_MAX_ARGV: arguments the parser accepts
    MaxLen,    \* bound: elements of a list clients make
    MaxCmds,   \* bound: commands clients send
    MaxOps,    \* bound: REPLICAOF, REPLICAOF NO ONE and restarts
    MaxNow     \* bound: last instant of the clock

Ops == {"set", "setnx", "rpush", "lpop", "del", "expire", "flushdb"}

\* vals: the value of SET, the elements of RPUSH; ttl: seconds, 0 for none.
Commands == [op : Ops, key : Keys, vals : Seq(Vals), ttl : Nat]

ASSUME ReplAssumption ==
    /\ IsFiniteSet(Keys)
    /\ Cmds \subseteq Commands
    /\ \A c \in Cmds : c.op \in {"set", "setnx", "rpush"} => c.vals # <<>>
    /\ Second \in Nat \ {0} /\ MaxArgv \in Nat

VARIABLES
    now,       \* the clock, the same for all nodes
    db,        \* db[n][k]: the entry node n has under k
    readonly,  \* repl_readonly of each node
    link,      \* the master link of each node, with its stream
    fed,       \* history: the master of the link has been taking writes of
               \* clients only, since the full sync
    fresh,     \* history: the full sync found the replica empty
    lapsed,    \* history: the keys of each node whose entry ran out, and of
               \* which nothing was sent since that makes up for it
    fragile,   \* history: the keys of each node where a command built upon an
               \* entry with a deadline, or upon its absence after that
    cmds, ops  \* counters for the bounds

rvars == <<now, db, readonly, link, fed, fresh, lapsed, fragile, cmds, ops>>

None == [ty |-> "none", v |-> <<>>, at |-> 0]

Empty == [k \in Keys |-> None]

NoLink == [up |-> FALSE, to |-> "none", synced |-> FALSE, feed |-> <<>>]

LinkTo(m, synced, feed) == [up |-> TRUE, to |-> m, synced |-> synced, feed |-> feed]

-----------------------------------------------------------------------------
(* Commands.  Each but FLUSHDB works on the entry f its lookup finds:      *)
(* the entry it leaves there, and whether the branch of dispatch reaches   *)
(* repl_propagate.                                                         *)

Due(e, t) == e.at # 0 /\ t >= e.at

\* The lookup of every command frees a due entry.
Found(e, t) == IF Due(e, t) THEN None ELSE e

Outcome(e, sent) == [entry |-> e, sent |-> sent]

\* Not positive means no TTL.
Deadline(c, t) == IF c.ttl > 0 THEN t + c.ttl * Second ELSE 0

\* SET key value [EX seconds].
Set(c, t) == Outcome([ty |-> "string", v |-> c.vals, at |-> Deadline(c, t)], TRUE)

SetNx(f, c, t) == IF f.ty # "none" THEN Outcome(f, FALSE) ELSE Set(c, t)

\* RPUSH appends to what the key holds; a string refuses it.
RPush(f, c) ==
    IF f.ty = "string" THEN Outcome(f, FALSE)
    ELSE Outcome([ty |-> "list", v |-> f.v \o c.vals, at |-> f.at], TRUE)

\* LPOP: the last element takes the key with it.
LPop(f) ==
    IF f.ty # "list" THEN Outcome(f, FALSE)
    ELSE Outcome(IF Len(f.v) = 1 THEN None
                 ELSE [ty |-> "list", v |-> Tail(f.v), at |-> f.at], TRUE)

Del(f) == Outcome(None, f.ty # "none")

Expire(f, c, t) ==
    IF f.ty = "none" THEN Outcome(f, FALSE)
    ELSE Outcome([ty |-> f.ty, v |-> f.v, at |-> Deadline(c, t)], TRUE)

\* Command c meets entry e at time t.
Meets(e, c, t) ==
    CASE c.op = "set"    -> Set(c, t)
      [] c.op = "setnx"  -> SetNx(Found(e, t), c, t)
      [] c.op = "rpush"  -> RPush(Found(e, t), c)
      [] c.op = "lpop"   -> LPop(Found(e, t))
      [] c.op = "expire" -> Expire(Found(e, t), c, t)
      [] OTHER           -> Del(Found(e, t))

\* The dictionary that c leaves of d, and whether it is propagated.
Exec(d, c, t) ==
    IF c.op = "flushdb" THEN [db |-> Empty, sent |-> TRUE]
    ELSE LET o == Meets(d[c.key], c, t)
         IN  [db |-> [d EXCEPT ![c.key] = o.entry], sent |-> o.sent]

-----------------------------------------------------------------------------
(* The stream.                                                             *)

\* Mutant: the TTL of a synced key is cut to whole seconds.
SyncTtl_Down(e, t) == IF e.at = 0 THEN 0 ELSE (e.at - t) \div Second

\* Whole seconds, rounded up: never less than what is left.
SyncTtl(e, t) == IF e.at = 0 THEN 0 ELSE (e.at - t + Second - 1) \div Second

\* repl_sync_string: one SET, with EX if there is a TTL.
SyncString(k, e, t) ==
    <<[op |-> "set", key |-> k, vals |-> e.v, ttl |-> SyncTtl(e, t)]>>

\* repl_emit_expire: a command of its own.
EmitExpire(k, e, t) ==
    IF SyncTtl(e, t) = 0 THEN <<>>
    ELSE <<[op |-> "expire", key |-> k, vals |-> <<>>, ttl |-> SyncTtl(e, t)]>>

\* repl_sync_list: one RPUSH of all elements, then EXPIRE.
SyncList(k, e, t) ==
    <<[op |-> "rpush", key |-> k, vals |-> e.v, ttl |-> 0]>> \o EmitExpire(k, e, t)

SyncEntry(k, e, t) ==
    IF e.ty = "none" \/ Due(e, t) THEN <<>>
    ELSE IF e.ty = "string" THEN SyncString(k, e, t)
    ELSE SyncList(k, e, t)

\* repl_fullsync walks both tables and skips due entries.
FullSync(d, t) ==
    LET order == SetToSeq(Keys)
        sent[i \in 0..Len(order)] ==
            IF i = 0 THEN <<>>
            ELSE sent[i - 1] \o SyncEntry(order[i], d[order[i]], t)
    IN  sent[Len(order)]

SyncRefused == [op |-> "error", key |-> "none", vals |-> <<>>, ttl |-> 0]

\* parse_command: an error reply is no command array, and an array of more
\* than AR_MAX_ARGV arguments is a protocol error.
Parses(c) == c.op # "error" /\ 2 + Len(c.vals) <= MaxArgv

Replicas(n) == {r \in Nodes : link[r].up /\ link[r].to = n /\ link[r].synced}

\* Mutant: a replica that is still busy with its full sync is left out.
Propagate_NotWhileSyncing(n, c) ==
    [r \in Nodes |-> IF r \in Replicas(n) /\ link[r].feed = <<>>
                     THEN [link[r] EXCEPT !.feed = Append(@, c)] ELSE link[r]]

\* repl_propagate: appended to the stream of every replica, behind what a
\* full sync has put there.
Propagate(n, c) ==
    [r \in Nodes |-> IF r \in Replicas(n)
                     THEN [link[r] EXCEPT !.feed = Append(@, c)] ELSE link[r]]

-----------------------------------------------------------------------------
(* Actions.                                                                *)

\* A command that leaves the same under its key whatever it meets.
Settles(c, sent) == c.op = "set" \/ (c.op = "del" /\ sent)

\* The lapsed keys after c has met entry e: the lookup frees a due one.
Freed(keys, e, c, sent) ==
    CASE c.op = "flushdb"  -> {}
      [] Settles(c, sent)  -> keys \ {c.key}
      [] OTHER             -> IF Due(e, now) THEN keys \cup {c.key} ELSE keys

\* The fragile keys after c has met entry e: the replica may have the entry
\* a little longer than the master, or a little shorter.
Built(keys, gone, e, c, sent) ==
    CASE c.op = "flushdb"  -> {}
      [] Settles(c, sent)  -> keys \ {c.key}
      [] OTHER             -> IF sent /\ (e.at # 0 \/ c.key \in gone)
                              THEN keys \cup {c.key} ELSE keys

\* A client's write on a node that is not read-only; elsewhere it is refused
\* and changes nothing.
ClientCmd(n, c) ==
    /\ cmds < MaxCmds
    /\ c.op = "rpush" => Len(db[n][c.key].v) + Len(c.vals) <= MaxLen
    /\ ~ readonly[n]
    /\ LET out == Exec(db[n], c, now)
           e == db[n][c.key]
       IN  /\ db' = [db EXCEPT ![n] = out.db]
           /\ link' = IF out.sent THEN Propagate(n, c) ELSE link
           /\ lapsed' = [lapsed EXCEPT ![n] = Freed(@, e, c, out.sent)]
           /\ fragile' = [fragile EXCEPT ![n] = Built(@, lapsed[n], e, c, out.sent)]
    /\ cmds' = cmds + 1
    /\ UNCHANGED <<now, readonly, fed, fresh, ops>>

\* Mutant: a master that is a replica itself does not answer.
ServeSync_Silent(r) ==
    /\ link[r].up /\ ~ link[r].synced /\ link[r].feed = <<>>
    /\ ~ readonly[link[r].to]
    /\ link' = [link EXCEPT ![r] = LinkTo(link[r].to, TRUE, FullSync(db[link[r].to], now))]
    /\ fed' = [fed EXCEPT ![r] = TRUE]
    /\ fresh' = [fresh EXCEPT ![r] = db[r] = Empty]
    /\ UNCHANGED <<now, db, readonly, lapsed, fragile, cmds, ops>>

\* The master of r handles SYNC: a replica refuses it, with an error reply
\* into the stream.
ServeSync(r) ==
    LET m == link[r].to
    IN  /\ link[r].up /\ ~ link[r].synced /\ link[r].feed = <<>>
        /\ IF readonly[m]
           THEN /\ link' = [link EXCEPT ![r] = LinkTo(m, FALSE, <<SyncRefused>>)]
                /\ UNCHANGED <<fed, fresh>>
           ELSE /\ link' = [link EXCEPT ![r] = LinkTo(m, TRUE, FullSync(db[m], now))]
                /\ fed' = [fed EXCEPT ![r] = TRUE]
                /\ fresh' = [fresh EXCEPT ![r] = db[r] = Empty]
        /\ UNCHANGED <<now, db, readonly, lapsed, fragile, cmds, ops>>

\* The replica executes the next command of its stream through dispatch, past
\* the read-only gate, without propagating it further.
ApplyFeed(r) ==
    /\ link[r].up /\ link[r].feed # <<>>
    /\ LET c == Head(link[r].feed)
       IN  IF Parses(c)
           THEN /\ db' = [db EXCEPT ![r] = Exec(@, c, now).db]
                /\ link' = [link EXCEPT ![r].feed = Tail(@)]
           ELSE link' = [link EXCEPT ![r] = NoLink] /\ UNCHANGED db
    /\ UNCHANGED <<now, readonly, fed, fresh, lapsed, fragile, cmds, ops>>

\* The links that keep to their masters when n gets one: from then on n
\* changes by other means than its clients' writes.
StillFed(n) == [r \in Nodes |-> fed[r] /\ link[r].to # n /\ r # n]

\* REPLICAOF host port.  The links of n's own replicas stay up.
ReplicaOf(n, m) ==
    /\ ops < MaxOps
    /\ link' = [link EXCEPT ![n] = LinkTo(m, FALSE, <<>>)]
    /\ readonly' = [readonly EXCEPT ![n] = TRUE]
    /\ fed' = StillFed(n)
    /\ ops' = ops + 1
    /\ UNCHANGED <<now, db, fresh, lapsed, fragile, cmds>>

\* The connect fails: the old link is closed by then, the role is kept.
ReplicaOfFails(n) ==
    /\ link[n].up
    /\ ops < MaxOps
    /\ link' = [link EXCEPT ![n] = NoLink]
    /\ ops' = ops + 1
    /\ UNCHANGED <<now, db, readonly, fed, fresh, lapsed, fragile, cmds>>

\* Mutant: the link to the master stays open.
ReplicaOfNoOne_KeepsLink(n) ==
    /\ ops < MaxOps
    /\ readonly[n]
    /\ readonly' = [readonly EXCEPT ![n] = FALSE]
    /\ ops' = ops + 1
    /\ UNCHANGED <<now, db, link, fed, fresh, lapsed, fragile, cmds>>

ReplicaOfNoOne(n) ==
    /\ ops < MaxOps
    /\ readonly[n]
    /\ link' = [link EXCEPT ![n] = NoLink]
    /\ readonly' = [readonly EXCEPT ![n] = FALSE]
    /\ ops' = ops + 1
    /\ UNCHANGED <<now, db, fed, fresh, lapsed, fragile, cmds>>

\* Either side closes the connection.
LoseLink(r) ==
    /\ link[r].up
    /\ link' = [link EXCEPT ![r] = NoLink]
    /\ UNCHANGED <<now, db, readonly, fed, fresh, lapsed, fragile, cmds, ops>>

\* A node dies and comes back without a dump, as a master: the role is not
\* stored anywhere.
Restart(n) ==
    /\ ops < MaxOps
    /\ db' = [db EXCEPT ![n] = Empty]
    /\ readonly' = [readonly EXCEPT ![n] = FALSE]
    /\ link' = [r \in Nodes |-> IF r = n \/ link[r].to = n THEN NoLink ELSE link[r]]
    /\ ops' = ops + 1
    /\ UNCHANGED <<now, fed, fresh, lapsed, fragile, cmds>>

\* Lazy or active expiry, on each node by its own clock; not propagated.
Purge(n, k) ==
    /\ Due(db[n][k], now)
    /\ db' = [db EXCEPT ![n][k] = None]
    /\ lapsed' = [lapsed EXCEPT ![n] = @ \cup {k}]
    /\ UNCHANGED <<now, readonly, link, fed, fresh, fragile, cmds, ops>>

Tick ==
    /\ now < MaxNow
    /\ now' = now + 1
    /\ UNCHANGED <<db, readonly, link, fed, fresh, lapsed, fragile, cmds, ops>>

RInit ==
    /\ now = 0
    /\ db = [n \in Nodes |-> Empty]
    /\ readonly = [n \in Nodes |-> FALSE]
    /\ link = [n \in Nodes |-> NoLink]
    /\ fed = [n \in Nodes |-> FALSE]
    /\ fresh = [n \in Nodes |-> FALSE]
    /\ lapsed = [n \in Nodes |-> {}]
    /\ fragile = [n \in Nodes |-> {}]
    /\ cmds = 0 /\ ops = 0

RNext ==
    \/ \E n \in Nodes, c \in Cmds : ClientCmd(n, c)
    \/ \E n, m \in Nodes : ReplicaOf(n, m)
    \/ \E n \in Nodes :
        \/ ServeSync(n) \/ ApplyFeed(n)
        \/ ReplicaOfFails(n) \/ ReplicaOfNoOne(n)
        \/ LoseLink(n) \/ Restart(n)
    \/ \E n \in Nodes, k \in Keys : Purge(n, k)
    \/ Tick

RSpec == RInit /\ [][RNext]_rvars

\* The event loops of both ends serve the link.
RFairSpec == RSpec /\ \A n \in Nodes : WF_rvars(ServeSync(n)) /\ WF_rvars(ApplyFeed(n))

-----------------------------------------------------------------------------
(* Properties.                                                             *)

Entries == [ty : {"none", "string", "list"}, v : Seq(Vals), at : Nat]

Links == [up : BOOLEAN, to : Nodes \cup {"none"}, synced : BOOLEAN,
          feed : Seq(Commands \cup {SyncRefused})]

\* Types; an emptied list is no entry any more, a node without a master has no
\* stream, one that has a master takes no writes of clients (REPLICAOF closes
\* the link it replaces), and one without a full sync has no commands coming.
RTypeOK ==
    /\ now \in Nat
    /\ db \in [Nodes -> [Keys -> Entries]]
    /\ \A n \in Nodes, k \in Keys :
          /\ db[n][k].ty = "none" <=> db[n][k].v = <<>>
          /\ db[n][k].ty = "none" => db[n][k] = None
    /\ readonly \in [Nodes -> BOOLEAN]
    /\ link \in [Nodes -> Links]
    /\ \A n \in Nodes :
          /\ ~ link[n].up => link[n] = NoLink
          /\ link[n].up => link[n].to \in Nodes /\ readonly[n]
          /\ ~ link[n].synced => link[n].feed \in {<<>>, <<SyncRefused>>}
    /\ fed \in [Nodes -> BOOLEAN] /\ fresh \in [Nodes -> BOOLEAN]
    /\ lapsed \in [Nodes -> SUBSET Keys] /\ fragile \in [Nodes -> SUBSET Keys]

\* What replica r will hold when its stream has been applied.
Replayed(r) ==
    LET feed == link[r].feed
        after[i \in 0..Len(feed)] ==
            IF i = 0 THEN db[r] ELSE Exec(after[i - 1], feed[i], now).db
    IN  after[Len(feed)]

\* f stands for e: where e can still be read, f has its value and does not
\* run out earlier; where it cannot, f is gone too, or will run out.
StandsFor(f, e) ==
    IF e.ty # "none" /\ ~ Due(e, now)
    THEN f.ty = e.ty /\ f.v = e.v /\ (f.at = 0 <=> e.at = 0) /\ f.at >= e.at
    ELSE f.ty = "none" \/ f.at # 0

\* No update is lost, duplicated or reordered between a full sync and the
\* live feed behind it: for a link that found its replica empty, the replica
\* with the rest of its stream applied stands for the master, at any moment.
\* Commands that build on the value they meet (RPUSH, LPOP, SETNX, EXPIRE)
\* are included as long as they meet no deadline: the replica's clock and
\* the delay of the stream decide whether it still has such an entry.  A
\* stream that holds a command the replica cannot parse ends there.
FeedReplays ==
    \A r \in Nodes :
        /\ link[r].up /\ link[r].synced /\ fed[r] /\ fresh[r]
        /\ \A i \in DOMAIN link[r].feed : Parses(link[r].feed[i])
        => \A k \in Keys \ fragile[link[r].to] :
              StandsFor(Replayed(r)[k], db[link[r].to][k])

\* The keys that no command of this instance adds to.
Overwritten == {k \in Keys : \A c \in Cmds :
                   c.key = k => c.op \in {"set", "expire", "del", "flushdb"}}

\* A replica that has caught up misses no live key of its master, whatever
\* was in it when it was attached, as long as the master has not been a
\* replica itself in between, as it would not pass on what it got: every key
\* the master can still read is on the replica, with the master's value, and
\* does not expire there earlier, although seconds are rounded and deadlines
\* are computed again on arrival.
LiveKeysPresent ==
    \A r \in Nodes :
        /\ link[r].up /\ link[r].synced /\ link[r].feed = <<>>
        /\ fed[r]
        => \A k \in Overwritten \ fragile[link[r].to] :
              LET e == db[link[r].to][k]
              IN  e.ty # "none" /\ ~ Due(e, now) => StandsFor(db[r][k], e)

\* A link does not hang: what REPLICAOF has opened is synced, refused or
\* lost, and every command sent over it is executed unless the link is lost.
LinkProgress ==
    \A r \in Nodes :
        (link[r].up /\ (~ link[r].synced \/ link[r].feed # <<>>))
           ~> (~ link[r].up \/ (link[r].synced /\ link[r].feed = <<>>))
===============================================================================
