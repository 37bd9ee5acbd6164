# aura-redis: a TLA+ model of the data plane

aura-redis is a single-threaded Redis-compatible cache in C (`native/`), steered by
an agent written in Aura (`src/redis/`). This directory holds TLA+ modules that model the
C data plane, TLC configurations that check them on small instances, and
machine-checked TLAPS proofs. `PROJECT.json` lists the runs, the source lines every
definition stands for, the mutants that show each property can fail, the hazards the
properties are aimed at, and the theorems.

    tlc -config KeyspaceTiers.cfg MCKeyspace       # model-check one instance
    tlapm KeyspaceProofs.tla                       # check the proofs

## 1. The system

| Part | Source | State | Operations | What is hard |
|---|---|---|---|---|
| Dictionary | `ar_core.c`, `ar_internal.h` | entries with TTL, pin, type, value in a hot (or flat) and a cold table; a dozen counters | SET family, GET, DEL, APPEND, INCR, RENAME, EXPIRE family, FLUSHDB, PIN, LAYOUT, EVICT, active expiry | every path that frees an entry must keep all counters right; eviction and expiry happen inside other commands |
| Hash tables | `ar_core.c` | buckets of the two tables | growth, demotion, promotion, migration, the knobs of the hot tier, sampling, SCAN, KEYS, DBSIZE | a cursor over tables that move; a sampling pass while the clock runs |
| Typed values | `ar_types.c` | hash, list, sorted set behind an entry | HSET, HDEL, HINCRBY, LPUSH, LPOP, LREM, LTRIM, ZADD, ZREM and their reads | eviction in the middle of a command; an emptied object deletes its key; order |
| Transactions | `ar_server.c` `dispatch` | per connection: queue, watched keys, dirty flag | WATCH, UNWATCH, MULTI, EXEC, DISCARD | the interleaving of WATCH and EXEC with every other writer |
| Snapshots | `ar_rdb.c`, `ar_main.c` | dump file, temporary files, child pid | SAVE, BGSAVE, poll, load at start | crashes between steps, two writers of one file, load under a memory limit |
| Replication | `ar_server.c` | master link, replica links, read-only flag | SYNC, REPLICAOF, propagation | full sync beside live writes, lost links, clocks |
| Event loop, pub/sub, gates | `ar_server.c` | connection slots, read and write buffers, subscriptions, authentication | accept, read, parse, dispatch, flush, PUBLISH, CLIENT KILL, idle close, drain | slot reuse inside one epoll batch, pipelining, back pressure, edge-triggered events |
| Settings, slow log | `ar_config.c`, `ar_server.c`, `ar_main.c` | knobs, the file, a ring of entries | CONFIG SET, CONFIG REWRITE, SLOWLOG, start | crash and power loss in a rewrite, values that do not load back, what wins over the file, ring arithmetic |
| TLS | `ar_tls.c` | OpenSSL objects | handshake, read, write | belongs to the library |
| Control plane | `src/redis/*.aura` | champion policy, weights, freeze | observes INFO, sends EVICT, LAYOUT, CONFIG | changes knobs at any time |

How they meet: the event loop reads commands into a connection and `dispatch` runs each to
completion against the dictionary; the dictionary calls back into the connections through
`ar_watch_touch`, PUBLISH and propagation write into the buffers of other connections; the
loop calls active expiry and the BGSAVE poll between commands; the load at start and the
feed of a master replay the dictionary's own functions; the agent's decisions arrive as
ordinary commands. There is one thread. Concurrency is between clients, between commands
and the loop's duties, between the server and a forked child, between servers, and between
the server and its own restarts.

What makes each part correct: the dictionary's counters are what a walk of the tables
would count, its memory total covers what is stored, eviction happens only over the limit
and spares pins, every change of a key is announced, every due key goes; an entry hangs
where a lookup searches, and an iteration misses nothing that stayed put; a typed key
behaves as a map or a sequence; a transaction commits only against the values its client
saw; a dump is one state of the dictionary, no older than what was reported saved, and
comes back as it was; a replica that has caught up has its master's live keys; a client
gets its own replies, all of them, in order; the settings file is
whole, and a start takes from it what was saved.

## 2. The modules

    Keyspace ──┬── KeyspaceProofs ──┬── TransactionsProofs (with CasClients)
               │                    └── SnapshotProofs
               ├── Transactions ──┬── CasClients
               │                  └── (implements) OptimisticStore
               └── Snapshot
    Tables ─────── TablesProofs
    Objects ────┬─ ObjectsProofs
                └─ (implements) TypedStore
    Settings ──────┬── OperatorProofs
    Replication ───┘
    ServerLoop ─── LoopProofs
    Induction: induction over the naturals, finite sums, folds; under the proof modules

| Module | Models | Lines it answers for |
|---|---|---|
| `Keyspace` | the dictionary: one action per command or duty of the loop | `ar_core.c`, the accounting of `ar_types.c`, the string commands of `dispatch` |
| `Tables` | the buckets behind it, SCAN, the sampling pass | `ar_core.c` 69–177, 421–885, 1747–1771, 2012–2229 |
| `Objects`, `TypedStore` | contents of hashes, lists, sorted sets; what they promise | `ar_types.c`, the typed commands of `dispatch` |
| `Transactions`, `OptimisticStore`, `CasClients` | WATCH/MULTI/EXEC; what they promise; the clients of `tests/test_prod_watch.py` | `ar_server.c` 39–140, 912–1022 |
| `Snapshot` | dumps, children, restarts | `ar_rdb.c`, `ar_main.c` |
| `Replication` | servers, links, streams | `ar_server.c` 275–508, 1024–1062 |
| `ServerLoop` | slots, buffers, epoll, pub/sub, AUTH, drain | `ar_server.c` 65–209, 538–640, 763–909, 3364–3930 |
| `Settings` | knobs, their file, the slow log | `ar_config.c`, `ar_main.c`, `ar_server.c` 705–753, 1910–2049, 3291–3355 |

**Keyspace.** `core` is the `ArCore` record: `hot`, `cold`, `pinned`
are sets of keys; `payload`, `expire_at`, `type` are functions of keys; the rest are the
counters and knobs under their C names. Operators from records to records (or to sets of
records, where the code rolls dice) carry the names of the C functions: `FindEntry` is
`ar_find_entry_ex` with its lazy expiry, `EntrySetEx` is `ar_entry_set_ex` with lookup,
accounting, promotion or demotion, eviction and WATCH notification in the code's order,
`FreeEntries` is `ar_entry_free_ex`. `core.touched` collects the keys handed to
`ar_watch_touch` during the current step. A value is its size in bytes, so INCR on a string
may succeed or refuse; the sizes of an object after a typed command are any the command
could leave; sampling may choose any unpinned key of the tables it looks at (`Sampled`), a
superset of what LRU, LFU, SLRU and TTL-aware sampling choose; the clock does not move
inside a command. Unsigned arithmetic keeps its width (`Word`): guarded subtractions
saturate, unguarded ones wrap. A failed allocation inside the dictionary is not modelled.

**Tables** keeps what Keyspace abstracts: two functions from bucket numbers to sets of
keys, and a hash. SCAN numbers the buckets of both tables in one sequence. A sampling pass
is several steps (`SampleBucket`, then `EvictBest`), between which only the clock moves, as
in the code; commands wait for it. The two knobs of the hot tier are not part
of the state: `Caps` are the values CONFIG SET may give them, a demotion may meet any of these
and may stop short of it (`Demotions`), and `SetSoftCap` is the demotion a CONFIG SET makes at
once. Keyspace keeps them constant, and leaves open how many entries a demotion takes, too.
`scan` records what an iteration still owes: the keys linked ever since it began,
less those a step moved to the front (`hidden`).

**Objects** keeps buckets of fields, the sorted array and the list elements, and the reply
of every writing command. A command that creates its key may lose it to eviction at once,
or at its end (`Write`). **TypedStore** is a map from keys to values in which any key may
be lost in any step, and never altered; it fixes what each command answers. Reads do not
change state and are operators, compared with the abstract value in every state.
`tainted` is a history variable: the keys whose sorted set has been sent a NaN since it was
created. `scan` is an HSCAN under way with the fields it has returned and those it owes,
the ones in the hash ever since it began.

**Transactions** adds connection slots with the queue, the watched keys and the dirty flag;
each branch of `dispatch` before the command table is an action. The commands that run are
a representative set (SET with and without TTL, GET, DEL, FLUSHDB), because a
transaction sees a command only through what it changes and what it announces;
`WatchSeesEveryChange` of Keyspace is what carries the result to the other commands. A
refused command (nested MULTI, WATCH inside MULTI, a full queue) changes nothing and is
left out. `seen` is a history variable: what the connection could observe of a key when it
marked it. **OptimisticStore** has no flags: a commit runs the whole queue in one step and
only while every mark still holds. The mapping takes the store from the tables and the
marks from `seen`.

**Snapshot** adds files, processes and restarts to Keyspace. `proc` is the server
(`"saving"` between the last write and the rename of SAVE), `kids` the BGSAVE children with
the dictionary they inherited, `dump` the installed file; `epoch`, `hist`, `acked`,
`overlapped` are history variables. The load (`Load`, `LoadEntry`, `PushElements`) composes
Keyspace's operators the way `ar_rdb_load` calls the C functions, with the limits it puts on
what it reads (`MaxEntries`, `MaxElems`, `MaxBlob`); the writer has none of them.

**Replication** has whole servers as nodes. A link carries one stream of commands: the full
sync, then what `repl_propagate` appends; the replica executes it through the same `Exec`
as a client's command. Every command but FLUSHDB reads and writes one entry, so `Exec` is
what the command makes of the entry its lookup finds (`Meets`). Four history variables say
for which links and keys the strong properties can hold (section 3): `fed` (since the sync
the master of the link took its clients' writes only), `fresh` (the sync found the replica
empty), `lapsed` (keys whose entry ran out on a node, and of which nothing was sent since
that makes up for it) and `fragile` (keys where a command built upon an entry with a
deadline, or upon its absence afterwards).

**ServerLoop** is one thread with a program counter (`pc`): top of the loop, inside a batch
of events, draining, down. Clients, kernel and signals act between any two of its steps.
`told`, `fate`, `lost` are histories of what each client should read and how its
connection ended. A command is two pieces, so that reads can end inside one.

**Settings** takes a rewrite apart into write, fsync and rename, with failures, crash and
power loss between them; `file.synced` says whether the data behind the name is on the
disk, `disk` what the directory held when it was last written out. Six knobs stand for
eighteen, one for each way a value is treated. Requests may hold any text: the constants
`FirstLine` and `Further` say what the reader of the file finds in one (the text up to its
line break without the blanks in front; the settings in the lines behind that), and `Lines`
puts together what a whole file comes to. A start takes flags and environment from `Starts`;
`Given` is what `main` sets from them after the file. `since` is a history variable: the
first entry from which on the slow log is still in order.

Each **MC** module gives the constants that are not plain values. Each **Proofs** module
holds the theorems of section 5 about the module it is named after; `KeyspaceProofs` those
about watchers and memory too, `TransactionsProofs` those about CasClients, and
`OperatorProofs` those about the two parts an operator commands, Settings and Replication,
which share nothing else.

## 3. The runs

| Run | Instance | Shows |
|---|---|---|
| `keyspace_tiers` | 2 keys of different length, strings and hashes, both layouts, hot tier of half the keys, deadlines, pins | type, disjoint tables, exact counters, pins; every due key is purged |
| `keyspace_memory` | 2 keys, strings and lists, a limit of 9 bytes that one key fits and two may exceed, a sampling kernel and a plugin | memory covered and attributed, every change announced to watchers, pins hold, no needless eviction |
| `tables` | 3 keys, two of them in one bucket until there are four, tables of 1 to 4 buckets, at most 2 keys before eviction, passes of one bucket, 2 migrations, a hot tier of all keys, or of half and one at least, COUNT 1 or 2 | every entry in the bucket a lookup visits; KEYS and DBSIZE agree with lookups; SCAN misses nothing that stayed, repeats nothing while nothing moves, and ends |
| `tables_sampling` | the same, longer passes | the finding below |
| `objects` | one key of every type in turn and a bystander, hashes of 1 to 4 buckets, 3 members, a match cap of 2, a NaN score | implements TypedStore; reads tell the abstract value; HSCAN complete |
| `transactions` | 2 interchangeable connections, 2 keys, queues of 2 commands, a plugin kernel at a limit of one key, reply buffers that fail | implements OptimisticStore; no stale dirty flag; the queue limit |
| `cas_clients` | 2 clients, 2 updates each, 1 dropped connection | no lost update, all finish |
| `snapshot` | 2 keys, 2 changes, 1 restart, SAVE beside BGSAVE beside an orphan, with and without a limit | whole dumps, recovery point, faithful load, children reaped |
| `replication` | 2 servers, each may follow the other, 3 client commands out of 9 (SET with and without a deadline, DEL, SETNX, RPUSH of two values, LPOP, EXPIRE, FLUSHDB), 2 operator actions, a second of 2 instants and a clock of 3, lists of 3 elements, the longest of which no longer parses: 459087 states | full sync and feed replay to the master's state; no live key missing or expiring early; no hanging link |
| `server_loop` | 3 clients on 2 slots, password, publish, kill, garbage, one reset | slots change hands cleanly; streams intact; authentication and subscription per connection |
| `server_drain` | 2 clients, commands in pieces, one never reads, a socket of one reply, idle close, SHUTDOWN and signals | executed once and in order, messages only while subscribed; replies lost for cause only; readers answered; the process ends |
| `settings` | 6 knobs; two CONFIG SETs of any refusal, clamp, flag word and kind of text (padded, blank, with a good or a bad setting behind a line break), or up to six slow commands on a ring of two and changes of its length to 0, 1 and 2, or some of each; 2 faults, files of an operator, starts without and with flags and environment: 5.7 million states | file whole, and loaded again but for the texts named; knobs survive but for what the property names; honest CONFIG REWRITE; newest slow commands first, as far as the changes of the length leave them in order |

Why the bounds are enough. Keyspace: all conditions compare one entry with another
(promotion of one demotes the other, a write to one evicts the other) or a counter with a
threshold that two keys cross in both directions; RENAME needs two names of different
length; MSET and DEL with two names may repeat one; the clock gives a deadline in the
future, one that is now, and none. Tables: three keys fill a bucket, split it at the second
doubling, and leave one to be added or moved between two SCAN calls; since a demotion may stop
anywhere short of the cap, what a larger cap allows is among what the smallest allows.
Objects: three fields double a table of one twice, with a collision that the first doubling
keeps. Transactions: an abort needs one connection and one other actor. Replication: one full sync, writes
before, during and after it, and a change of roles. ServerLoop: three clients on two slots
make a slot change hands within a batch; a socket of one reply makes every second write
partial. Settings: two faults put a power loss behind a failed or a crashed rewrite, and two CONFIG
SETs put two texts beside each other, or a text beside the knob it overrides. `Weight` makes
one budget of CONFIG SETs and slow commands: what is asked of the file needs few of the
latter, what is asked of the ring few of the former. Six slow commands wrap a ring of two
three times; three and a cut to one leave the head outside, with one more to be lost; two
changes cut the ring and lengthen it again, or switch it off and on.
Bounds that cut behaviours off, and only those, are the constants marked *bound* in the
modules. The theorems of section 5 hold without any of them.

Fairness. `FairSpec`: strong fairness of active expiry for each due key; the loop calls
`ar_core_active_expire` on every turn and it draws buckets with `rand()`, so each bucket is
drawn again and again; the guard (`keys_with_ttl > 0`) stays in the action, so a wrong
counter still starves a key. `TFairSpec`: a pass runs to its end, and the client goes on
calling SCAN. `CSpec`: weak fairness per client; the loop serves every readable connection
each turn. `SFairSpec`: a child runs to its exit, SAVE returns, and the loop polls on every
turn; strong, since SAVEs come between two turns. `RFairSpec`: both ends serve the link.
`LFairSpec`: the loop takes a step whenever it has one, the drain's clock advances, and the
clients in `Readers` read; the others promise nothing. In `TFairSpec` and `LFairSpec` the
enabledness of the fair action is written out as a state predicate (`LoopCanStep`), which
says the same and spares TLC from evaluating it by search.
Deadlock checking is off where the system may stop: clients at their goal (`cas_clients`),
a server that has shut down (`server_*`), and where the clock, the commands and the
operator's actions are used up (`tables*`, `replication`).

Where a property is weaker than one might wish, the code is the reason, and the property
says so:

- `RecoveryPoint` holds until two writers overlap (`overlapped`). SAVE does not look for a
  running child, and a new server does not know its predecessor's: the older file may be
  renamed last, although docs/persistence.md:50 gives "the time of last successful
  `SAVE`/`BGSAVE`" as recovery point.
- `RestoredFaithfully` promises a start, and all keys, only without a memory limit and
  within the limits of the reader. `maxmemory` is set before the load (`ar_main.c`:220), the
  load evicts, and the next element or the deadline of an evicted object fails
  (`ar_rdb.c`:323): a sound dump keeps the server from starting, where
  docs/persistence.md:16 names a corrupt file only. And SAVE writes what the reader then
  refuses: more than ten million keys, a collection of more than `AURA_RDB_MAX_ELEMS`
  elements, a blob longer than `AURA_RDB_MAX_BLOB`, a due entry among them too. The run has
  all three limits exactly at what its dumps can reach.
- `PinsNotUndercounted` is one-sided: PIN and FLUSHDB leave `pinned_keys` counting pins of
  keys that are gone (`ar_core.c`:1520 against `ar_internal.h`:170). `MemoryCovered` is
  one-sided: LREM frees an emptied list before it subtracts the elements' bytes
  (`ar_types.c`:958), which stay in `used_memory`.
- `CleanWatchUnchanged` speaks of what has been purged: a watched key past its deadline
  that nobody touched does not abort EXEC, which docs/client-allowlist.md:98 can be read to
  promise.
- `EvictionSpares` speaks of pins under the built-in kernels only: `ar_core_evict_random_one`, which plugins
  call, takes the first entry of a bucket, pinned or not. With `hot_promote_on_get` off an
  update leaves a cold key cold, contrary to the comment in `ar_entry_set_ex`.
- `ScanMissesNothing` excepts keys that a GET or SET promoted, or a fold of the cold table
  moved, to the front of the cursor: docs/client-allowlist.md:76 grants it.
- `FeedReplays` excepts `fragile` keys: EXPIRE, RPUSH or SETNX on a key with a deadline
  meet, on the replica, an entry that may or may not have run out there; and SETNX or RPUSH
  on a key that has run out on the master build on its absence, while the replica may have
  the entry still. It also starts from an empty replica (`fresh`): a sync sends no flush, so
  that RPUSH appends to an old list and keys deleted meanwhile stay. A list of more than 62
  elements does not fit the parser and breaks the link (`Parses`); a replica refuses SYNC, so
  chains do not work.
- `FeedReplays` and `LiveKeysPresent` are about masters that have not been replicas since
  they served the sync (`fed`): REPLICAOF leaves the links of a node's own replicas up, what
  the node applies from its new master is not passed on, and after REPLICAOF NO ONE its
  writes arrive again at replicas that have missed what was between.
- `SlowlogNewestFirst` is about what was recorded since the length was last changed, and what
  that change left in order: CONFIG SET slowlog-max-len keeps the ring and its head
  (`ar_server.c`:1985). The entries from slot 0 up to the head stay in order, the others are
  shown stale, repeated or as slots never written; with the head outside the new length
  nothing stays in order, and the next entry goes into a slot that no one reads.
- `FileIsWhole` names the files of the server's own that keep it from starting. CONFIG SET
  takes a `dir` of blanks, of which the reader finds nothing, and texts with a line break,
  whose second line the reader takes for a setting of its own (`ar_config.c`:143); a bad one
  refuses the start. A line longer than the reader's buffer of 512 bytes goes on in a second one
  in the same way.
- `KnobsSurvive` speaks of texts as the reader finds them, without the blanks in front and up
  to the line break. It excepts knobs that a setting behind a line break overrides, those that
  flags and environment give, and with them protected-mode, which `main` sets after the file
  in any case, to yes where neither names it (`ar_main.c`:198), although docs/runbook.md:149
  counts it among what survives a restart.
- `ReadsTellTruth` excepts sorted sets that ever held a NaN (`tainted`), which ZADD accepts
  and which spoils the order of the array, also for what comes after it; and it keeps ZRANGEBYSCORE within its first 256 matches: pages beyond them are empty.

One run shows where the code and its own words part. `tables_sampling`: a sampling pass
reads the clock for every entry and draws buckets at random, so an entry kept as the best
victim can fall due, be freed when its bucket is drawn again, and be freed a second time by
`evict_one`. The comment at `ar_core.c`:82 says "due TTL → expire (not eviction
candidate)".

Met while modelling, and built into the models as the code has it: a hang-up event that is
still in the batch when CLIENT KILL and an accept have given the slot to another client
closes that client (`HandleClosed`); commands received together with EOF are dropped
(`HandleRead`); after QUIT or garbage with a reply still pending, a later read executes
more of the buffer or repeats the protocol error; an idle timeout closes passive
subscribers; LPUSH reads the length for its reply from a list that eviction may have freed
(`Garbage`) and answers WRONGTYPE when its key is evicted at creation, where HINCRBY answers
0; a ZADD that names a new member twice counts it twice at the size bar; CONFIG SET answers
OK although the rewrite failed; for protected-mode `off` means no in the file and the environment
(`ar_main.c`:112) and yes as a flag (`ar_main.c`:46) and in CONFIG SET.

Every property has a mutant: an operator next to the definition it replaces, marked
`Mutant:`, that makes a plausible mistake and must make TLC report the property.

## 4. What is only model-checked

Liveness: `DueEventuallyPurged`, `ScanEnds`, `EveryClientWins`, `BgsaveEnds`,
`LinkProgress`, `Answered`, `ShutdownEnds`. They hold under fairness, whose
ENABLED is out of the prover's reach. Everything else that a passing run checks is a theorem:
every invariant, every property of steps and both refinements.

## 5. What is proved

Every theorem is about the specification TLC runs, for every value of the constants that
its assumptions allow; the *bound* constants are arbitrary in it.

| Theorem | States | Inductive invariant |
|---|---|---|
| `TypeCorrect`, `CountersAgree`, `TablesStayDisjoint`, `PinsCounted` | `TypeOK`, `CountersExact`, `TablesDisjoint`, `PinsNotUndercounted` of Keyspace | `Inv` |
| `WatchIsTold` | `WatchSeesEveryChange` of Keyspace, a property of steps | `Inv` |
| `MemoryAccounted` | `MemoryCovered` of Keyspace | `MemInv` |
| `EvictionSpared` | `EvictionSpares` of Keyspace, a property of steps | `MemInv` |
| `TransactionsTyped`, `CompareAndSwap`, `NoSpuriousAbort` | `TTypeOK`, `CleanWatchUnchanged`, `DirtyOnlyWhileWatching` | `TInv` |
| `Implements` | Transactions implements OptimisticStore | `TInv` |
| `UpdatesNotLost` | `NoLostUpdate` of CasClients | `CasInv` |
| `LookupsFind`, `ScanComplete` | `EveryEntryFindable`, `ScanMissesNothing` of Tables | `TablesInv` |
| `ObjectsTyped`, `ScanReturnsAll`, `ReadsAreTrue` | `OTypeOK`, `HScanComplete`, `ReadsTellTruth` of Objects | `OInv` |
| `ObjectsImplement` | Objects implements TypedStore | `OInv` |
| `RecoveryPointKept` | `RecoveryPoint` of Snapshot | `RecoveryInv` |
| `DumpNeverTorn`, `RestartFaithful` | `DumpIsSnapshot`, `RestoredFaithfully` of Snapshot | `SnapInv` |
| `WholeFile`, `KnobsComeBack` | `FileIsWhole`, `KnobsSurvive` of Settings | `FileInv` |
| `SlowlogInOrder` | `SlowlogNewestFirst` of Settings | `LogInv` |
| `StreamsIntact`, `CommandsInOrder`, `NoReplyLostByDesign` | `StreamIntact`, `AnsweredInOrder`, `LostForCause` of ServerLoop | `LoopInv` |
| `MessagesToSubscribers`, `PublishersAuthenticated`, `SlotsWellTyped` | `MessagesWhileSubscribed`, `NothingWithoutAuth`, `LTypeOK` of ServerLoop | `LoopInv` |
| `ReplicationTyped`, `FeedsReplay`, `LiveKeysReach` | `RTypeOK`, `FeedReplays`, `LiveKeysPresent` of Replication | `RInv` |

**Keyspace, counters.** `Inv` says that the record is `Consistent` and the clock a natural
number. `Consistent(c)`: `c` has its type, the tables are disjoint (and there is no cold
table in the flat layout), only linked entries have a deadline or a pin, and each counter
equals, or for pins bounds, the cardinality it stands for. None of the four properties is
inductive alone: a counter is decremented with a floor at zero, so it stays exact only if it
was exact and the freed entry was linked in that table; that needs the tables disjoint and
the deadlines confined to linked entries. One lemma per operator says that it maps
consistent records to consistent records, resting on a few lemmas about cardinalities; the
step lemma has one case per action and only composes these.

**Keyspace, watchers.** A command is a chain of C functions that change entries and call
`ar_watch_touch` somewhere along the way, often not where the change is made. Three
relations follow the chain: `Loses` (keys are only lost, each loss announced), `Edits` (the
keys of a set change, nobody has been told yet) and `Tells` (every difference is
announced). One lemma per operator states which of them it satisfies; they compose to
`Tells` for every action.

**Keyspace, memory.** The total is kept by additions and subtractions scattered over all
commands, per type and in all, on unsigned words. `Ledger` says what they come to: each
type's total is at least the bytes of the linked entries of that type, `used_memory` is the
sum of the types, and it exceeds the bytes of all entries by at most `MemBound`, since only
LREM leaves bytes behind and the model stops it there. A subtraction therefore never takes
more than is booked, and with `RoomAssumption` (the largest dictionary and what LREM leaves
behind fit in a word) none of the sums wraps. `MemInv` is the ledger with `Consistent`; one
lemma per operator says how the ledger is rebooked (`Rebooked`: one entry changes its size,
its type, or both; or a set of entries is freed). For eviction, `Protects(c, d, K, g)` states
what a stretch of a command that adds at most g bytes may do to the entries outside K: those
that are pinned, or all if g bytes fit, stay. Stretches compose, and the bytes they add; the
exactness of the ledger is what makes the fit at the beginning carry to the eviction at the
end.

**Transactions.** `TInv`: the dictionary is consistent and free of unannounced remains
(`Blank`: an unlinked key has no payload, type or deadline left), every slot is `Tidy`
(flags agree with the queue and the watched keys), and `Faithful`: a clean slot's `seen` is
what the dictionary holds now. The step that runs a queue is an induction over the queue
whose step is `Tells` of one command. For the refinement the initial state maps to an
initial state; accept, close, discard and abort map to a reset; WATCH to a mark; an EXEC
that runs, or breaks off after n commands (its connection, marked to be closed, goes on until
its buffer is flushed, cleared like any other), to one `Commit`: `Faithful` is the comparison it
makes, and `Results` of the abstract store is what the queue left up to losses; expiry and
the clock map to `Lose` and `Tick`.

**The clients of the WATCH test.** `CasInv`: the counter is the sum of the wins, over the
clients and the commit in progress; and a racer that has read the counter and is not dirty
holds the value the dictionary holds now, which is `Faithful` for its one key. A commit that
runs therefore writes one more than the number of wins before it.

**Event loop.** `LoopInv` relates every slot to the streams its client sees (`SrvInv`): a
slot is blank or continues its client's connection. Continuing means that what the slot has
read is a part of what the client sent that begins where the executed commands end; that
every executed command has exactly one answer, so that twice the number of answers counts
the pieces consumed (with the commands of the step in progress counted separately: a step
executes n commands before it discards them from the buffer); that what the client was told
and has not been given is in the write buffer, in order; and that an authenticated slot has
an AUTH among its executed commands. One lemma per operator of the loop says that it maps
such a server to such a server. The loop's own loops (over slots that subscribe, over the
commands in a buffer, over slots on drain, over the backlog on accept) are folds, and each
is an induction over the set it walks (`Turns`).

**Tables.** A table is determined by the number of its buckets and the set of its entries
(`Table(n, S)`), and every operation changes just these two; from that a lookup finds what
is linked, and KEYS what is not due. For SCAN, `Pos(d, k)` is the number the cursor gives to
the bucket of `k`. Every operation moves entries only towards higher numbers, except those
it hides (`Moves`): demotion goes behind the hot table, growth of the hot table shifts the
cold one, and doubling takes bucket i to i or i + n, because `h % 2n >= h % n` (`ModGrows`;
no property of the hash function and no power of two is needed). `TablesInv` adds `Ahead`:
what an iteration owes and has not returned is not behind its cursor, and while nothing has
moved what it has returned is.

**Objects.** `OInv`: every entry is one of the shapes the commands build (`Entries`), sorted
sets outside `tainted` are in order, and `ScanOwes`. A hash has such a shape if it is
`Hash(n, S)`, the table of n buckets over a finite set of nodes with distinct fields, with
`nfields` their number; a sorted set if its members are distinct and no more than the bar; no
object is empty. So the commands reduce to what they do to a set of nodes or a list, and those
that take several arguments are inductions over them whose step is one node or one member.
`OTypeOK` alone is not inductive: a counter decremented by HDEL is right only if fields are
distinct and each hangs in the bucket its hash names, and the array outgrows the bar unless
members are distinct, since the bar counts those that are new. That `zset_insert` keeps the
array in order needs all of it to have been in order, which one NaN destroys for good; hence
a history and not a look at the array. From order and distinct members, `Sorted` of the set
is the array itself, and the page of ZRANGEBYSCORE is found by counting matches on both
sides. `ScanOwes` says that a field that is owed and not returned lies in a bucket the cursor
has not reached: one command changes no field's bucket except by doubling, which takes
bucket i to i or i + n (`ModDoubles`), never behind the cursor; a hash deleted and created
anew under the scan owes nothing. For the refinement, every command either leaves a
dictionary in which its key has the new object and other keys are lost or unchanged, with the
reply the abstract store gives, or one in which its own key is lost as well; `MaybeEvict` at
creation and at the end composes to one loss (`Loses`). One lemma per command compares the
object with the function or sequence it stands for, in particular that the walk of LREM
removes the first or last `count` occurrences, and that counting new members pair by pair is
what the abstract ZADD refuses by.

**Snapshot.** `RecoveryInv`: as long as writers have not overlapped there is at most one at
work, what it will install is no older than the dump, and what has been or will be reported
is no newer. `SnapInv` adds that every file, also one not installed yet, holds what was live
at its time of the dictionary after its change (`FilesInv`), and that the dictionary and
the copies children inherited lack, compared with that, only keys that are due (`Fits`):
expiry and reads purge without being a change. The load is an induction over the entries of
the file and, inside, over the elements of a list: without a limit nothing is evicted, so
after i entries the dictionary holds the live ones among them, whole (`LoadOutcome`).

**Replication.** What a stream does to a replica depends on when its commands are executed,
since deadlines are computed on arrival and the replica expires by itself. So the invariant
does not speak of one outcome but of `Reach(d, s, t)`: every dictionary that the stream s can
make of d if each command is executed at some time from t on. `Follows` says that each of
them `Tracks` the master, and the theorems are the case in which the rest is executed now
(`Replayed`) or nothing is left. `Exact` and `Covers` are the two relations between an entry
and its copy, with and without an empty start; `Exact` demands equality of
entries without a deadline, except in keys that are in `lapsed`, where the copy may outlive
the entry. The steps: a full sync is taken apart into
the blocks of its keys, each of which leaves a true copy and no other key touched, rounding
up included (`FullSyncTracks`, `RoundedUp`); a write of the master adds its command at the
end of every run, and each command maps related entries to related entries unless it makes
the key `fragile` (`TracksSent`, with one lemma per command), or is not sent and changes
nothing but a due entry (`TracksUnsent`); a command applied only moves the beginning of the
run; a purge on the master marks the key lapsed; a purge on the replica is compared run by
run with the replica that did not purge (`Alike`: equal but for a due entry, and equal for
good once a command overwrites it); time passing leaves fewer runs. `RBase` gives the types:
what is in a stream after the sync can be parsed or breaks the link, and can never put a list
under a key that is only overwritten.

**Settings.** `FileInv`: the file is what was last installed and its data is on the disk; it
and what a power loss would bring back are texts some server printed (`held`), or the
operator's; the temporary file is the text of the live knobs from its last write to the
rename. And the live knobs are `Valid` and the texts in `held` are `Whole`: every value is one
its setter leaves, or its printed form. From that, what a start makes of a file follows
line by line: a number or flag is read back as printed, a text as `FirstLine` of it, and the
start is refused for nothing but the texts `FileIsWhole` names. Nothing is assumed of the
texts: `Words`, `FirstLine` and `Further` are arbitrary. The operator's own files hold no
line break inside a text (`TextsAssumption`: a file is made of lines).
`LogInv`: the entry i places behind the head is command `next_id - i` as far back as
`since`, and the head lies within the length in force unless the next entry does not count
(`InOrder`). That needs the case of each change of length: a wrapped ring read with another
modulus agrees with what it was from slot 0 up to the head, and only there.

Assumptions, named where the constants are declared: finitely many keys with natural
lengths; sizes, limits and deadlines natural, deadlines not zero; known names of kernels,
layouts and commands; a word that holds the largest dictionary (`RoomAssumption`); tables of
at least one bucket and a hash with natural values; finitely many connections and a natural
maxclients; commands of clients that have the arguments their handler demands
(`ReplAssumption`, `ArgsAssumption`), a second of at least one instant; sorted-set members
with distinct integer ranks (the order of memcmp on distinct names), a ZADD of fewer pairs
than a sorted set may hold (a command has at most 64 words, the bar is 4096), a NaN that is no number (`ObjectsAssumption`);
marks such as `Missing`, `Torn` or
`Refused` differ from the values they stand beside.

Induction over data. The library's induction theorems take an operator as parameter, which
the installed provers cannot instantiate. `NatInduct` of module Induction states induction for
a set of naturals instead, proved from the well-foundedness of the order on Nat; what a
recursive function computes follows by applying it to the set of arguments for which the
claim holds. For this the folds of Transactions, OptimisticStore, Objects, TypedStore and Snapshot are written
as recursive functions. Sums over finite sets, and the folds of the community modules that
Keyspace and ServerLoop use, are treated the same way: the function they are defined by is
shown to exist, and unfolds one turn at a time.

What the proofs taught about the model: that the reader of dumps has limits the writer does
not have (they were missing from `Load`, and the theorem about restarts did not go through);
that `KnobsSurvive` has to say what becomes of padded and multi-line texts, which an instance
without them hides; that a shorter slow log with its head outside loses one more entry; that a half-run EXEC and a whole one are the same step of the abstract store; that
the gates of `dispatch` (authentication, the subscriber's short list) have to come before its
commands, and not beside them as further cases; that the racing clients must be finitely many
for a sum of their wins to mean anything; that a replica keeps an entry that has run out and
been freed on the master, so that a SETNX or RPUSH that builds on the absence there means
something else on the replica (`FeedReplays` did not except it before); and that a master
that becomes a replica and then a master again keeps its own replicas, which have missed
what happened in between (`LiveKeysPresent` did not say so). Of the last two TLC shows the first
on the instance of the run when `Built` ignores `lapsed`; the second takes three servers,
which the run does not have and the theorem does. And that a ZADD may carry a NaN and
overwrite it within the same command, after other pairs were placed by comparison with it:
`ReadsTellTruth` looked for a NaN in the array that results, and would have promised an order
that is not there; `tainted` now records the ZADD.

## 6. Plan

Every safety invariant, action property and refinement that a passing run checks is proved.
What is left to model are the parts of section 7 that keep state: HELLO and protected mode,
buffer limits of connections, CONFIG SET dir beside a running child. What would be proved
next are the abstract stores one level up: that a replica that has caught up implements its
master's TypedStore, for which Objects and Replication have to share their entries.

## 7. Not modelled

TLS (a wrapper around OpenSSL: handshake and records are the library's); the grammar of
RESP, glob patterns, number and reply formatting, INFO text (conversions of text without
state); the byte format of dumps and v1 files; a sum of HINCRBY that
leaves 64 bits (`ar_types.c`:599 does not check; the model stays below `MaxInt`); latency counters and the SHADOW, POLICY and
HOTCOLD surfaces (statistics and labels); the limits of read and write buffers and failed
allocations outside EXEC; protected mode and HELLO; `dlopen` of plugins; the policy agent
and the first-generation server in Aura, which reach the data plane through ordinary
commands; benchmarks and scripts.
