------------------------------- MODULE Snapshot -------------------------------
(***************************************************************************)
(* Dumps of the dictionary (native/src/ar_rdb.c) and restarts from them:   *)
(* SAVE in the server, BGSAVE in a forked child, the install by rename,    *)
(* crashes of the server at any point, children that outlive it, and the   *)
(* load at startup (ar_main.c).  The dictionary is that of module          *)
(* Keyspace, and the load replays its functions.                           *)
(*                                                                         *)
(* A process crash keeps the file system: fsync and power loss are not     *)
(* modelled.  A partly written temporary file is never read again, so a    *)
(* writer is either before its last write or has a complete file.          *)
(*                                                                         *)
(* epoch, hist, acked and overlapped are history variables: the number of  *)
(* the last change of the dictionary, what it held after each change, the  *)
(* newest change a SAVE or BGSAVE was reported to have saved, and whether  *)
(* two writers have ever been at work at once.                             *)
(***************************************************************************)
EXTENDS Keyspace, SequencesExt

CONSTANTS
    Pids,        \* process ids of BGSAVE children
    Second,      \* clock units in a second (1000)
    MaxEntries,  \* keys a dump may hold to be loaded (10000000)
    MaxElems,    \* elements an object may have to be loaded (AURA_RDB_MAX_ELEMS)
    MaxBlob,     \* bytes of a key or a value to be loaded (AURA_RDB_MAX_BLOB)
    MaxEpoch,    \* bound: changes of the dictionary
    MaxCrashes   \* bound: restarts

ASSUME SnapshotAssumption ==
    /\ Second \in Nat \ {0} /\ MaxEpoch \in Nat /\ MaxCrashes \in Nat
    /\ MaxEntries \in Nat /\ MaxElems \in Nat /\ MaxBlob \in Nat
    /\ 0 \notin Pids

VARIABLES
    proc,        \* "up", "saving" (inside SAVE) or "down"
    saving,      \* the file SAVE has written and not yet installed
    dump,        \* the dump file under its final name
    kids,        \* the children, by pid
    bgsave_pid,  \* core->rdb_bgsave_pid
    refused,     \* how the last start failed: "no"; "unlimited" for no limit's sake
                 \* (of memory, or of the reader); "limited"
    crashes, epoch, hist, acked, overlapped

disk == <<dump, kids, saving>>
ghosts == <<epoch, hist, acked, overlapped>>
svars == <<core, now, proc, saving, dump, kids, bgsave_pid, refused,
           crashes, ghosts>>

-----------------------------------------------------------------------------
(* Files.                                                                  *)

\* What the tables hold: type, payload and deadline of every linked key.
Content(c) == [k \in Linked(c) |-> <<c.type[k], c.payload[k], c.expire_at[k]>>]

Live(content, t) ==
    {k \in DOMAIN content : content[k][3] = 0 \/ t < content[k][3]}

\* Mutant: the header counts the entries that are due as well.
DumpOf_CountsDue(content, e) ==
    [count |-> Cardinality(DOMAIN content),
     entries |-> [k \in Live(content, now) |-> content[k]],
     epoch |-> e, at |-> now]

\* ar_rdb_save_to_path: the count in the header, then the live entries, both
\* for the same instant.
DumpOf(content, e) ==
    LET live == Live(content, now)
    IN  [count |-> Cardinality(live), entries |-> [k \in live |-> content[k]],
         epoch |-> e, at |-> now]

NoFile == [count |-> 0, entries |-> [k \in {} |-> <<>>], epoch |-> 0, at |-> 0]

NoKid == [stage |-> "none", content |-> [k \in {} |-> <<>>], epoch |-> 0, file |-> NoFile]

-----------------------------------------------------------------------------
(* Loading.  An outcome is a record and whether loading may go on.         *)

Done(S) == {[ok |-> TRUE, core |-> c] : c \in S}

Failed(c) == {[ok |-> FALSE, core |-> c]}

Then(O, F(_)) == UNION {IF o.ok THEN F(o.core) ELSE {o} : o \in O}

\* HSET, RPUSH, ZADD of one element; it fails when the object is evicted as
\* soon as it is created.
PushOne(c, k, ty) ==
    UNION {IF k \in Linked(d)
           THEN Done(MaybeEvict(ResizeObject(d, k, d.payload[k] + 1)))
           ELSE Failed(d) : d \in GetOrCreate(c, k, ty)}

\* Mutant: the remaining time is rounded down.
Rounded_Down(t) == now + Second * ((t - now) \div Second)

\* apply_expire_abs: the remaining time in whole seconds, rounded up.
Rounded(t) == now + Second * ((t - now + Second - 1) \div Second)

\* n elements pushed one after the other.
PushElements(c, k, ty, n) ==
    LET pushed[i \in 0..n] ==
            IF i = 0 THEN Done({c}) ELSE Then(pushed[i - 1], LAMBDA d : PushOne(d, k, ty))
    IN  pushed[n]

\* load_one_v2: a string with its deadline at once, an object element by
\* element and its deadline last.
LoadOne(c, k, e) ==
    IF e[1] = "string" THEN Done(EntrySetEx(c, k, e[2], e[3]))
    ELSE Then(PushElements(c, k, e[1], e[2] - ObjBase),
              LAMBDA d : IF e[3] = 0 THEN Done({d})
                         ELSE IF k \in Linked(d) THEN Done({Expire(d, k, Rounded(e[3]))})
                         ELSE Failed(d))

\* The reader refuses a key, a value or an object that is too large, due or
\* not; the writer has no such limits.
Readable(k, e) ==
    /\ KeyLen[k] <= MaxBlob
    /\ IF e[1] = "string" THEN e[2] <= MaxBlob ELSE e[2] - ObjBase <= MaxElems

\* An entry that is due is read and skipped.
LoadEntry(c, k, entries) ==
    IF ~ Readable(k, entries[k]) THEN Failed(c)
    ELSE IF k \in Live(entries, now) THEN LoadOne(c, k, entries[k]) ELSE Done({c})

LoadEntries(file, order, c) ==
    LET loaded[i \in 0..file.count] ==
            IF i = 0 THEN Done({c})
            ELSE Then(loaded[i - 1], LAMBDA d : LoadEntry(d, order[i], file.entries))
    IN  loaded[file.count]

\* ar_rdb_load: as many entries as the header counts, in the order of the
\* tables they were written from; a file that ends early fails, and so does
\* one with too many of them.
Load(file, c) ==
    IF file.count > MaxEntries \/ file.count > Cardinality(DOMAIN file.entries)
    THEN Failed(c)
    ELSE UNION {LoadEntries(file, order, c) : order \in SetToSeqs(DOMAIN file.entries)}

WithinLimits(file) ==
    /\ file.count <= MaxEntries
    /\ \A k \in DOMAIN file.entries : Readable(k, file.entries[k])

-----------------------------------------------------------------------------
(* The server.                                                             *)

\* The dictionary changes: a write command of a client.
Write ==
    /\ proc = "up" /\ epoch < MaxEpoch
    /\ \E k \in Keys, t \in {0} \cup {now + d : d \in Durations} :
          Step(EntrySetEx(Fresh, k, 1, t) \cup ObjectAdd(Fresh, k, "list", 2)
                 \cup {DelBin(Fresh, k), Expire(Fresh, k, t)})
    /\ Content(core') # Content(core)
    /\ epoch' = epoch + 1
    /\ hist' = [hist EXCEPT ![epoch'] = Content(core')]
    /\ UNCHANGED <<disk, proc, bgsave_pid, refused, crashes, acked, overlapped>>

Expiry ==
    /\ proc = "up"
    /\ \E X \in SUBSET Keys : ActiveExpire(X)
    /\ UNCHANGED <<disk, ghosts, proc, bgsave_pid, refused, crashes>>

Clock ==
    /\ Tick
    /\ UNCHANGED <<disk, ghosts, proc, bgsave_pid, refused, crashes>>

\* A child is at work, of this server or of the one before it.
Writing == \E p \in Pids : kids[p].stage \in {"forked", "written"}

\* The server writes a file itself: SAVE, or BGSAVE when fork fails.  A write
\* error removes the file and answers an error.
SaveWrite ==
    /\ proc = "up"
    /\ proc' = "saving" /\ saving' = DumpOf(Content(core), epoch)
    /\ overlapped' = (overlapped \/ Writing)
    /\ UNCHANGED <<core, now, dump, kids, epoch, hist, acked, bgsave_pid, refused, crashes>>

SaveInstall ==
    /\ proc = "saving"
    /\ proc' = "up" /\ saving' = NoFile
    /\ dump' = saving
    /\ acked' = Max({acked, saving.epoch})
    /\ UNCHANGED <<core, now, kids, epoch, hist, overlapped, bgsave_pid, refused, crashes>>

\* Mutant: a failed rename is reported as a success.
SaveFails_Unnoticed ==
    /\ proc = "saving"
    /\ proc' = "up" /\ saving' = NoFile
    /\ acked' = Max({acked, saving.epoch})
    /\ UNCHANGED <<core, now, dump, kids, epoch, hist, overlapped, bgsave_pid, refused, crashes>>

SaveFails ==
    /\ proc = "saving"
    /\ proc' = "up" /\ saving' = NoFile
    /\ UNCHANGED <<core, now, dump, kids, ghosts, bgsave_pid, refused, crashes>>

\* Mutant: a child that failed is never taken off the books.
Poll_OkOnly ==
    /\ proc = "up" /\ bgsave_pid # 0
    /\ kids[bgsave_pid].stage = "ok"
    /\ acked' = Max({acked, kids[bgsave_pid].epoch})
    /\ kids' = [kids EXCEPT ![bgsave_pid] = NoKid]
    /\ bgsave_pid' = 0
    /\ UNCHANGED <<core, now, proc, saving, dump, epoch, hist, overlapped, refused, crashes>>

\* ar_rdb_poll_bgsave, by the event loop and before every BGSAVE.
Poll ==
    /\ proc = "up" /\ bgsave_pid # 0
    /\ kids[bgsave_pid].stage \in {"ok", "failed"}
    /\ acked' = Max({acked, kids[bgsave_pid].epoch})
    /\ kids' = [kids EXCEPT ![bgsave_pid] = NoKid]
    /\ bgsave_pid' = 0
    /\ UNCHANGED <<core, now, proc, saving, dump, epoch, hist, overlapped, refused, crashes>>

\* BGSAVE, once polled, is refused while a child of this server is running.
Bgsave ==
    /\ proc = "up" /\ bgsave_pid = 0
    /\ \E p \in Pids :
          /\ kids[p].stage = "none"
          /\ kids' = [kids EXCEPT ![p] = [NoKid EXCEPT !.stage = "forked",
                                             !.content = Content(core), !.epoch = epoch]]
          /\ bgsave_pid' = p
    /\ overlapped' = (overlapped \/ Writing)
    /\ UNCHANGED <<core, now, proc, saving, dump, epoch, hist, acked, refused, crashes>>

-----------------------------------------------------------------------------
(* The child: it writes the dictionary it inherited, and renames.          *)

\* What is left of a child that exited: its status, and what it saved.
Exited(status, e) == [NoKid EXCEPT !.stage = status, !.epoch = e]

KidWrites(p) ==
    /\ kids[p].stage = "forked"
    /\ kids' = [kids EXCEPT ![p].stage = "written",
                            ![p].file = DumpOf(kids[p].content, kids[p].epoch)]
    /\ UNCHANGED <<core, now, proc, saving, dump, ghosts, bgsave_pid, refused, crashes>>

KidInstalls(p) ==
    /\ kids[p].stage = "written"
    /\ dump' = kids[p].file
    /\ kids' = [kids EXCEPT ![p] = Exited("ok", kids[p].epoch)]
    /\ UNCHANGED <<core, now, proc, saving, ghosts, bgsave_pid, refused, crashes>>

KidFails(p) ==
    /\ kids[p].stage \in {"forked", "written"}
    /\ kids' = [kids EXCEPT ![p] = Exited("failed", 0)]
    /\ UNCHANGED <<core, now, proc, saving, dump, ghosts, bgsave_pid, refused, crashes>>

\* A child that outlived its server is reaped by nobody's poll.
OrphanGone(p) ==
    /\ p # bgsave_pid /\ kids[p].stage \in {"ok", "failed"}
    /\ kids' = [kids EXCEPT ![p] = NoKid]
    /\ UNCHANGED <<core, now, proc, saving, dump, ghosts, bgsave_pid, refused, crashes>>

-----------------------------------------------------------------------------
(* Restarts.                                                               *)

\* SIGKILL or a crash: memory is gone, the children live on.
Crash ==
    /\ proc # "down" /\ crashes < MaxCrashes
    /\ crashes' = crashes + 1
    /\ proc' = "down" /\ saving' = NoFile
    /\ core' = [EmptyCore EXCEPT !.maxmemory = core.maxmemory, !.evict = core.evict]
    /\ bgsave_pid' = 0
    /\ UNCHANGED <<now, dump, kids, ghosts, refused>>

\* SIGTERM or SHUTDOWN: ar_core_destroy waits for the child; no dump is
\* written.
Shutdown ==
    /\ proc = "up" /\ crashes < MaxCrashes
    /\ bgsave_pid # 0 => kids[bgsave_pid].stage \in {"ok", "failed"}
    /\ crashes' = crashes + 1
    /\ proc' = "down"
    /\ core' = [EmptyCore EXCEPT !.maxmemory = core.maxmemory, !.evict = core.evict]
    /\ acked' = IF bgsave_pid = 0 THEN acked ELSE Max({acked, kids[bgsave_pid].epoch})
    /\ kids' = IF bgsave_pid = 0 THEN kids ELSE [kids EXCEPT ![bgsave_pid] = NoKid]
    /\ bgsave_pid' = 0
    /\ UNCHANGED <<now, saving, dump, epoch, hist, overlapped, refused>>

\* ar_main: maxmemory is set before the dump is loaded; a failed load ends
\* the process.
Start ==
    /\ proc = "down" /\ now' = now
    /\ \E m \in MaxMemories :
         \E o \in Load(dump, [core EXCEPT !.maxmemory = m]) :
           \/ /\ o.ok /\ refused' = "no" /\ proc' = "up"
              /\ core' = [o.core EXCEPT !.touched = {}]
              /\ epoch' = epoch + 1
              /\ hist' = [hist EXCEPT ![epoch'] = Content(o.core)]
           \/ /\ ~ o.ok
              /\ refused' = IF m = 0 /\ WithinLimits(dump) THEN "unlimited" ELSE "limited"
              /\ UNCHANGED <<core, proc, epoch, hist>>
    /\ UNCHANGED <<disk, bgsave_pid, crashes, acked, overlapped>>

SInit ==
    /\ \E m \in MaxMemories, e \in EvictNames :
          core = [EmptyCore EXCEPT !.maxmemory = m, !.evict = e]
    /\ now = 0 /\ proc = "up" /\ saving = NoFile /\ dump = NoFile
    /\ kids = [p \in Pids |-> NoKid] /\ bgsave_pid = 0
    /\ refused = "no" /\ crashes = 0
    /\ epoch = 0 /\ acked = 0 /\ overlapped = FALSE
    /\ hist = [e \in 0..(MaxEpoch + MaxCrashes) |-> NoFile.entries]

Kid(p) == KidWrites(p) \/ KidInstalls(p) \/ KidFails(p) \/ OrphanGone(p)

SNext ==
    \/ Write \/ Expiry \/ Clock \/ SaveWrite \/ SaveInstall \/ SaveFails
    \/ Poll \/ Bgsave \/ Crash \/ Shutdown \/ Start
    \/ \E p \in Pids : Kid(p)

SSpec == SInit /\ [][SNext]_svars

\* A child runs until it exits, SAVE returns, and the event loop polls on every
\* turn, however many SAVEs come between two turns.
SFairSpec ==
    /\ SSpec
    /\ SF_svars(Poll) /\ WF_svars(SaveInstall \/ SaveFails)
    /\ \A p \in Pids : WF_svars(Kid(p))

-----------------------------------------------------------------------------
(* Properties.                                                             *)

\* The dump under its final name is never torn: it holds exactly the keys of
\* the dictionary after one change, the keys due when it was written left
\* out, and its header counts them, whatever was written since, whoever
\* crashed and whichever writer came last.
DumpIsSnapshot ==
    /\ dump.count = Cardinality(DOMAIN dump.entries)
    /\ dump.entries = [k \in Live(hist[dump.epoch], dump.at) |-> hist[dump.epoch][k]]

\* persistence.md: the recovery point is the time of the last successful SAVE
\* or BGSAVE; a crash retains the last successful dump.  It is so as long as
\* writers do not overlap: the code lets SAVE run beside a child, and a new
\* server beside the child of a crashed one, and then the older file may be
\* installed last.
RecoveryPoint == overlapped \/ dump.epoch >= acked

\* Without a memory limit no dump the server wrote keeps it from starting
\* (persistence.md gives a corrupt file as the one reason for a startup
\* failure) as long as it is within the limits of the reader, which the writer
\* does not know; and every key comes back, and whole.  Under a memory limit
\* the load may evict what it is building, and fail.  In either case a restart
\* brings back no key that the dump does not hold or that is due, and of the
\* right type; its deadline is never earlier and less than a second later, and
\* a key without a deadline does not get one.
RestoredFaithfully ==
    [][/\ refused' # "unlimited"
       /\ proc = "down" /\ proc' = "up" =>
         /\ Linked(core') \subseteq Live(dump.entries, now)
         /\ \A k \in Linked(core') :
               LET old == dump.entries[k]
                   new == Content(core')[k]
               IN  /\ new[1] = old[1] /\ new[2] <= old[2]
                   /\ old[3] <= new[3] /\ new[3] < old[3] + Second
                   /\ new[3] = 0 <=> old[3] = 0
         /\ core'.maxmemory = 0 =>
               /\ Linked(core') = Live(dump.entries, now)
               /\ \A k \in Linked(core') : core'.payload[k] = dump.entries[k][2]]_svars

\* rdb_bgsave_in_progress does not stay on: every child is reaped or lost to
\* a crash, and BGSAVE is possible again.
BgsaveEnds == (bgsave_pid # 0) ~> (bgsave_pid = 0)
===============================================================================
