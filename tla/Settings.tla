------------------------------ MODULE Settings ------------------------------
(***************************************************************************)
(* The knobs of the server, the file that keeps them, and the slow log     *)
(* ring whose length is one of them.                                       *)
(*                                                                         *)
(* CONFIG SET changes a knob and rewrites the file (ar_config_rewrite: a   *)
(* temporary file, fsync, rename) before it answers; a start applies       *)
(* defaults, file, flags and environment (ar_config_load, main).  A crash  *)
(* may fall between any two of these steps, a power loss also takes what   *)
(* the kernel has not written yet.                                         *)
(*                                                                         *)
(* Six knobs stand for the eighteen of the file, one for each way of       *)
(* treating a value: maxclients is refused out of range (as timeout,       *)
(* tcp-backlog, slowlog-log-slower-than), slowlog-max-len is clamped (as   *)
(* evict-samples, shadow-sample-pct), requirepass is a text that may be    *)
(* empty (as shadow-policy), dir a text that may not (as dbfilename,       *)
(* bind); protected-mode and hot-promote-on-get are flags, and main sets   *)
(* the first of them again after it has read the file.                     *)
(*                                                                         *)
(* A rewrite prints a text as it is, and the reader takes a file line by   *)
(* line and skips the blanks in front of a value.  FirstLine and Further   *)
(* say what it finds in a text, which may be less than the text, or more.  *)
(***************************************************************************)
EXTENDS Integers, FiniteSets, Sequences, SequencesExt

CONSTANTS
    MaxConn,      \* AR_MAX_CONN
    RingMax,      \* AR_SLOWLOG_MAX
    Words,        \* the words and texts that requests and files may hold
    Writable,     \* what CONFIG SET is asked to store, for each knob
    FirstLine,    \* a text up to its line break, without the blanks in front
    Further,      \* the settings in the lines of a text behind that
    HandWritten,  \* files an operator may have left before the first start
    Starts,       \* flags and environment of a start, functions on what is set
    Missing,      \* no file
    Torn,         \* a file whose contents are not all there
    Refused,      \* a setter returned 0
    MaxWork,      \* bound: successful CONFIG SETs and slow commands, see Weight
    MaxFaults     \* bound: failed system calls, crashes and power losses

Knobs == {"requirepass", "protected-mode", "maxclients", "slowlog-max-len", "dir",
          "hot-promote-on-get"}
TextKnobs == {"requirepass", "dir"}
NoText == ""

\* A number behind strtol, or a word or text.
Written(k) == IF k \in {"maxclients", "slowlog-max-len"} THEN Int ELSE Words

ASSUME SettingsAssumption ==
    /\ MaxConn \in Nat \ {0} /\ RingMax \in Nat \ {0}
    /\ MaxWork \in Nat /\ MaxFaults \in Nat
    /\ \A k \in Knobs : Writable[k] \subseteq Written(k)
    /\ \A f \in HandWritten :
          DOMAIN f \subseteq Knobs /\ \A k \in DOMAIN f : f[k] \in Written(k)
    /\ \A s \in Starts : \A f \in {s.flags, s.env} :
          /\ DOMAIN f \subseteq Knobs \ {"slowlog-max-len", "hot-promote-on-get"}
          /\ \A k \in DOMAIN f : f[k] \in Written(k)
    \* main takes a variable that is set to nothing for one that is not set.
    /\ \A s \in Starts : \A k \in DOMAIN s.env \ {"maxclients"} : s.env[k] # NoText

\* A line of an operator's file holds no line break.
ASSUME TextsAssumption ==
    /\ FirstLine \in [Words -> Words]
    /\ \A v \in Words : /\ DOMAIN Further[v] \subseteq Knobs
                         /\ \A k \in DOMAIN Further[v] : Further[v][k] \in Written(k)
    /\ \A f \in HandWritten : \A k \in DOMAIN f \cap TextKnobs : DOMAIN Further[f[k]] = {}

ASSUME MarksAssumption ==
    /\ {NoText, ".", "pw", "yes", "no"} \subseteq Words
    /\ Refused \notin Int /\ Refused \notin BOOLEAN /\ Refused \notin Words
    /\ Missing # Torn /\ Missing \notin HandWritten /\ Torn \notin HandWritten
    /\ Missing \notin [Knobs -> Int \cup Words] /\ Torn \notin [Knobs -> Int \cup Words]

VARIABLES
    at,      \* where the one thread is: down, idle, or inside a rewrite
    asked,   \* the command that rewrites the file: "set", "rewrite" or "none"
    reply,   \* the last reply to one of them
    live,    \* the knobs in ArCore
    tmp,     \* the temporary file: data, and whether it is on the disk
    file,    \* the file behind config_path, likewise
    disk,    \* the data config_path had when the directory was last written out
    slowlog, \* ring, slowlog_head, slowlog_len, slowlog_next_id
    work, faults, \* what counts towards MaxWork and MaxFaults
    held,    \* history: every file text that described the knobs of some moment
    saved,   \* history: the text of the last rewrite that still counts
    since    \* history: from this entry on SLOWLOG GET is in order

svars == <<at, asked, reply, live, tmp, file, disk, slowlog, work, faults,
           held, saved, since>>

-----------------------------------------------------------------------------
(***************************************************************************)
(* Values: what a setter makes of one, what the file shows of it, what a   *)
(* reader of the file gets back.                                           *)
(***************************************************************************)
Clamp(n, lo, hi) == IF n < lo THEN lo ELSE IF n > hi THEN hi ELSE n

\* The setters.  NoWords: the words that switch a flag off.
Setter(k, v, NoWords) ==
    CASE k = "maxclients" -> IF v \in 1..MaxConn THEN v ELSE Refused
      [] k = "slowlog-max-len" -> Clamp(v, 0, RingMax)
      [] k \in {"protected-mode", "hot-promote-on-get"} -> v \notin NoWords
      [] k = "requirepass" -> v
      [] k = "dir" -> IF v = NoText THEN Refused ELSE v

\* CONFIG SET and the command line do not know "off"; the file and the
\* environment do.
SetNoWords == {"no", "0", "false"}
FileNoWords == SetNoWords \cup {"off"}

\* Mutant: the range of maxclients is not checked.
Accept_AnyNumber(k, v) == IF k = "maxclients" THEN v ELSE Setter(k, v, SetNoWords)

Accept(k, v) == Setter(k, v, SetNoWords)

\* One line of the file: apply_kv behind the blank-skipping of the reader.
AsRead(k, v) == IF k \in TextKnobs THEN FirstLine[v] ELSE v
ApplyKv(k, v) == Setter(k, AsRead(k, v), FileNoWords)

Defaults == [k \in Knobs |->
    CASE k = "maxclients" -> MaxConn
      [] k = "slowlog-max-len" -> RingMax
      [] k \in {"protected-mode", "hot-promote-on-get"} -> TRUE
      [] k = "requirepass" -> NoText
      [] k = "dir" -> "."]

\* What a rewrite prints for each knob, whoever set it.
Text(knobs) ==
    [knobs EXCEPT !["protected-mode"] = IF @ THEN "yes" ELSE "no",
                  !["hot-promote-on-get"] = IF @ THEN "yes" ELSE "no",
                  !["dir"] = IF @ = NoText THEN "." ELSE @]

\* The lines a reader finds: of two for one knob the later counts.  A rewrite
\* prints requirepass first, then protected-mode, maxclients, slowlog-max-len,
\* dir, and hot-promote-on-get last.
Behind(data, k) == IF k \in DOMAIN data THEN Further[data[k]] ELSE <<>>
Over(f, g) == [k \in DOMAIN f \cup DOMAIN g |-> IF k \in DOMAIN f THEN f[k] ELSE g[k]]
Lines(data) ==
    Over(Restrict(data, DOMAIN data \cap {"hot-promote-on-get"}),
    Over(Behind(data, "dir"),
    Over(Restrict(data, DOMAIN data \ {"requirepass"}),
    Over(Behind(data, "requirepass"), data))))

\* The knobs that a further line of a text sets after their own line.
Overridden(data) ==
    (DOMAIN Behind(data, "dir") \ {"hot-promote-on-get"}) \cup
    (DOMAIN Behind(data, "requirepass") \cap {"requirepass"})

\* ar_config_load: the first bad line refuses the whole start.
Taken(lines) == \A k \in DOMAIN lines : ApplyKv(k, lines[k]) # Refused
Loads(data) ==
    data # Missing =>
        data # Torn /\ Taken(data) /\ \A k \in TextKnobs : Taken(Behind(data, k))

Loaded(data) ==
    [k \in Knobs |-> IF data # Missing /\ k \in DOMAIN Lines(data)
                     THEN ApplyKv(k, Lines(data)[k]) ELSE Defaults[k]]

\* main: a flag or variable for a knob.  A maxclients out of range is ignored.
FromCli(k, v) == Setter(k, v, SetNoWords)
FromEnv(k, v) == Setter(k, v, FileNoWords)

\* The flags that keep main from looking at the environment.
FlagCounts(k, v) ==
    CASE k = "maxclients" -> v >= 0
      [] k \in TextKnobs -> v # NoText
      [] OTHER -> TRUE

\* What the start sets after the file.
Given(start, k) ==
    IF k \in DOMAIN start.flags /\ FlagCounts(k, start.flags[k])
    THEN FromCli(k, start.flags[k])
    ELSE IF k \in DOMAIN start.env THEN FromEnv(k, start.env[k])
    ELSE IF k = "protected-mode" THEN TRUE
    ELSE Refused

\* Mutant: flags and environment are applied before the file.
Booted_FileWins(data, start) ==
    [k \in Knobs |->
        IF Given(start, k) = Refused \/ (data # Missing /\ k \in DOMAIN Lines(data))
        THEN Loaded(data)[k]
        ELSE Given(start, k)]

Booted(data, start) ==
    [k \in Knobs |-> IF Given(start, k) # Refused THEN Given(start, k) ELSE Loaded(data)[k]]

-----------------------------------------------------------------------------
(***************************************************************************)
(* The slow log.                                                           *)
(***************************************************************************)
EmptyLog(nextId, ring) == [ring |-> ring, head |-> 0, len |-> 0, next_id |-> nextId]

Unwritten == -1   \* the zeroed slots of a fresh ArCore

Push(log, maxl) ==
    IF maxl <= 0 THEN log
    ELSE [ring |-> [log.ring EXCEPT ![log.head] = log.next_id],
          head |-> (log.head + 1) % maxl,
          len |-> IF log.len < maxl THEN log.len + 1 ELSE log.len,
          next_id |-> log.next_id + 1]

\* The slots in use; a log that is switched off is read as the whole array.
Slots(n) == IF n <= 0 THEN RingMax ELSE n

\* Mutant: the head is taken for the newest entry.
EntryAt_FromHead(log, knobs, i) ==
    log.ring[(log.head - i) % Slots(knobs["slowlog-max-len"])]

\* The entry SLOWLOG GET prints at place i, counted from 0 for the newest.
\* (idx % maxl is also the result of the code's loop for a negative idx.)
EntryAt(log, knobs, i) ==
    log.ring[(log.head - 1 - i) % Slots(knobs["slowlog-max-len"])]

SlowlogGet(log, knobs) == [i \in 1..log.len |-> EntryAt(log, knobs, i - 1)]

\* CONFIG SET slowlog-max-len shortens the log and leaves the head alone.
Trimmed(log, n) == [log EXCEPT !.len = IF @ > n THEN n ELSE @]

-----------------------------------------------------------------------------
(***************************************************************************)
(* Start, commands, the steps of a rewrite, faults.                        *)
(***************************************************************************)
NewLog == EmptyLog(0, [i \in 0..RingMax - 1 |-> Unwritten])
NoFile == [data |-> Missing, synced |-> TRUE]

\* The memory of a process that is not running; ar_core_create starts from it.
NoProcess ==
    /\ at = "down" /\ asked = "none" /\ reply = "none"
    /\ tmp = NoFile /\ live = Defaults /\ slowlog = NewLog /\ since = 0

\* The temporary file has the pid in its name: nobody looks at one left over.
ProcessGone ==
    /\ at' = "down" /\ asked' = "none" /\ reply' = "none"
    /\ tmp' = NoFile /\ live' = Defaults /\ slowlog' = NewLog /\ since' = 0

SInit ==
    /\ NoProcess
    /\ \E f \in HandWritten \cup {Missing} :
           /\ file = [data |-> f, synced |-> TRUE]
           /\ disk = f /\ saved = f
    /\ work = 0 /\ faults = 0 /\ held = {}

Boot ==
    /\ at = "down" /\ Loads(file.data)
    /\ \E start \in Starts : live' = Booted(file.data, start)
    /\ at' = "idle"
    /\ held' = held \cup {Text(live')}
    /\ UNCHANGED <<asked, reply, tmp, file, disk, slowlog, work, faults, saved, since>>

\* A bad line: main exits, and nothing has changed.
BootRefused == at = "down" /\ ~Loads(file.data) /\ UNCHANGED svars

\* A new length n leaves the entries from slot 0 up to the head in order; if
\* the head lies outside, the next entry falls into a slot that no one reads.
SinceCut(n) ==
    IF slowlog.head >= Slots(n) THEN slowlog.next_id + 1
    ELSE IF slowlog.next_id - slowlog.head > since THEN slowlog.next_id - slowlog.head
    ELSE since

\* What a CONFIG SET counts towards MaxWork, where a slow command counts 1.
Weight(k) == IF k = "slowlog-max-len" THEN 2 ELSE 3

ConfigSet(k, v) ==
    /\ at = "idle" /\ work + Weight(k) <= MaxWork /\ Accept(k, v) # Refused
    /\ live' = [live EXCEPT ![k] = Accept(k, v)]
    /\ IF k = "slowlog-max-len"
       THEN /\ slowlog' = Trimmed(slowlog, Accept(k, v))
            /\ since' = IF live' = live THEN since ELSE SinceCut(Accept(k, v))
       ELSE UNCHANGED <<slowlog, since>>
    /\ at' = "writing" /\ asked' = "set" /\ work' = work + Weight(k)
    /\ held' = held \cup {Text(live')}
    /\ UNCHANGED <<reply, tmp, file, disk, faults, saved>>

ConfigRewrite ==
    /\ at = "idle"
    /\ at' = "writing" /\ asked' = "rewrite"
    /\ UNCHANGED <<reply, live, tmp, file, disk, slowlog, work, faults, held, saved, since>>

\* Reply of a rewrite that failed: CONFIG SET answers OK all the same.
FailureReply == IF asked = "set" THEN "OK" ELSE "ERR"

RewriteFails ==
    /\ at \in {"writing", "written", "synced"} /\ faults < MaxFaults
    /\ faults' = faults + 1
    /\ tmp' = NoFile
    /\ reply' = FailureReply /\ asked' = "none" /\ at' = "idle"
    /\ UNCHANGED <<live, file, disk, slowlog, work, held, saved, since>>

\* fopen, fprintf, fflush.
WriteTmp ==
    /\ at = "writing"
    /\ tmp' = [data |-> Text(live), synced |-> FALSE]
    /\ at' = "written"
    /\ UNCHANGED <<asked, reply, live, file, disk, slowlog, work, faults, held, saved, since>>

\* Mutant: no fsync before the rename.
SyncTmp_Skipped ==
    /\ at = "written" /\ at' = "synced"
    /\ UNCHANGED <<asked, reply, live, tmp, file, disk, slowlog, work, faults, held, saved, since>>

SyncTmp ==
    /\ at = "written"
    /\ tmp' = [tmp EXCEPT !.synced = TRUE]
    /\ at' = "synced"
    /\ UNCHANGED <<asked, reply, live, file, disk, slowlog, work, faults, held, saved, since>>

Rename ==
    /\ at = "synced"
    /\ file' = tmp /\ tmp' = NoFile
    /\ saved' = Text(live)
    /\ reply' = "OK" /\ asked' = "none" /\ at' = "idle"
    /\ UNCHANGED <<live, disk, slowlog, work, faults, held, since>>

\* note_cmd_latency of a command slow enough, other than SLOWLOG.
SlowCommand ==
    /\ at = "idle" /\ work < MaxWork
    /\ work' = work + 1
    /\ slowlog' = Push(slowlog, live["slowlog-max-len"])
    /\ UNCHANGED <<at, asked, reply, live, tmp, file, disk, faults, held, saved, since>>

SlowlogReset ==
    /\ at = "idle"
    /\ slowlog' = EmptyLog(slowlog.next_id, slowlog.ring)
    /\ since' = slowlog.next_id
    /\ UNCHANGED <<at, asked, reply, live, tmp, file, disk, work, faults, held, saved>>

\* The process dies, between any two steps; also a shutdown.
Crash ==
    /\ at # "down" /\ faults < MaxFaults
    /\ ProcessGone /\ faults' = faults + 1
    /\ UNCHANGED <<file, disk, work, held, saved>>

\* The machine dies: a rename not written out may be undone, data that was
\* never synced is not all there.
PowerLoss ==
    /\ at # "down" /\ faults < MaxFaults
    /\ ProcessGone /\ faults' = faults + 1
    /\ \E undone \in BOOLEAN :
           LET data == IF undone THEN disk ELSE IF file.synced THEN file.data ELSE Torn
           IN  /\ file' = [data |-> data, synced |-> TRUE]
               /\ disk' = data
               /\ saved' = IF undone THEN disk ELSE saved
    /\ UNCHANGED <<work, held>>

\* The kernel writes the directory out.
Writeback ==
    /\ file.synced /\ disk # file.data
    /\ disk' = file.data
    /\ UNCHANGED <<at, asked, reply, live, tmp, file, slowlog, work, faults, held, saved, since>>

SNext ==
    \/ Boot \/ BootRefused
    \/ \E k \in Knobs : \E v \in Writable[k] : ConfigSet(k, v)
    \/ ConfigRewrite \/ WriteTmp \/ SyncTmp \/ Rename \/ RewriteFails
    \/ SlowCommand \/ SlowlogReset
    \/ Crash \/ PowerLoss \/ Writeback

SSpec == SInit /\ [][SNext]_svars

-----------------------------------------------------------------------------
(***************************************************************************)
(* Properties.                                                             *)
(***************************************************************************)

\* At every moment, also after a crash inside a rewrite and after a power
\* loss, the file is either as the operator left it or the complete settings
\* the server held at one moment: never a torn file, never a mixture
\* (ar_config_rewrite: temporary file, fsync, rename).  And of what CONFIG SET
\* let through only a text can keep the server from starting on a file it
\* wrote itself: a dir of which the reader finds nothing, being blank, or a
\* text with a line break and a bad setting behind it (ar_config_load).
FileIsWhole ==
    /\ file.data \in held \cup HandWritten \cup {Missing}
    /\ file.data \in held =>
        (Loads(file.data) <=> /\ FirstLine[file.data["dir"]] # NoText
                              /\ \A k \in TextKnobs : Taken(Further[file.data[k]]))

\* CONFIG REWRITE answers OK only if the file now shows the live settings, and
\* a start gives back what the last rewrite saved, however many crashes and
\* failed rewrites lie in between, a text without the blanks in front of it
\* and up to its line break - except what flags and environment give, which
\* comes after the file and for protected-mode is yes where they say nothing,
\* and except the knobs that a setting behind a line break overrides.
KnobsSurvive ==
    [][/\ asked = "rewrite" /\ at \notin {"down", "idle"} /\ at' = "idle" /\ reply' = "OK" =>
            file'.data = Text(live)
       /\ at = "down" /\ at' = "idle" /\ saved \in held =>
        \E start \in Starts : \A k \in Knobs :
            IF Given(start, k) # Refused
            THEN live'[k] = Given(start, k)
            ELSE k \notin Overridden(saved) => Text(live')[k] = AsRead(k, saved[k])]_svars

\* SLOWLOG GET lists the last commands recorded, newest first and without a
\* gap: all it lists, as long as the length of the ring is not changed.  A
\* change of slowlog-max-len keeps in order only what lies from slot 0 up to
\* the head; with the head outside the new length it keeps nothing, and the
\* next entry is lost as well.  What is recorded from then on is in order
\* again.  And at all times slowlog_push writes inside the array.
SlowlogNewestFirst ==
    /\ slowlog.head \in DOMAIN slowlog.ring
    /\ at # "down" =>
        \A i \in 1..slowlog.len :
            i <= slowlog.next_id - since =>
                SlowlogGet(slowlog, live)[i] = slowlog.next_id - i
=============================================================================
