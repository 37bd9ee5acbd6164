---------------------------- MODULE OperatorProofs ----------------------------
(***************************************************************************)
(* Proofs about the two components an operator commands: Settings (CONFIG, *)
(* its durable file, the slow log ring) and Replication (REPLICAOF, SYNC,  *)
(* the live feed).  They share nothing but this module.                    *)
(*                                                                         *)
(* Settings is proved for any number of faults and rewrites, any size of   *)
(* the ring and any values CONFIG SET is sent, texts that do not come back *)
(* from the file as they were among them.                                  *)
(*                                                                         *)
(* Of Replication its types are proved, and that a replica with the rest   *)
(* of its stream applied stands for its master (FeedReplays,               *)
(* LiveKeysPresent).  What a stream does to a dictionary depends on when   *)
(* its commands are executed; the invariant therefore speaks of every run  *)
(* of the stream, at whatever times from now on.                           *)
(***************************************************************************)
EXTENDS Settings, Replication, SequenceTheorems, Induction

-----------------------------------------------------------------------------
(***************************************************************************)
(* Settings.                                                               *)
(***************************************************************************)

-----------------------------------------------------------------------------
(* Values.                                                                 *)

Switches == {"protected-mode", "hot-promote-on-get"}

\* What a knob may be while the server runs.
Allowed(k) ==
    CASE k = "maxclients" -> 1..MaxConn
      [] k = "slowlog-max-len" -> 0..RingMax
      [] k \in Switches -> BOOLEAN
      [] k = "requirepass" -> Words
      [] k = "dir" -> Words \ {NoText}

\* What a line of a file the server wrote may show of it.
Printed(k) == IF k \in Switches THEN {"yes", "no"} ELSE Allowed(k)

Valid(knobs) == /\ knobs = [k \in Knobs |-> knobs[k]]
                /\ \A k \in Knobs : knobs[k] \in Allowed(k)

Whole(f) == /\ f = [k \in Knobs |-> f[k]]
            /\ \A k \in Knobs : f[k] \in Printed(k)

LEMMA ClampRange ==
    ASSUME NEW n \in Int
    PROVE  /\ Clamp(n, 0, RingMax) \in 0..RingMax
           /\ n \in 0..RingMax => Clamp(n, 0, RingMax) = n
BY SettingsAssumption DEF Clamp

\* A setter that does not refuse leaves an allowed value.
LEMMA SetterAllowed ==
    ASSUME NEW k \in Knobs, NEW v \in Written(k), NEW W, Setter(k, v, W) # Refused
    PROVE  Setter(k, v, W) \in Allowed(k)
<1>1. CASE k = "maxclients"
  BY <1>1 DEF Setter, Allowed, Switches
<1>2. CASE k = "slowlog-max-len"
  BY <1>2, ClampRange DEF Setter, Allowed, Switches, Written
<1>3. CASE k \in Switches
  <2>1. (v \notin W) \in BOOLEAN
    OBVIOUS
  <2>2. Setter(k, v, W) = (v \notin W) /\ Allowed(k) = BOOLEAN
    BY <1>3 DEF Setter, Allowed, Switches
  <2> QED BY <2>1, <2>2
<1>4. CASE k = "requirepass"
  BY <1>4 DEF Setter, Allowed, Written, Switches
<1>5. CASE k = "dir"
  BY <1>5 DEF Setter, Allowed, Written, Switches
<1> QED BY <1>1, <1>2, <1>3, <1>4, <1>5 DEF Knobs, Switches

\* A line of a file that is taken leaves an allowed value.
LEMMA LineAllowed ==
    ASSUME NEW k \in Knobs, NEW v \in Written(k), ApplyKv(k, v) # Refused
    PROVE  ApplyKv(k, v) \in Allowed(k)
<1>1. AsRead(k, v) \in Written(k)
  BY TextsAssumption DEF AsRead, Written, TextKnobs
<1> QED BY <1>1, SetterAllowed DEF ApplyKv

\* A line the server printed is read back as it was, but for a text.
LEMMA PrintedRead ==
    ASSUME NEW k \in Knobs, NEW v \in Printed(k)
    PROVE  /\ v \in Written(k)
           /\ k # "dir" => ApplyKv(k, v) # Refused
           /\ k = "dir" => (ApplyKv(k, v) # Refused <=> FirstLine[v] # NoText)
           /\ k \in TextKnobs /\ ApplyKv(k, v) # Refused => ApplyKv(k, v) = FirstLine[v]
           /\ k \in {"maxclients", "slowlog-max-len"} => ApplyKv(k, v) = v
           /\ k \in Switches => ApplyKv(k, v) = (v = "yes")
<1>1. CASE k = "maxclients"
  <2>1. v \in 1..MaxConn /\ v \in Int
    BY <1>1, SettingsAssumption DEF Printed, Allowed, Switches
  <2>2. ApplyKv(k, v) = v
    BY <1>1, <2>1 DEF ApplyKv, AsRead, Setter, TextKnobs
  <2> QED BY <1>1, <2>1, <2>2, MarksAssumption DEF Written, TextKnobs, Switches
<1>2. CASE k = "slowlog-max-len"
  <2>1. v \in 0..RingMax /\ ApplyKv(k, v) = Clamp(v, 0, RingMax)
    BY <1>2 DEF ApplyKv, AsRead, Setter, Printed, Allowed, TextKnobs, Switches
  <2>2. v \in Int
    BY <2>1
  <2>3. ApplyKv(k, v) = v
    BY <2>1, <2>2, ClampRange
  <2> QED BY <1>2, <2>2, <2>3, MarksAssumption DEF Written, TextKnobs, Switches
<1>3. CASE k \in Switches
  <2>1. ApplyKv(k, v) = (v \notin FileNoWords)
    BY <1>3 DEF ApplyKv, AsRead, Setter, TextKnobs, Switches
  <2>2. v = "yes" \/ v = "no"
    BY <1>3 DEF Printed
  <2>3. (v \notin FileNoWords) = (v = "yes")
    BY <2>2 DEF FileNoWords, SetNoWords
  <2>4. ApplyKv(k, v) \in BOOLEAN
    BY <2>1
  <2>5. v \in Written(k) /\ k \notin TextKnobs
    BY <1>3, <2>2, MarksAssumption DEF Written, Switches, TextKnobs
  <2>6. ApplyKv(k, v) # Refused
    BY <2>4, MarksAssumption
  <2> QED BY <1>3, <2>1, <2>3, <2>5, <2>6 DEF Switches
<1>4. CASE k = "requirepass"
  <2>1. v \in Words /\ FirstLine[v] \in Words /\ FirstLine[v] # Refused
    BY <1>4, TextsAssumption, MarksAssumption DEF Printed, Allowed, Switches
  <2> QED BY <1>4, <2>1 DEF ApplyKv, AsRead, Setter, TextKnobs, Switches, Written
<1>5. CASE k = "dir"
  <2>1. v \in Words /\ FirstLine[v] \in Words /\ FirstLine[v] # Refused
    BY <1>5, TextsAssumption, MarksAssumption DEF Printed, Allowed, Switches
  <2> QED BY <1>5, <2>1 DEF ApplyKv, AsRead, Setter, TextKnobs, Switches, Written
<1> QED BY <1>1, <1>2, <1>3, <1>4, <1>5 DEF Knobs, Switches

\* Whatever a rewrite prints is a whole file, and a whole file loads.
LEMMA TextWhole ==
    ASSUME NEW knobs, Valid(knobs)
    PROVE  /\ Whole(Text(knobs))
           /\ \A k \in Knobs \ Switches : Text(knobs)[k] = knobs[k]
           /\ \A k \in Switches : Text(knobs)[k] = IF knobs[k] THEN "yes" ELSE "no"
<1> DEFINE t == Text(knobs)
<1>1. knobs["dir"] # NoText /\ knobs = [k \in Knobs |-> knobs[k]]
  BY DEF Valid, Knobs, Allowed, Switches
<1>2. t = [k \in Knobs |-> IF k \in Switches
                           THEN IF knobs[k] THEN "yes" ELSE "no"
                           ELSE knobs[k]]
  BY <1>1 DEF Text, Knobs, Switches
<1> HIDE DEF t
<1>3. \A k \in Knobs : t[k] \in Printed(k)
  BY <1>2 DEF Valid, Printed
<1> QED BY <1>2, <1>3 DEF Whole, t, Knobs, Switches

LEMMA WholeType ==
    ASSUME NEW f, Whole(f)
    PROVE  f # Torn /\ f # Missing /\ DOMAIN f = Knobs
<1>1. ASSUME NEW k \in Knobs PROVE f[k] \in Int \cup Words
  BY PrintedRead DEF Whole, Written
<1>2. f \in [Knobs -> Int \cup Words] /\ DOMAIN f = Knobs
  BY <1>1 DEF Whole
<1> QED BY <1>2, MarksAssumption

\* Only a text refuses a file that the server wrote.
LEMMA WholeLoads ==
    ASSUME NEW f, Whole(f)
    PROVE  Loads(f) <=> /\ FirstLine[f["dir"]] # NoText
                        /\ \A k \in TextKnobs : Taken(Further[f[k]])
<1>1. f # Torn /\ f # Missing /\ DOMAIN f = Knobs
  BY WholeType
<1>2. \A k \in TextKnobs : Behind(f, k) = Further[f[k]]
  BY <1>1 DEF Behind, TextKnobs, Knobs
<1>3. Taken(f) <=> FirstLine[f["dir"]] # NoText
  <2>1. \A k \in Knobs : f[k] \in Printed(k)
    BY DEF Whole
  <2>2. "dir" \in Knobs
    BY DEF Knobs
  <2> QED BY <1>1, <2>1, <2>2, PrintedRead DEF Taken
<1> QED BY <1>1, <1>2, <1>3 DEF Loads

\* A line that counts is the knob's own or one behind a text.
LEMMA LineSource ==
    ASSUME NEW data, NEW k \in DOMAIN Lines(data)
    PROVE  \/ k \in DOMAIN data /\ Lines(data)[k] = data[k]
           \/ \E t \in TextKnobs : /\ k \in DOMAIN Behind(data, t)
                                   /\ Lines(data)[k] = Behind(data, t)[k]
<1> DEFINE D == Behind(data, "dir")
           P == Behind(data, "requirepass")
<1>1. "dir" \in TextKnobs /\ "requirepass" \in TextKnobs
  BY DEF TextKnobs
<1> HIDE DEF D, P
<1>2. \/ k \in DOMAIN data /\ Lines(data)[k] = data[k]
      \/ k \in DOMAIN D /\ Lines(data)[k] = D[k]
      \/ k \in DOMAIN P /\ Lines(data)[k] = P[k]
  BY DEF Lines, D, P, Over, Restrict
<1> QED BY <1>1, <1>2 DEF D, P

\* The own line of a knob counts unless one behind a text overrides it.
LEMMA OwnLine ==
    ASSUME NEW data, NEW k \in DOMAIN data, k \notin Overridden(data)
    PROVE  k \in DOMAIN Lines(data) /\ Lines(data)[k] = data[k]
<1> DEFINE D == Behind(data, "dir")
           P == Behind(data, "requirepass")
<1> HIDE DEF D, P
<1>1. k \in DOMAIN D => k = "hot-promote-on-get"
  BY DEF Overridden, D
<1>2. k \in DOMAIN P => k # "requirepass"
  BY DEF Overridden, P
<1>3. k \in DOMAIN Lines(data)
  BY DEF Lines, D, P, Over, Restrict
<1>4. CASE k = "hot-promote-on-get"
  BY <1>4 DEF Lines, D, P, Over, Restrict
<1>5. CASE k # "hot-promote-on-get"
  BY <1>1, <1>2, <1>5 DEF Lines, D, P, Over, Restrict
<1> QED BY <1>3, <1>4, <1>5

LEMMA DefaultsValid == Valid(Defaults)
<1>1. /\ Defaults["maxclients"] \in Allowed("maxclients")
      /\ Defaults["slowlog-max-len"] \in Allowed("slowlog-max-len")
  <2>1. MaxConn \in 1..MaxConn /\ RingMax \in 0..RingMax
    BY SettingsAssumption
  <2> QED BY <2>1 DEF Defaults, Allowed, Knobs, Switches
<1>2. \A k \in Switches : Defaults[k] \in Allowed(k)
  BY DEF Defaults, Allowed, Knobs, Switches
<1>3. /\ Defaults["requirepass"] \in Allowed("requirepass")
      /\ Defaults["dir"] \in Allowed("dir")
  <2>1. "." # NoText
    BY Zenon DEF NoText
  <2> QED BY <2>1, MarksAssumption DEF Defaults, Allowed, Knobs, Switches
<1>4. Defaults = [k \in Knobs |-> Defaults[k]]
  <2> DEFINE d(k) == CASE k = "maxclients" -> MaxConn
                       [] k = "slowlog-max-len" -> RingMax
                       [] k \in {"protected-mode", "hot-promote-on-get"} -> TRUE
                       [] k = "requirepass" -> NoText
                       [] k = "dir" -> "."
  <2>1. Defaults = [k \in Knobs |-> d(k)]
    BY Zenon DEF Defaults
  <2> HIDE DEF d
  <2> QED BY <2>1
<1> QED BY <1>1, <1>2, <1>3, <1>4 DEF Valid, Knobs, Switches

\* Every line of a file that loads leaves an allowed value.
LEMMA LoadedAllowed ==
    ASSUME NEW data, Loads(data), Whole(data) \/ data \in HandWritten \cup {Missing},
           NEW k \in Knobs
    PROVE  Loaded(data)[k] \in Allowed(k)
<1>1. CASE data # Missing /\ k \in DOMAIN Lines(data)
  <2> DEFINE v == Lines(data)[k]
  <2>1. Loaded(data)[k] = ApplyKv(k, v)
    BY <1>1 DEF Loaded
  <2>2. ASSUME NEW j \in DOMAIN data PROVE j \in Knobs /\ data[j] \in Written(j)
    <3>1. CASE Whole(data)
      BY <2>2, <3>1, WholeType, PrintedRead DEF Whole
    <3>2. CASE data \in HandWritten
      BY <2>2, <3>2, SettingsAssumption
    <3> QED BY <1>1, <3>1, <3>2
  <2>3. ASSUME NEW t \in TextKnobs, k \in DOMAIN Behind(data, t)
        PROVE  Behind(data, t)[k] \in Written(k)
    <3>1. t \in DOMAIN data
      BY <2>3 DEF Behind
    <3>2. data[t] \in Words /\ Behind(data, t) = Further[data[t]]
      BY <2>2, <3>1 DEF Behind, Written, TextKnobs
    <3> QED BY <2>3, <3>2, TextsAssumption
  <2>4. v \in Written(k) /\ ApplyKv(k, v) # Refused
    BY <1>1, <2>2, <2>3, LineSource DEF Loads, Taken
  <2> HIDE DEF v
  <2> QED BY <2>1, <2>4, LineAllowed
<1>2. CASE ~ (data # Missing /\ k \in DOMAIN Lines(data))
  BY <1>2, DefaultsValid DEF Loaded, Valid
<1> QED BY <1>1, <1>2

\* What flags and environment give a knob is allowed.
LEMMA GivenAllowed ==
    ASSUME NEW start \in Starts, NEW k \in Knobs, Given(start, k) # Refused
    PROVE  Given(start, k) \in Allowed(k)
<1>1. CASE k \in DOMAIN start.flags /\ FlagCounts(k, start.flags[k])
  <2>1. start.flags[k] \in Written(k)
    BY <1>1, SettingsAssumption
  <2>2. Given(start, k) = Setter(k, start.flags[k], SetNoWords)
    BY <1>1 DEF Given, FromCli
  <2> QED BY <2>1, <2>2, SetterAllowed
<1>2. CASE ~ (k \in DOMAIN start.flags /\ FlagCounts(k, start.flags[k]))
           /\ k \in DOMAIN start.env
  <2>1. start.env[k] \in Written(k)
    BY <1>2, SettingsAssumption
  <2>2. Given(start, k) = Setter(k, start.env[k], FileNoWords)
    BY <1>2 DEF Given, FromEnv
  <2> QED BY <2>1, <2>2, SetterAllowed
<1>3. CASE ~ (k \in DOMAIN start.flags /\ FlagCounts(k, start.flags[k]))
           /\ k \notin DOMAIN start.env
  BY <1>3 DEF Given, Allowed, Switches
<1> QED BY <1>1, <1>2, <1>3

LEMMA BootedValid ==
    ASSUME NEW data, Loads(data), Whole(data) \/ data \in HandWritten \cup {Missing},
           NEW start \in Starts
    PROVE  Valid(Booted(data, start))
<1>1. \A k \in Knobs : Booted(data, start)[k] \in Allowed(k)
  BY LoadedAllowed, GivenAllowed DEF Booted
<1> QED BY <1>1 DEF Valid, Booted

-----------------------------------------------------------------------------
(* The file.                                                               *)

Known == held \cup HandWritten \cup {Missing}

\* Every knob has an allowed value and every file the server wrote is whole;
\* the file is on the disk whole, and it is the one the last rewrite that
\* counts left; the temporary file is what its stage says.
FileInv ==
    /\ at \in {"down", "idle", "writing", "written", "synced"}
    /\ Valid(live) /\ \A f \in held : Whole(f)
    /\ at # "down" => Text(live) \in held
    /\ at = "written" => tmp = [data |-> Text(live), synced |-> FALSE]
    /\ at = "synced" => tmp = [data |-> Text(live), synced |-> TRUE]
    /\ file = [data |-> saved, synced |-> TRUE]
    /\ saved \in Known /\ disk \in Known

LEMMA SetValid ==
    ASSUME NEW knobs, Valid(knobs), NEW k \in Knobs, NEW v \in Writable[k],
           Accept(k, v) # Refused
    PROVE  Valid([knobs EXCEPT ![k] = Accept(k, v)])
<1>1. v \in Written(k)
  BY SettingsAssumption
<1>2. Accept(k, v) \in Allowed(k)
  BY <1>1, SetterAllowed DEF Accept
<1> QED BY <1>2 DEF Valid

LEMMA FileInit == SInit => FileInv
<1> SUFFICES ASSUME SInit PROVE FileInv
  OBVIOUS
<1>1. at = "down" /\ live = Defaults /\ held = {}
  BY DEF SInit, NoProcess
<1>2. PICK f \in HandWritten \cup {Missing} :
         file = [data |-> f, synced |-> TRUE] /\ disk = f /\ saved = f
  BY DEF SInit
<1> QED BY <1>1, <1>2, DefaultsValid DEF FileInv, Known

LEMMA FileNext == FileInv /\ [SNext]_svars => FileInv'
<1> SUFFICES ASSUME FileInv, [SNext]_svars PROVE FileInv'
  OBVIOUS
<1> USE DEF FileInv
\* A step that leaves the server with other knobs, or none.
<1>0. ASSUME Valid(live'), held' = held \cup {Text(live')}
      PROVE  Valid(live)' /\ (\A f \in held : Whole(f))' /\ (Text(live) \in held)'
  <2>1. Text(live') \in held' /\ \A f \in held' : Whole(f)
    BY <1>0, TextWhole
  <2> QED BY <1>0, <2>1 DEF Valid, Whole, Text
<1>1. ASSUME Boot PROVE FileInv'
  <2>1. PICK start \in Starts : live' = Booted(file.data, start)
    BY <1>1 DEF Boot
  <2>2. Loads(file.data) /\ (Whole(file.data) \/ file.data \in HandWritten \cup {Missing})
    BY <1>1 DEF Boot, Known
  <2>3. Valid(live')
    BY <2>1, <2>2, BootedValid
  <2>4. /\ at' = "idle" /\ held' = held \cup {Text(live')}
        /\ file' = file /\ saved' = saved /\ disk' = disk
    BY <1>1 DEF Boot
  <2> QED BY <1>0, <2>3, <2>4 DEF Known
<1>2. ASSUME NEW k \in Knobs, NEW v \in Writable[k], ConfigSet(k, v) PROVE FileInv'
  <2>1. /\ live' = [live EXCEPT ![k] = Accept(k, v)] /\ Accept(k, v) # Refused
        /\ at' = "writing" /\ held' = held \cup {Text(live')}
        /\ file' = file /\ saved' = saved /\ disk' = disk
    BY <1>2 DEF ConfigSet
  <2>2. Valid(live')
    BY <2>1, SetValid
  <2> QED BY <1>0, <2>1, <2>2 DEF Known
<1>3. ASSUME ConfigRewrite \/ WriteTmp \/ SyncTmp \/ Rename \/ RewriteFails
      PROVE  FileInv'
  BY <1>3 DEF ConfigRewrite, WriteTmp, SyncTmp, Rename, RewriteFails, Known, NoFile
<1>4. ASSUME SlowCommand \/ SlowlogReset \/ Writeback PROVE FileInv'
  BY <1>4 DEF SlowCommand, SlowlogReset, Writeback, Known
<1>5. ASSUME Crash PROVE FileInv'
  BY DefaultsValid, <1>5 DEF Crash, ProcessGone, Known
<1>6. ASSUME PowerLoss PROVE FileInv'
  BY DefaultsValid, <1>6 DEF PowerLoss, ProcessGone, Known
<1>7. ASSUME BootRefused \/ UNCHANGED svars PROVE FileInv'
  BY <1>7 DEF BootRefused, svars, Known
<1> QED BY <1>1, <1>2, <1>3, <1>4, <1>5, <1>6, <1>7 DEF SNext

LEMMA FileInvAlways == SSpec => []FileInv
BY FileInit, FileNext, PTL DEF SSpec

\* The file is never torn and never a mixture, whatever fails and whenever
\* the process or the machine dies; and a file the server wrote itself loads
\* again exactly if its dir is more than blanks and no text has a bad setting
\* behind a line break.
THEOREM WholeFile == SSpec => []FileIsWhole
<1>1. FileInv => FileIsWhole
  BY WholeLoads DEF FileInv, Known, FileIsWhole
<1> QED BY <1>1, FileInvAlways, PTL

\* A line of a file that the server wrote, read back and shown again.
LEMMA ShownAgain ==
    ASSUME NEW knobs, Valid(knobs), NEW k \in Knobs, NEW v \in Printed(k),
           ApplyKv(k, v) # Refused, knobs[k] = ApplyKv(k, v)
    PROVE  Text(knobs)[k] = AsRead(k, v)
<1>1. CASE k \in TextKnobs
  BY <1>1, PrintedRead, TextWhole DEF AsRead, TextKnobs, Switches, Knobs
<1>2. CASE k \in {"maxclients", "slowlog-max-len"}
  BY <1>2, PrintedRead, TextWhole DEF AsRead, TextKnobs, Switches, Knobs
<1>3. CASE k \in Switches
  <2>1. v = "yes" \/ v = "no"
    BY <1>3 DEF Printed
  <2>2. knobs[k] = (v = "yes") /\ Text(knobs)[k] = IF knobs[k] THEN "yes" ELSE "no"
    BY <1>3, PrintedRead, TextWhole
  <2>3. AsRead(k, v) = v
    BY <1>3 DEF AsRead, TextKnobs, Switches
  <2> QED BY <2>1, <2>2, <2>3
<1> QED BY <1>1, <1>2, <1>3 DEF Knobs, TextKnobs, Switches

\* What a start makes of a file that the server wrote.
LEMMA BootReads ==
    ASSUME FileInv, FileInv', Boot, saved \in held
    PROVE  \E start \in Starts : \A k \in Knobs :
              IF Given(start, k) # Refused
              THEN live'[k] = Given(start, k)
              ELSE k \notin Overridden(saved) => Text(live')[k] = AsRead(k, saved[k])
<1>1. PICK start \in Starts : live' = Booted(saved, start)
  BY DEF Boot, FileInv
<1>2. Whole(saved) /\ saved # Missing /\ DOMAIN saved = Knobs /\ Loads(saved)
  BY WholeType DEF FileInv, Boot
<1>3. Valid(live')
  BY DEF FileInv, Valid
<1>4. ASSUME NEW k \in Knobs, Given(start, k) = Refused, k \notin Overridden(saved)
      PROVE  Text(live')[k] = AsRead(k, saved[k])
  <2>1. saved[k] \in Printed(k)
    BY <1>2 DEF Whole
  <2>2. ApplyKv(k, saved[k]) # Refused
    BY <1>2 DEF Loads, Taken
  <2>3. k \in DOMAIN Lines(saved) /\ Lines(saved)[k] = saved[k]
    BY <1>2, <1>4, OwnLine
  <2>4. live'[k] = ApplyKv(k, saved[k])
    BY <1>1, <1>2, <1>4, <2>3 DEF Booted, Loaded
  <2> QED BY <1>3, <2>1, <2>2, <2>4, ShownAgain
<1>5. \A k \in Knobs : Given(start, k) # Refused => live'[k] = Given(start, k)
  BY <1>1 DEF Booted
<1> QED BY <1>4, <1>5

\* What one step does for the settings: the action of KnobsSurvive.
KnobStep ==
    /\ asked = "rewrite" /\ at \notin {"down", "idle"} /\ at' = "idle" /\ reply' = "OK" =>
         file'.data = Text(live)
    /\ at = "down" /\ at' = "idle" /\ saved \in held =>
         \E start \in Starts : \A k \in Knobs :
            IF Given(start, k) # Refused
            THEN live'[k] = Given(start, k)
            ELSE k \notin Overridden(saved) => Text(live')[k] = AsRead(k, saved[k])

LEMMA KnobSteps ==
    ASSUME FileInv, FileInv', SNext
    PROVE  KnobStep
<1>1. ASSUME asked = "rewrite", at \notin {"down", "idle"}, at' = "idle", reply' = "OK"
      PROVE  file'.data = Text(live)
  <2>1. CASE Rename
    BY <2>1 DEF Rename, FileInv
  <2>2. CASE RewriteFails
    BY <1>1, <2>2 DEF RewriteFails, FailureReply
  <2> QED BY <1>1, <2>1, <2>2
          DEF SNext, Boot, BootRefused, ConfigSet, ConfigRewrite, WriteTmp, SyncTmp,
              SlowCommand, SlowlogReset, Crash, PowerLoss, ProcessGone, Writeback, svars
<1>2. ASSUME at = "down", at' = "idle", saved \in held
      PROVE  \E start \in Starts : \A k \in Knobs :
                IF Given(start, k) # Refused
                THEN live'[k] = Given(start, k)
                ELSE k \notin Overridden(saved) => Text(live')[k] = AsRead(k, saved[k])
  <2>1. Boot
    BY <1>2 DEF SNext, BootRefused, ConfigSet, ConfigRewrite, WriteTmp, SyncTmp, Rename,
                RewriteFails, SlowCommand, SlowlogReset, Crash, PowerLoss, ProcessGone,
                Writeback, svars
  <2> QED BY <1>2, <2>1, BootReads
<1> QED BY <1>1, <1>2 DEF KnobStep

\* CONFIG REWRITE answers OK only when the file shows the live settings, and
\* a start gives back what the last rewrite saved, over any number of crashes,
\* power losses and failed rewrites in between: a text as the reader finds it,
\* every other knob as it was.  Excepted are the knobs that flags and
\* environment give, protected-mode, which main gives a value in any case, and
\* those that a setting behind a line break in dir or requirepass overrides.
THEOREM KnobsComeBack == SSpec => KnobsSurvive
<1>1. FileInv /\ FileInv' /\ [SNext]_svars => [KnobStep]_svars
  BY KnobSteps
<1>2. SSpec => [][KnobStep]_svars
  BY <1>1, FileInvAlways, PTL DEF SSpec
<1> QED BY <1>2, PTL DEF KnobsSurvive, KnobStep

-----------------------------------------------------------------------------
(* The slow log.                                                           *)

LogType == [ring : [0..RingMax - 1 -> Int], head : 0..RingMax - 1, len : Nat, next_id : Nat]

\* In a ring of m slots the records from id s on lie before the head,
\* backwards and around the end.
InOrder(log, m, s) ==
    /\ log.len <= m
    /\ log.head < m \/ s > log.next_id
    /\ \A i \in 1..log.len :
          i <= log.next_id - s => log.ring[(log.head - i) % m] = log.next_id - i

Width == Slots(live["slowlog-max-len"])

LogInv ==
    /\ slowlog \in LogType /\ since \in Nat
    /\ at = "down" => slowlog = NewLog /\ since = 0
    /\ InOrder(slowlog, Width, since)

\* Places of the ring, without the modulus.
LEMMA Around ==
    ASSUME NEW m \in Nat \ {0}, NEW h \in 0..m - 1
    PROVE  /\ (h + 1) % m = IF h + 1 = m THEN 0 ELSE h + 1
           /\ \A i \in 1..m : (h - i) % m = IF i <= h THEN h - i ELSE h - i + m
OBVIOUS

LEMMA SlotsRange ==
    ASSUME NEW n \in 0..RingMax
    PROVE  /\ Slots(n) \in 1..RingMax
           /\ Slots(n) = IF n = 0 THEN RingMax ELSE n
BY SettingsAssumption DEF Slots

LEMMA WidthRange ==
    ASSUME Valid(live)
    PROVE  live["slowlog-max-len"] \in 0..RingMax /\ Width \in 1..RingMax
<1>1. live["slowlog-max-len"] \in 0..RingMax
  BY DEF Valid, Allowed, Knobs, Switches
<1> QED BY <1>1, SlotsRange DEF Width

LEMMA EmptyInOrder ==
    ASSUME NEW n \in Nat, NEW r \in [0..RingMax - 1 -> Int], NEW m \in 1..RingMax, NEW s
    PROVE  EmptyLog(n, r) \in LogType /\ InOrder(EmptyLog(n, r), m, s)
<1>1. 0 \in 0..RingMax - 1
  BY SettingsAssumption
<1> QED BY <1>1, SettingsAssumption DEF EmptyLog, LogType, InOrder

LEMMA NewLogFresh ==
    /\ NewLog \in LogType
    /\ \A m \in 1..RingMax : InOrder(NewLog, m, 0)
<1>1. [i \in 0..RingMax - 1 |-> Unwritten] \in [0..RingMax - 1 -> Int]
  BY DEF Unwritten
<1>2. RingMax \in 1..RingMax
  BY SettingsAssumption
<1> QED BY <1>1, <1>2, EmptyInOrder DEF NewLog

LEMMA PushType ==
    ASSUME NEW log \in LogType, NEW n \in 0..RingMax
    PROVE  Push(log, n) \in LogType
<1>1. /\ log.head \in 0..RingMax - 1 /\ log.len \in Nat /\ log.next_id \in Nat
      /\ log.ring \in [0..RingMax - 1 -> Int] /\ RingMax \in Nat
  BY SettingsAssumption DEF LogType
<1>2. CASE n = 0
  BY <1>2 DEF Push
<1>3. CASE n > 0
  <2>1. (log.head + 1) % n \in 0..RingMax - 1
    BY <1>1, <1>3
  <2>2. [log.ring EXCEPT ![log.head] = log.next_id] \in [0..RingMax - 1 -> Int]
    BY <1>1
  <2>3. (IF log.len < n THEN log.len + 1 ELSE log.len) \in Nat /\ log.next_id + 1 \in Nat
    BY <1>1
  <2> QED BY <1>3, <2>1, <2>2, <2>3 DEF Push, LogType
<1> QED BY <1>2, <1>3

\* A record pushed goes before the others; the first one after a cut, pushed
\* with the head outside, is not counted.
LEMMA PushInOrder ==
    ASSUME NEW log \in LogType, NEW m \in 1..RingMax, NEW s \in Nat, InOrder(log, m, s)
    PROVE  InOrder(Push(log, m), m, s)
<1> DEFINE h == log.head
           ring == [log.ring EXCEPT ![h] = log.next_id]
           n == Push(log, m)
           l == IF log.len < m THEN log.len + 1 ELSE log.len
<1>1. /\ h \in 0..RingMax - 1 /\ log.len \in Nat /\ log.next_id \in Nat
      /\ log.ring \in [0..RingMax - 1 -> Int] /\ RingMax \in Nat
      /\ m \in Nat \ {0} /\ m <= RingMax
  BY SettingsAssumption DEF LogType
<1>2. /\ n.ring = ring /\ n.head = (h + 1) % m /\ n.len = l
      /\ n.next_id = log.next_id + 1
  BY <1>1 DEF Push
<1>3. ring[h] = log.next_id /\ \A j \in 0..RingMax - 1 : j # h => ring[j] = log.ring[j]
  BY <1>1
<1>4. l \in 1..m /\ l <= log.len + 1
  BY <1>1 DEF InOrder
<1>5. n.head \in 0..m - 1
  <2>1. (h + 1) % m \in 0..m - 1
    BY <1>1
  <2> QED BY <1>2, <2>1
<1> HIDE DEF n, ring, h, l
<1>6. ASSUME NEW i \in 1..l, i <= log.next_id + 1 - s
      PROVE  ring[(n.head - i) % m] = log.next_id + 1 - i
  <2>0. m \in Nat \ {0}
    BY <1>1
  <2>1. i \in 1..m /\ s <= log.next_id
    BY <1>1, <1>4, <1>6
  <2>2. h \in 0..m - 1
    BY <1>1, <2>1 DEF InOrder, h
  <2>3. /\ n.head = (IF h + 1 = m THEN 0 ELSE h + 1)
        /\ (n.head - i) % m = IF i <= n.head THEN n.head - i ELSE n.head - i + m
    <3>1. (h + 1) % m = IF h + 1 = m THEN 0 ELSE h + 1
      BY <2>0, <2>2, Around
    <3>2. \A j \in 1..m : (n.head - j) % m = IF j <= n.head THEN n.head - j ELSE n.head - j + m
      BY <1>5, <2>0, Around
    <3> QED BY <1>2, <2>1, <3>1, <3>2
  <2>4. CASE i = 1
    <3>1. (n.head - i) % m = h
      BY <1>1, <2>2, <2>3, <2>4
    <3> QED BY <1>1, <1>3, <2>4, <3>1
  <2>5. CASE i > 1
    <3>1. i - 1 \in 1..log.len /\ i - 1 \in 1..m /\ i - 1 <= log.next_id - s
      BY <1>1, <1>4, <1>6, <2>1, <2>5
    <3>2. (h - (i - 1)) % m = IF i - 1 <= h THEN h - (i - 1) ELSE h - (i - 1) + m
      <4>1. \A j \in 1..m : (h - j) % m = IF j <= h THEN h - j ELSE h - j + m
        BY <2>0, <2>2, Around
      <4> QED BY <3>1, <4>1
    <3>3. (n.head - i) % m = (h - (i - 1)) % m
      BY <1>1, <2>1, <2>2, <2>3, <2>5, <3>2
    <3>4. (h - (i - 1)) % m \in 0..RingMax - 1 /\ (h - (i - 1)) % m # h
      BY <1>1, <2>1, <2>2, <2>5, <3>2
    <3>5. log.ring[(h - (i - 1)) % m] = log.next_id - (i - 1)
      BY <3>1 DEF InOrder, h
    <3>6. ring[(h - (i - 1)) % m] = log.ring[(h - (i - 1)) % m]
      BY <1>3, <3>4
    <3> QED BY <1>1, <3>3, <3>5, <3>6
  <2> QED BY <2>1, <2>4, <2>5
<1>7. \A i \in 1..n.len : i <= n.next_id - s => n.ring[(n.head - i) % m] = n.next_id - i
  <2>1. n.ring = ring /\ n.next_id = log.next_id + 1 /\ n.len = l
    BY <1>2
  <2> SUFFICES ASSUME NEW i \in 1..l, i <= n.next_id - s
               PROVE  n.ring[(n.head - i) % m] = n.next_id - i
    BY <2>1
  <2>2. i <= log.next_id + 1 - s /\ n.next_id - i = log.next_id + 1 - i
    BY <1>1, <2>1
  <2>3. ring[(n.head - i) % m] = log.next_id + 1 - i
    BY <1>6, <2>2, Zenon
  <2> QED BY <2>1, <2>2, <2>3, Zenon
<1>8. n.len <= m /\ n.head < m
  BY <1>1, <1>2, <1>4, <1>5
<1> QED BY <1>7, <1>8 DEF InOrder, n

\* A new length n keeps in order what lies between slot 0 and the head.
LEMMA CutInOrder ==
    ASSUME NEW log \in LogType, NEW m \in 1..RingMax, NEW s \in Nat, InOrder(log, m, s),
           NEW n \in 0..RingMax, NEW c \in Nat,
           log.head >= Slots(n) => c > log.next_id,
           log.head < Slots(n) => c >= s /\ c >= log.next_id - log.head
    PROVE  Trimmed(log, n) \in LogType /\ InOrder(Trimmed(log, n), Slots(n), c)
<1> DEFINE t == Trimmed(log, n)
           w == Slots(n)
<1>1. /\ log.head \in 0..RingMax - 1 /\ log.len \in Nat /\ log.next_id \in Nat
      /\ RingMax \in Nat /\ w \in 1..RingMax /\ (n # 0 => w = n)
  BY SettingsAssumption, SlotsRange DEF LogType
<1>2. t \in LogType
  BY <1>1 DEF Trimmed, LogType
<1>3. /\ t.head = log.head /\ t.ring = log.ring /\ t.next_id = log.next_id
      /\ t.len <= log.len /\ t.len <= n /\ t.len \in Nat
  BY <1>1 DEF Trimmed, LogType
<1> HIDE DEF t, w
<1>4. ASSUME NEW i \in 1..t.len, i <= log.next_id - c
      PROVE  log.ring[(log.head - i) % w] = log.next_id - i
  <2>1. log.head < w /\ i <= log.head /\ i <= log.next_id - s /\ i \in 1..log.len
    BY <1>1, <1>3, <1>4 DEF w
  <2>2. log.head \in 0..m - 1 /\ log.head \in 0..w - 1 /\ i \in 1..m /\ i \in 1..w
    BY <1>1, <2>1 DEF InOrder
  <2>3. (log.head - i) % m = log.head - i
    <3>1. m \in Nat \ {0}
      BY <1>1
    <3> QED BY <2>1, <2>2, <3>1, Around
  <2>4. (log.head - i) % w = log.head - i
    <3>1. w \in Nat \ {0}
      BY <1>1
    <3> QED BY <2>1, <2>2, <3>1, Around
  <2> QED BY <2>1, <2>3, <2>4 DEF InOrder
<1>5. t.len <= w /\ (t.head < w \/ c > t.next_id)
  BY <1>1, <1>3 DEF w
<1> QED BY <1>2, <1>3, <1>4, <1>5 DEF InOrder, t, w

LEMMA LogInit == SInit => LogInv
<1> SUFFICES ASSUME SInit PROVE LogInv
  OBVIOUS
<1>1. slowlog = NewLog /\ live = Defaults /\ since = 0
  BY DEF SInit, NoProcess
<1>2. Width \in 1..RingMax
  BY <1>1, DefaultsValid, WidthRange
<1> QED BY <1>1, <1>2, NewLogFresh DEF LogInv

LEMMA LogNext == FileInv /\ FileInv' /\ LogInv /\ [SNext]_svars => LogInv'
<1> SUFFICES ASSUME FileInv, FileInv', LogInv, [SNext]_svars PROVE LogInv'
  OBVIOUS
<1> DEFINE m == Width
           m2 == Slots(live'["slowlog-max-len"])
<1>1. m \in 1..RingMax /\ m2 \in 1..RingMax
  <2>1. Valid(live) /\ Valid(live')
    BY DEF FileInv, Valid
  <2>2. live'["slowlog-max-len"] \in 0..RingMax
    BY <2>1 DEF Valid, Allowed, Knobs, Switches
  <2> QED BY <2>1, <2>2, WidthRange, SlotsRange
<1>2. /\ slowlog \in LogType /\ since \in Nat
      /\ at = "down" => slowlog = NewLog /\ since = 0
      /\ InOrder(slowlog, m, since)
  BY DEF LogInv
<1>3. ASSUME slowlog' \in LogType, since' \in Nat,
             at' = "down" => slowlog' = NewLog /\ since' = 0,
             InOrder(slowlog', m2, since')
      PROVE  LogInv'
  <2>1. InOrder(slowlog, Width, since)'
    BY <1>3 DEF InOrder, Width, Slots
  <2> QED BY <1>3, <2>1 DEF LogInv, NewLog, EmptyLog
<1>4. ASSUME live' = live PROVE m2 = m
  BY <1>4 DEF Width
<1> HIDE DEF m, m2
<1>5. ASSUME slowlog' = NewLog, since' = 0 PROVE LogInv'
  BY <1>1, <1>3, <1>5, NewLogFresh
<1>6. ASSUME slowlog' = slowlog, live' = live, since' = since, at' # "down" \/ at' = at
      PROVE  LogInv'
  BY <1>2, <1>3, <1>4, <1>6
<1>7. ASSUME Boot PROVE LogInv'
  BY <1>2, <1>5, <1>7 DEF Boot
<1>8. ASSUME NEW k \in Knobs, NEW v \in Writable[k], ConfigSet(k, v) PROVE LogInv'
  <2>1. live' = [live EXCEPT ![k] = Accept(k, v)] /\ at' = "writing"
    BY <1>8 DEF ConfigSet
  <2>2. live = [j \in Knobs |-> live[j]]
    BY DEF FileInv, Valid
  <2>3. CASE k # "slowlog-max-len"
    <3>1. slowlog' = slowlog /\ since' = since
      BY <1>8, <2>3 DEF ConfigSet
    <3>2. live'["slowlog-max-len"] = live["slowlog-max-len"]
      BY <2>1, <2>2, <2>3
    <3>3. m2 = m
      BY <3>2 DEF m, m2, Width
    <3> QED BY <1>2, <1>3, <2>1, <3>1, <3>3
  <2>4. CASE k = "slowlog-max-len"
    <3> DEFINE n == Accept(k, v)
    <3>1. live' = [live EXCEPT ![k] = n] /\ n # Refused
      BY <1>8 DEF ConfigSet
    <3>2. n \in 0..RingMax
      <4>1. n \in Allowed(k)
        BY <3>1, SettingsAssumption, SetterAllowed DEF Accept
      <4> QED BY <2>4, <4>1 DEF Allowed, Switches
    <3>3. /\ slowlog' = Trimmed(slowlog, n)
          /\ since' = IF live' = live THEN since ELSE SinceCut(n)
      BY <1>8, <2>4 DEF ConfigSet
    <3> HIDE DEF n
    <3>4. live'["slowlog-max-len"] = n
      BY <2>2, <2>4, <3>1 DEF Knobs
    <3>5. m2 = Slots(n)
      BY <3>4 DEF m2
    <3>6. slowlog.head \in Nat /\ slowlog.next_id \in Nat /\ slowlog.len \in Nat
      BY <1>2, SettingsAssumption DEF LogType
    <3>7. CASE live' = live
      <4>1. m2 = m /\ since' = since
        BY <1>4, <3>3, <3>7
      <4>2. slowlog' \in LogType /\ InOrder(slowlog', m, since)
        <5>1. CASE n = 0
          <6>1. slowlog' = [slowlog EXCEPT !.len = 0]
            BY <1>2, <3>3, <3>6, <5>1 DEF Trimmed, LogType
          <6>2. slowlog' \in LogType
            BY <1>2, <3>6, <6>1 DEF LogType
          <6>3. /\ slowlog'.len = 0 /\ slowlog'.head = slowlog.head
                /\ slowlog'.next_id = slowlog.next_id
            BY <1>2, <6>1 DEF LogType
          <6>4. \A i \in 1..slowlog'.len : FALSE
            BY <6>3
          <6>5. slowlog'.len <= m
            BY <1>1, <6>3, SettingsAssumption
          <6> QED BY <1>2, <6>2, <6>3, <6>4, <6>5 DEF InOrder
        <5>2. CASE n # 0
          <6>1. m = n
            BY <3>2, <3>5, <4>1, <5>2, SlotsRange
          <6>2. slowlog' = slowlog
            <7>1. slowlog.len <= n
              BY <1>2, <6>1 DEF InOrder
            <7>2. ~ (slowlog.len > n)
              BY <3>2, <3>6, <7>1, SettingsAssumption
            <7> QED BY <1>2, <3>3, <7>2 DEF Trimmed, LogType
          <6> QED BY <1>2, <6>2
        <5> QED BY <5>1, <5>2
      <4> QED BY <1>2, <1>3, <2>1, <4>1, <4>2
    <3>8. CASE live' # live
      <4>1. since' = SinceCut(n)
        BY <3>3, <3>8
      <4>2. /\ since' \in Nat
            /\ slowlog.head >= m2 => since' > slowlog.next_id
            /\ slowlog.head < m2 => since' >= since /\ since' >= slowlog.next_id - slowlog.head
        <5>1. m2 \in Nat /\ since \in Nat
          BY <1>1, <1>2
        <5> QED BY <3>5, <3>6, <4>1, <5>1 DEF SinceCut
      <4>3. slowlog' \in LogType /\ InOrder(slowlog', m2, since')
        BY <1>1, <1>2, <3>2, <3>3, <3>5, <4>2, CutInOrder
      <4> QED BY <1>3, <2>1, <4>2, <4>3
    <3> QED BY <3>7, <3>8
  <2> QED BY <2>3, <2>4
<1>9. ASSUME ConfigRewrite \/ WriteTmp \/ SyncTmp \/ Rename \/ RewriteFails \/ Writeback
      PROVE  LogInv'
  BY <1>6, <1>9 DEF ConfigRewrite, WriteTmp, SyncTmp, Rename, RewriteFails, Writeback
<1>10. ASSUME SlowCommand PROVE LogInv'
  <2> DEFINE n == live["slowlog-max-len"]
  <2>1. /\ slowlog' = Push(slowlog, n) /\ live' = live /\ since' = since
        /\ at' = "idle"
    BY <1>10 DEF SlowCommand
  <2>2. n \in 0..RingMax /\ m = Slots(n)
    BY WidthRange DEF FileInv, m, Width
  <2> HIDE DEF n
  <2>3. slowlog' \in LogType
    BY <1>2, <2>1, <2>2, PushType
  <2>4. InOrder(slowlog', m, since)
    <3>1. CASE n = 0
      BY <1>2, <2>1, <3>1 DEF Push
    <3>2. CASE n # 0
      <4>1. m = n
        BY <2>2, <3>2, SlotsRange
      <4> QED BY <1>1, <1>2, <2>1, <4>1, PushInOrder
    <3> QED BY <3>1, <3>2
  <2> QED BY <1>2, <1>3, <1>4, <2>1, <2>3, <2>4
<1>11. ASSUME SlowlogReset PROVE LogInv'
  <2>1. /\ slowlog' = EmptyLog(slowlog.next_id, slowlog.ring) /\ at' = "idle"
        /\ slowlog.next_id \in Nat /\ slowlog.ring \in [0..RingMax - 1 -> Int]
        /\ since' = slowlog.next_id
    BY <1>2, <1>11 DEF SlowlogReset, LogType
  <2> QED BY <1>1, <1>3, <2>1, EmptyInOrder
<1>12. ASSUME Crash \/ PowerLoss PROVE LogInv'
  BY <1>5, <1>12 DEF Crash, PowerLoss, ProcessGone
<1>13. ASSUME BootRefused \/ UNCHANGED svars PROVE LogInv'
  BY <1>6, <1>13 DEF BootRefused, svars
<1> QED BY <1>7, <1>8, <1>9, <1>10, <1>11, <1>12, <1>13 DEF SNext

\* SLOWLOG GET lists the last commands recorded, newest first and without a
\* gap, around the end of the ring: all it lists while the length of the ring
\* stays, and after every change of it those that lay between slot 0 and the
\* head and all that follow, less one if the head lay outside the new length.
\* And a push never writes outside the array.
THEOREM SlowlogInOrder == SSpec => []SlowlogNewestFirst
<1>1. LogInv => SlowlogNewestFirst
  <2> SUFFICES ASSUME LogInv PROVE SlowlogNewestFirst
    OBVIOUS
  <2>1. slowlog.head \in 0..RingMax - 1 /\ slowlog.ring \in [0..RingMax - 1 -> Int]
    BY DEF LogInv, LogType
  <2>2. ASSUME NEW i \in 1..slowlog.len, i <= slowlog.next_id - since
        PROVE  SlowlogGet(slowlog, live)[i] = slowlog.next_id - i
    <3>1. SlowlogGet(slowlog, live)[i] = slowlog.ring[(slowlog.head - 1 - (i - 1)) % Width]
      BY DEF SlowlogGet, EntryAt, Width
    <3>2. slowlog.head - 1 - (i - 1) = slowlog.head - i
      <4>1. slowlog.head \in Int /\ i \in Int
        BY <2>1
      <4> QED BY <4>1
    <3> QED BY <2>2, <3>1, <3>2 DEF LogInv, InOrder
  <2> QED BY <2>1, <2>2 DEF SlowlogNewestFirst
<1> QED BY <1>1, LogInit, LogNext, FileInvAlways, PTL DEF SSpec

-----------------------------------------------------------------------------
(***************************************************************************)
(* Replication.                                                            *)
(***************************************************************************)

-----------------------------------------------------------------------------
(* Dictionaries, and commands that a stream may hold.                      *)

Proper(d) ==
    /\ d \in [Keys -> Entries]
    /\ \A k \in Keys : /\ d[k].ty = "none" <=> d[k].v = <<>>
                       /\ d[k].ty = "none" => d[k] = None

Dicts == {d \in [Keys -> Entries] : Proper(d)}

Sendable ==
    {c \in Commands : /\ c.op \in {"set", "setnx", "rpush"} => c.vals # <<>>
                      /\ c.key \in Overwritten =>
                            c.op \in {"set", "expire", "del", "flushdb"}}

LEMMA NoneEntry == None \in Entries
BY DEF None, Entries

LEMMA EmptyDict == Empty \in Dicts
BY NoneEntry DEF Empty, Dicts, Proper, None

LEMMA FoundEntry ==
    ASSUME NEW e \in Entries, NEW t
    PROVE  Found(e, t) \in Entries
BY NoneEntry DEF Found

LEMMA DeadlineNat ==
    ASSUME NEW c \in Commands, NEW t \in Nat
    PROVE  Deadline(c, t) \in Nat /\ (Deadline(c, t) = 0 \/ Deadline(c, t) > t)
           /\ (c.ttl > 0 <=> Deadline(c, t) # 0)
<1>1. c.ttl \in Nat /\ Second \in Nat \ {0}
  BY ReplAssumption DEF Commands
<1>2. c.ttl > 0 => c.ttl * Second \in Nat /\ c.ttl * Second > 0
  BY <1>1
<1> QED BY <1>1, <1>2 DEF Deadline

\* What Meets leaves, for each command.
SetTo(c, t) == [ty |-> "string", v |-> c.vals, at |-> Deadline(c, t)]

LEMMA MeetsSet ==
    ASSUME NEW e, NEW c, NEW t, c.op = "set"
    PROVE  Meets(e, c, t).entry = SetTo(c, t) /\ Meets(e, c, t).sent
BY DEF Meets, Set, Outcome, SetTo

LEMMA MeetsSetNx ==
    ASSUME NEW e, NEW c, NEW t, c.op = "setnx", NEW f, f = Found(e, t)
    PROVE  IF f.ty = "none" THEN Meets(e, c, t).entry = SetTo(c, t) /\ Meets(e, c, t).sent
           ELSE Meets(e, c, t).entry = f /\ ~ Meets(e, c, t).sent
BY DEF Meets, SetNx, Set, Outcome, SetTo

Longer(f, c) == [ty |-> "list", v |-> f.v \o c.vals, at |-> f.at]

LEMMA MeetsRPush ==
    ASSUME NEW e, NEW c, NEW t, c.op = "rpush", NEW f, f = Found(e, t)
    PROVE  IF f.ty = "string" THEN Meets(e, c, t).entry = f /\ ~ Meets(e, c, t).sent
           ELSE Meets(e, c, t).entry = Longer(f, c) /\ Meets(e, c, t).sent
BY DEF Meets, RPush, Outcome, Longer

Shorter(f) == IF Len(f.v) = 1 THEN None
              ELSE [ty |-> "list", v |-> Tail(f.v), at |-> f.at]

LEMMA MeetsLPop ==
    ASSUME NEW e, NEW c, NEW t, c.op = "lpop", NEW f, f = Found(e, t)
    PROVE  IF f.ty = "list" THEN Meets(e, c, t).entry = Shorter(f) /\ Meets(e, c, t).sent
           ELSE Meets(e, c, t).entry = f /\ ~ Meets(e, c, t).sent
BY DEF Meets, LPop, Outcome, Shorter

LEMMA MeetsDel ==
    ASSUME NEW e, NEW c, NEW t, c.op = "del"
    PROVE  /\ Meets(e, c, t).entry = None
           /\ Meets(e, c, t).sent <=> Found(e, t).ty # "none"
BY DEF Meets, Del, Outcome

LEMMA MeetsExpire ==
    ASSUME NEW e, NEW c, NEW t, c.op = "expire", NEW f, f = Found(e, t)
    PROVE  IF f.ty = "none" THEN Meets(e, c, t).entry = f /\ ~ Meets(e, c, t).sent
           ELSE /\ Meets(e, c, t).entry = [ty |-> f.ty, v |-> f.v, at |-> Deadline(c, t)]
                /\ Meets(e, c, t).sent
BY DEF Meets, Expire, Outcome

LEMMA TailShorter ==
    ASSUME NEW S, NEW s \in Seq(S), s # <<>>
    PROVE  Tail(s) \in Seq(S) /\ Len(Tail(s)) = Len(s) - 1 /\ (Len(s) # 1 => Tail(s) # <<>>)
<1>1. Tail(s) \in Seq(S) /\ Len(Tail(s)) = Len(s) - 1
  BY HeadTailProperties
<1>2. Len(s) \in Nat /\ Len(<<>>) = 0
  BY LenProperties, EmptySeq
<1>3. PICK z : z = Tail(s)
  OBVIOUS
<1>4. z \in Seq(S) /\ Len(z) = Len(s) - 1
  BY <1>1, <1>3
<1>5. Len(s) # 1 => z # <<>>
  BY <1>2, <1>4
<1> QED BY <1>1, <1>3, <1>5, Zenon

LEMMA MeetsTyped ==
    ASSUME NEW e \in Entries, e.ty = "none" => e = None, e.ty = "none" <=> e.v = <<>>,
           NEW c \in Sendable, c.op # "flushdb", NEW t \in Nat
    PROVE  LET o == Meets(e, c, t)
           IN  /\ o.entry \in Entries
               /\ o.entry.ty = "none" => o.entry = None
               /\ o.entry.ty = "none" <=> o.entry.v = <<>>
               /\ c.key \in Overwritten /\ e.ty # "list" => o.entry.ty # "list"
<1> DEFINE f == Found(e, t)
           o == Meets(e, c, t)
           Good(x) == /\ x \in Entries
                      /\ x.ty = "none" => x = None
                      /\ x.ty = "none" <=> x.v = <<>>
<1>1. Good(None) /\ None.ty # "list"
  BY NoneEntry DEF None
<1>2. Good(f) /\ (e.ty # "list" => f.ty # "list")
  BY <1>1 DEF Found
<1>3. /\ c.op \in Ops /\ c.vals \in Seq(Vals) /\ Deadline(c, t) \in Nat
      /\ c.op \in {"set", "setnx", "rpush"} => c.vals # <<>>
      /\ c.key \in Overwritten => c.op \in {"set", "expire", "del", "flushdb"}
  BY DeadlineNat DEF Sendable, Commands
<1> DEFINE s == SetTo(c, t)
<1>4. c.op \in {"set", "setnx"} => Good(s) /\ s.ty # "list"
  BY <1>3 DEF Entries, SetTo
<1>4a. f = Found(e, t) /\ o = Meets(e, c, t)
  OBVIOUS
<1> HIDE DEF f, o, s
<1>5. CASE c.op = "set"
  <2>1. o.entry = s
    BY <1>4a, <1>5, MeetsSet DEF s
  <2> QED BY <1>4, <1>5, <2>1 DEF o
<1>6. CASE c.op = "setnx"
  <2>1. o.entry \in {s, f} /\ c.key \notin Overwritten
    BY <1>3, <1>4a, <1>6, MeetsSetNx DEF s
  <2> QED BY <1>2, <1>4, <1>6, <2>1 DEF o
<1>7. CASE c.op = "rpush"
  <2> DEFINE y == Longer(f, c)
  <2>1. o.entry \in {y, f} /\ c.key \notin Overwritten
    BY <1>3, <1>4a, <1>7, MeetsRPush
  <2>2. f.v \in Seq(Vals) /\ f.at \in Nat /\ c.vals \in Seq(Vals) /\ c.vals # <<>>
    BY <1>2, <1>3, <1>7 DEF Entries
  <2>3. f.v \o c.vals \in Seq(Vals) /\ f.v \o c.vals # <<>>
    BY <2>2
  <2>4. Good(y)
    BY <2>2, <2>3 DEF Entries, Longer
  <2> HIDE DEF y
  <2> QED BY <1>2, <2>1, <2>4 DEF o
<1>8. CASE c.op = "lpop"
  <2>1. c.key \notin Overwritten
    BY <1>3, <1>8
  <2>2. o.entry = f \/ (o.entry = Shorter(f) /\ f.ty = "list")
    BY <1>4a, <1>8, MeetsLPop
  <2>3. ASSUME f.ty = "list", Len(f.v) # 1 PROVE Good(Shorter(f))
    <3>1. f.v \in Seq(Vals) /\ f.at \in Nat /\ f.v # <<>>
      BY <1>2, <2>3 DEF Entries
    <3>2. Tail(f.v) \in Seq(Vals) /\ Tail(f.v) # <<>>
      BY <2>3, <3>1, TailShorter
    <3> QED BY <2>3, <3>1, <3>2 DEF Entries, Shorter
  <2>4. Len(f.v) = 1 => Shorter(f) = None
    BY DEF Shorter
  <2> QED BY <1>1, <1>2, <2>1, <2>2, <2>3, <2>4 DEF o
<1>9. CASE c.op = "expire"
  <2> DEFINE y == [ty |-> f.ty, v |-> f.v, at |-> Deadline(c, t)]
  <2>1. o.entry = f \/ (o.entry = y /\ f.ty # "none")
    BY <1>4a, <1>9, MeetsExpire
  <2>2. f.ty # "none" => Good(y) /\ y.ty = f.ty
    BY <1>2, <1>3 DEF Entries
  <2> HIDE DEF y
  <2> QED BY <1>2, <2>1, <2>2 DEF o
<1>10. CASE c.op = "del"
  <2>1. o.entry = None
    BY <1>4a, <1>10, MeetsDel
  <2> QED BY <1>1, <2>1 DEF o
<1> QED BY <1>3, <1>5, <1>6, <1>7, <1>8, <1>9, <1>10 DEF Ops

\* A command leaves a proper dictionary.
LEMMA ExecTyped ==
    ASSUME NEW d \in Dicts, NEW c \in Sendable, NEW t \in Nat
    PROVE  /\ Exec(d, c, t).db \in Dicts
           /\ Exec(d, c, t).sent \in BOOLEAN
           /\ (\A k \in Overwritten : d[k].ty # "list") =>
                  \A k \in Overwritten : Exec(d, c, t).db[k].ty # "list"
<1>1. CASE c.op = "flushdb"
  <2>1. Exec(d, c, t).db = Empty /\ Exec(d, c, t).sent = TRUE
    BY <1>1 DEF Exec
  <2>2. \A k \in Overwritten : Empty[k].ty # "list"
    BY DEF Empty, None, Overwritten
  <2> QED BY <2>1, <2>2, EmptyDict
<1>2. CASE c.op # "flushdb"
  <2> DEFINE k == c.key
             x == Meets(d[k], c, t).entry
  <2>1. Exec(d, c, t).db = [d EXCEPT ![k] = x] /\ Exec(d, c, t).sent = Meets(d[k], c, t).sent
    BY <1>2 DEF Exec
  <2>2. k \in Keys /\ d \in [Keys -> Entries] /\ Proper(d)
    BY DEF Sendable, Commands, Dicts
  <2>3. /\ x \in Entries
        /\ x.ty = "none" => x = None
        /\ x.ty = "none" <=> x.v = <<>>
        /\ k \in Overwritten /\ d[k].ty # "list" => x.ty # "list"
    BY <1>2, <2>2, MeetsTyped DEF Proper
  <2>4. Meets(d[k], c, t).sent \in BOOLEAN
    BY DEF Meets, Set, SetNx, RPush, LPop, Del, Expire, Outcome
  <2> HIDE DEF k, x
  <2>5. [d EXCEPT ![k] = x] \in Dicts
    BY <2>2, <2>3 DEF Dicts, Proper
  <2>6. Overwritten \subseteq Keys
    BY DEF Overwritten
  <2>7. (\A j \in Overwritten : d[j].ty # "list") =>
            \A j \in Overwritten : [d EXCEPT ![k] = x][j].ty # "list"
    BY <2>2, <2>3, <2>6
  <2> QED BY <2>1, <2>4, <2>5, <2>7 DEF k
<1> QED BY <1>1, <1>2

-----------------------------------------------------------------------------
(* Runs of a stream: each command is executed at some time from t on.      *)

Run(d, s, t, g) ==
    /\ g \in [0..Len(s) -> Dicts]
    /\ g[0] = d
    /\ \A i \in 1..Len(s) : \E u \in Nat : u >= t /\ g[i] = Exec(g[i - 1], s[i], u).db

\* The dictionaries that stream s can make of d.
Reach(d, s, t) == {x \in Dicts : \E g : Run(d, s, t, g) /\ g[Len(s)] = x}

LEMMA ReachNothing ==
    ASSUME NEW d \in Dicts, NEW t, NEW x \in Reach(d, <<>>, t)
    PROVE  x = d
<1>1. PICK g : Run(d, <<>>, t, g) /\ g[Len(<<>>)] = x
  BY DEF Reach
<1>2. Len(<<>>) = 0
  OBVIOUS
<1> QED BY <1>1, <1>2 DEF Run

LEMMA ReachMember ==
    ASSUME NEW d, NEW s, NEW t, NEW g, Run(d, s, t, g), NEW x, x = g[Len(s)], Len(s) \in Nat
    PROVE  x \in Reach(d, s, t)
<1>1. g \in [0..Len(s) -> Dicts] /\ Len(s) \in 0..Len(s)
  BY DEF Run
<1>2. x \in Dicts
  BY <1>1
<1> QED BY <1>2 DEF Reach

LEMMA ReachOne ==
    ASSUME NEW d, NEW c, NEW t, NEW x \in Reach(d, <<c>>, t)
    PROVE  \E u \in Nat : u >= t /\ x = Exec(d, c, u).db
<1>1. PICK g : Run(d, <<c>>, t, g) /\ g[Len(<<c>>)] = x
  BY DEF Reach
<1>2. Len(<<c>>) = 1 /\ <<c>>[1] = c /\ 1 \in 1..1 /\ 1 - 1 = 0
  OBVIOUS
<1>3. \E u \in Nat : u >= t /\ g[1] = Exec(g[1 - 1], <<c>>[1], u).db
  BY <1>1, <1>2 DEF Run
<1> QED BY <1>1, <1>2, <1>3 DEF Run

\* Later runs are runs.
LEMMA ReachLater ==
    ASSUME NEW d, NEW s, NEW t \in Nat, NEW w \in Nat, t <= w
    PROVE  Reach(d, s, w) \subseteq Reach(d, s, t)
<1>1. ASSUME NEW g, Run(d, s, w, g) PROVE Run(d, s, t, g)
  <2>1. \A u \in Nat : u >= w => u >= t
    OBVIOUS
  <2> QED BY <1>1, <2>1 DEF Run
<1> QED BY <1>1 DEF Reach

\* A run of two streams is a run of the one, then of the other.
LEMMA ReachSplit ==
    ASSUME NEW S, NEW d \in Dicts, NEW s \in Seq(S), NEW w \in Seq(S), NEW t,
           NEW x \in Reach(d, s \o w, t)
    PROVE  \E y \in Reach(d, s, t) : x \in Reach(y, w, t)
<1>1. PICK g : Run(d, s \o w, t, g) /\ g[Len(s \o w)] = x
  BY DEF Reach
<1> DEFINE a == Len(s)
           b == Len(w)
           z == s \o w
<1>2. /\ a \in Nat /\ b \in Nat /\ Len(z) = a + b
      /\ \A i \in 1..a : z[i] = s[i]
      /\ \A i \in 1..b : z[a + i] = w[i]
  BY ConcatProperties, LenProperties
<1> HIDE DEF a, b, z
<1>3. /\ g \in [0..(a + b) -> Dicts] /\ g[0] = d /\ g[a + b] = x
      /\ \A i \in 1..(a + b) : \E u \in Nat : u >= t /\ g[i] = Exec(g[i - 1], z[i], u).db
  BY <1>1, <1>2 DEF Run, z
<1> DEFINE p == [i \in 0..a |-> g[i]]
           q == [i \in 0..b |-> g[a + i]]
<1>4. Run(d, s, t, p)
  <2>1. p \in [0..a -> Dicts] /\ p[0] = d
    BY <1>2, <1>3
  <2>2. ASSUME NEW i \in 1..a
        PROVE  \E u \in Nat : u >= t /\ p[i] = Exec(p[i - 1], s[i], u).db
    <3>1. i \in 1..(a + b) /\ i \in 0..a /\ i - 1 \in 0..a /\ z[i] = s[i]
      BY <1>2
    <3>2. p[i] = g[i] /\ p[i - 1] = g[i - 1]
      BY <3>1
    <3> HIDE DEF p
    <3> QED BY <1>3, <3>1, <3>2
  <2> HIDE DEF p
  <2> QED BY <2>1, <2>2 DEF Run, a
<1>5. Run(p[a], w, t, q)
  <2>1. q \in [0..b -> Dicts] /\ q[0] = p[a]
    BY <1>2, <1>3
  <2>2. ASSUME NEW i \in 1..b
        PROVE  \E u \in Nat : u >= t /\ q[i] = Exec(q[i - 1], w[i], u).db
    <3>1. /\ a + i \in 1..(a + b) /\ i \in 0..b /\ i - 1 \in 0..b /\ z[a + i] = w[i]
          /\ a + (i - 1) = (a + i) - 1
      BY <1>2
    <3>2. q[i] = g[a + i] /\ q[i - 1] = g[(a + i) - 1]
      BY <3>1
    <3> HIDE DEF q
    <3> QED BY <1>3, <3>1, <3>2
  <2> HIDE DEF q, p
  <2> QED BY <2>1, <2>2 DEF Run, b
<1>6. p[a] \in Dicts /\ q[b] = x
  BY <1>2, <1>3
<1> HIDE DEF p, q
<1>7. p[a] \in Reach(d, s, t)
  BY <1>2, <1>4, ReachMember DEF a
<1>8. x \in Reach(p[a], w, t)
  BY <1>2, <1>5, <1>6, ReachMember DEF b
<1> QED BY <1>7, <1>8

\* What is left after the first command.
LEMMA ReachAfter ==
    ASSUME NEW d \in Dicts, NEW s \in Seq(Sendable), s # <<>>, NEW t,
           NEW u \in Nat, u >= t, Exec(d, Head(s), u).db \in Dicts
    PROVE  Reach(Exec(d, Head(s), u).db, Tail(s), t) \subseteq Reach(d, s, t)
<1>0. PICK y \in Dicts : y = Exec(d, Head(s), u).db
  OBVIOUS
<1> SUFFICES Reach(y, Tail(s), t) \subseteq Reach(d, s, t)
  BY <1>0
<1> DEFINE n == Len(s)
           w == Tail(s)
<1>1. /\ n \in Nat \ {0} /\ Len(w) = n - 1 /\ Head(s) = s[1]
      /\ \A i \in 1..(n - 1) : w[i] = s[i + 1]
  BY HeadTailProperties, LenProperties, EmptySeq
<1>2. SUFFICES ASSUME NEW x \in Reach(y, w, t) PROVE x \in Reach(d, s, t)
  OBVIOUS
<1>3. PICK g : Run(y, w, t, g) /\ g[Len(w)] = x
  BY <1>2 DEF Reach
<1> HIDE DEF n, w
<1>4. /\ g \in [0..(n - 1) -> Dicts] /\ g[0] = y /\ g[n - 1] = x
      /\ \A i \in 1..(n - 1) : \E v \in Nat : v >= t /\ g[i] = Exec(g[i - 1], w[i], v).db
  BY <1>1, <1>3 DEF Run
<1> DEFINE h == [i \in 0..n |-> IF i = 0 THEN d ELSE g[i - 1]]
<1>5. h \in [0..n -> Dicts] /\ h[0] = d /\ h[n] = x
  BY <1>1, <1>4
<1>6. ASSUME NEW i \in 1..n
      PROVE  \E v \in Nat : v >= t /\ h[i] = Exec(h[i - 1], s[i], v).db
  <2>1. CASE i = 1
    <3>1. h[1] = y /\ h[1 - 1] = d
      BY <1>1, <1>4
    <3> HIDE DEF h
    <3> QED BY <1>0, <1>1, <2>1, <3>1
  <2>2. CASE i # 1
    <3>1. /\ i - 1 \in 1..(n - 1) /\ i \in 0..n /\ i - 1 \in 0..n /\ i # 0 /\ i - 1 # 0
          /\ (i - 1) + 1 = i
      BY <1>1, <2>2
    <3>2. h[i] = g[i - 1] /\ h[i - 1] = g[(i - 1) - 1] /\ w[i - 1] = s[i]
      BY <1>1, <3>1
    <3> HIDE DEF h
    <3> QED BY <1>4, <3>1, <3>2
  <2> QED BY <2>1, <2>2
<1> HIDE DEF h
<1>7. Run(d, s, t, h)
  BY <1>5, <1>6 DEF Run, n
<1> QED BY <1>1, <1>5, <1>7, ReachMember DEF n

-----------------------------------------------------------------------------
(* What entry f of a replica is to entry e of its master.                  *)

StandsAt(f, e, t) ==
    IF e.ty # "none" /\ ~ Due(e, t)
    THEN f.ty = e.ty /\ f.v = e.v /\ (f.at = 0 <=> e.at = 0) /\ f.at >= e.at
    ELSE f.ty = "none" \/ f.at # 0

LEMMA StandsForAt ==
    ASSUME NEW f, NEW e
    PROVE  StandsFor(f, e) <=> StandsAt(f, e, now)
BY DEF StandsFor, StandsAt

\* What can be read on the master can be read on the replica.
Covers(f, e, t) == e.ty # "none" /\ ~ Due(e, t) => StandsAt(f, e, t)

\* Without a deadline, and unless one has passed, the two are the same.
Exact(f, e, gone, t) == StandsAt(f, e, t) /\ (e.at = 0 /\ ~ gone => f = e)

ProperEntry(e) == /\ e \in Entries
                  /\ e.ty = "none" => e = None
                  /\ e.ty = "none" <=> e.v = <<>>

LEMMA ProperDict ==
    ASSUME NEW d \in Dicts, NEW k \in Keys
    PROVE  ProperEntry(d[k])
BY DEF Dicts, Proper, ProperEntry

LEMMA EntryFields ==
    ASSUME NEW e \in Entries
    PROVE  e.at \in Nat /\ e.v \in Seq(Vals) /\ e.ty \in {"none", "string", "list"}
BY DEF Entries

LEMMA SameEntry ==
    ASSUME NEW e \in Entries, NEW f, f = e, e.at = 0, NEW t, NEW gone
    PROVE  Exact(f, e, gone, t)
BY EntryFields DEF Exact, StandsAt, Due

\* The later a command is executed, the later its deadline.
LEMMA DeadlineLater ==
    ASSUME NEW c \in Commands, NEW t \in Nat, NEW u \in Nat, u >= t
    PROVE  /\ Deadline(c, t) \in Nat /\ Deadline(c, u) \in Nat
           /\ Deadline(c, u) >= Deadline(c, t)
           /\ Deadline(c, u) = 0 <=> Deadline(c, t) = 0
           /\ Deadline(c, t) = 0 => Deadline(c, u) = Deadline(c, t)
           /\ Deadline(c, t) = 0 \/ Deadline(c, t) > t
<1>1. c.ttl \in Nat /\ Second \in Nat \ {0}
  BY ReplAssumption DEF Commands
<1>2. PICK w : w = c.ttl * Second
  OBVIOUS
<1>3. c.ttl > 0 => w \in Nat /\ w > 0
  BY <1>1, <1>2
<1> QED BY <1>1, <1>2, <1>3 DEF Deadline

LEMMA SetStands ==
    ASSUME NEW c \in Sendable, c.op \in {"set", "setnx"}, NEW t \in Nat, NEW u \in Nat, u >= t,
           NEW gone
    PROVE  Exact(SetTo(c, u), SetTo(c, t), gone, t)
<1> DEFINE a == Deadline(c, t)
           b == Deadline(c, u)
<1>1. /\ a \in Nat /\ b \in Nat /\ b >= a
      /\ b = 0 <=> a = 0
      /\ a = 0 => b = a
      /\ a = 0 \/ a > t
  BY DeadlineLater DEF Sendable
<1> HIDE DEF a, b
<1>2. SetTo(c, t) = [ty |-> "string", v |-> c.vals, at |-> a]
      /\ SetTo(c, u) = [ty |-> "string", v |-> c.vals, at |-> b]
  BY DEF SetTo, a, b
<1> QED BY <1>1, <1>2 DEF Exact, StandsAt, Due

LEMMA ExpireStands ==
    ASSUME NEW c \in Sendable, NEW t \in Nat, NEW u \in Nat, u >= t, NEW ty, NEW v, NEW gone,
           ty # "none"
    PROVE  Exact([ty |-> ty, v |-> v, at |-> Deadline(c, u)],
                 [ty |-> ty, v |-> v, at |-> Deadline(c, t)], gone, t)
<1> DEFINE a == Deadline(c, t)
           b == Deadline(c, u)
<1>1. /\ a \in Nat /\ b \in Nat /\ b >= a
      /\ b = 0 <=> a = 0
      /\ a = 0 => b = a
      /\ a = 0 \/ a > t
  BY DeadlineLater DEF Sendable
<1> HIDE DEF a, b
<1>2. Exact([ty |-> ty, v |-> v, at |-> b], [ty |-> ty, v |-> v, at |-> a], gone, t)
  BY <1>1 DEF Exact, StandsAt, Due
<1> QED BY <1>2 DEF a, b

\* A command that the master has propagated settles its key ...
LEMMA SettledExact ==
    ASSUME NEW e, NEW f, NEW c \in Sendable, Settles(c, TRUE),
           NEW t \in Nat, NEW u \in Nat, u >= t, NEW gone
    PROVE  Exact(Meets(f, c, u).entry, Meets(e, c, t).entry, gone, t)
<1>1. CASE c.op = "set"
  BY <1>1, MeetsSet, SetStands
<1>2. CASE c.op = "del"
  <2>1. Meets(f, c, u).entry = None /\ Meets(e, c, t).entry = None
    BY <1>2, MeetsDel
  <2>2. Exact(None, None, gone, t)
    BY NoneEntry, SameEntry DEF None
  <2> QED BY <2>1, <2>2
<1> QED BY <1>1, <1>2 DEF Settles


\* ... does the same to the same entry without a deadline ...
LEMMA SameExact ==
    ASSUME NEW e, ProperEntry(e), e.at = 0, NEW t \in Nat, NEW u \in Nat, u >= t,
           NEW c \in Sendable, c.op # "flushdb", Meets(e, c, t).sent, NEW gone
    PROVE  Exact(Meets(e, c, u).entry, Meets(e, c, t).entry, gone, t)
<1>1. Found(e, t) = e /\ Found(e, u) = e
  BY DEF Found, Due
<1>2. c.op \in Ops
  BY DEF Sendable, Commands
<1> DEFINE x == Meets(e, c, t).entry
           y == Meets(e, c, u).entry
<1> SUFFICES Exact(y, x, gone, t)
  OBVIOUS
<1>3. x \in Entries
  BY MeetsTyped DEF ProperEntry
<1>4. ASSUME y = x, x.at = 0 PROVE Exact(y, x, gone, t)
  <2> HIDE DEF x, y
  <2> QED BY <1>3, <1>4, SameEntry
<1>5. CASE Settles(c, TRUE)
  BY <1>5, SettledExact
<1>6. CASE c.op = "setnx"
  BY <1>1, <1>6, MeetsSetNx, SetStands
<1>7. CASE c.op = "rpush"
  <2>1. x = Longer(e, c) /\ y = Longer(e, c)
    BY <1>1, <1>7, MeetsRPush
  <2>2. Longer(e, c).at = 0
    BY DEF Longer
  <2> HIDE DEF x, y
  <2> QED BY <1>4, <2>1, <2>2
<1>8. CASE c.op = "lpop"
  <2>1. x = Shorter(e) /\ y = Shorter(e)
    BY <1>1, <1>8, MeetsLPop
  <2>2. Shorter(e).at = 0
    BY DEF Shorter, None
  <2> HIDE DEF x, y
  <2> QED BY <1>4, <2>1, <2>2
<1>9. CASE c.op = "expire"
  <2>1. e.ty # "none" /\ x = [ty |-> e.ty, v |-> e.v, at |-> Deadline(c, t)]
        /\ y = [ty |-> e.ty, v |-> e.v, at |-> Deadline(c, u)]
    BY <1>1, <1>9, MeetsExpire
  <2>2. Exact([ty |-> e.ty, v |-> e.v, at |-> Deadline(c, u)],
              [ty |-> e.ty, v |-> e.v, at |-> Deadline(c, t)], gone, t)
    BY <2>1, ExpireStands
  <2> HIDE DEF x, y
  <2> QED BY <2>1, <2>2
<1> QED BY <1>2, <1>5, <1>6, <1>7, <1>8, <1>9 DEF Ops, Settles

\* ... and covers an overwritten key that was covered.
LEMMA OverwrittenCovered ==
    ASSUME NEW e, ProperEntry(e), e.at = 0, NEW t \in Nat, NEW u \in Nat, u >= t,
           NEW f, ProperEntry(f), Covers(f, e, t),
           NEW c \in Sendable, c.op # "flushdb", Meets(e, c, t).sent, c.key \in Overwritten
    PROVE  Covers(Meets(f, c, u).entry, Meets(e, c, t).entry, t)
<1>1. Found(e, t) = e
  BY DEF Found, Due
<1>2. c.op \in {"set", "expire", "del"}
  BY DEF Sendable
<1>3. CASE Settles(c, TRUE)
  BY <1>3, SettledExact DEF Covers, Exact
<1>4. CASE c.op = "expire"
  <2>1. e.ty # "none" /\ Meets(e, c, t).entry = [ty |-> e.ty, v |-> e.v, at |-> Deadline(c, t)]
    BY <1>1, <1>4, MeetsExpire
  <2>2. f.ty = e.ty /\ f.v = e.v /\ f.at = 0
    BY <2>1 DEF Covers, StandsAt, Due
  <2>3. Found(f, u) = f
    BY <2>2 DEF Found, Due
  <2>4. Meets(f, c, u).entry = [ty |-> e.ty, v |-> e.v, at |-> Deadline(c, u)]
    BY <1>4, <2>1, <2>2, <2>3, MeetsExpire
  <2>5. Exact([ty |-> e.ty, v |-> e.v, at |-> Deadline(c, u)],
              [ty |-> e.ty, v |-> e.v, at |-> Deadline(c, t)], FALSE, t)
    BY <2>1, ExpireStands
  <2> QED BY <2>1, <2>4, <2>5 DEF Covers, Exact
<1> QED BY <1>2, <1>3, <1>4 DEF Settles

\* The entry of the master runs out and is freed.
LEMMA LapsedExact ==
    ASSUME NEW f, NEW e, NEW t, Due(e, t)
    PROVE  /\ StandsAt(f, e, t) => Exact(f, None, TRUE, t)
           /\ Covers(f, None, t)
BY DEF StandsAt, Exact, Covers, None

-----------------------------------------------------------------------------
(* A replica's dictionary x follows its master's m: exactly, if the full   *)
(* sync found the replica empty, and by covering its overwritten keys in   *)
(* any case.                                                               *)

Tracks(x, m, gone, frag, whole, t) ==
    \A k \in Keys \ frag :
        /\ k \in Overwritten => Covers(x[k], m[k], t)
        /\ whole => Exact(x[k], m[k], k \in gone, t)

LEMMA TracksLater ==
    ASSUME NEW x \in Dicts, NEW m \in Dicts, NEW gone, NEW frag, NEW whole, NEW t \in Nat,
           Tracks(x, m, gone, frag, whole, t)
    PROVE  Tracks(x, m, gone, frag, whole, t + 1)
<1>1. ASSUME NEW k \in Keys
      PROVE  /\ Covers(x[k], m[k], t) => Covers(x[k], m[k], t + 1)
             /\ Exact(x[k], m[k], k \in gone, t) => Exact(x[k], m[k], k \in gone, t + 1)
  <2> DEFINE f == x[k]
             e == m[k]
  <2>1. f.at \in Nat /\ e.at \in Nat
    BY EntryFields, ProperDict DEF ProperEntry
  <2> HIDE DEF f, e
  <2>2. /\ Due(e, t) => Due(e, t + 1)
        /\ StandsAt(f, e, t) => StandsAt(f, e, t + 1)
    BY <2>1 DEF Due, StandsAt
  <2> QED BY <2>2 DEF Covers, Exact, f, e
<1> QED BY <1>1 DEF Tracks

\* What Exec does to one key.
LEMMA ExecOther ==
    ASSUME NEW d \in Dicts, NEW c \in Sendable, c.op # "flushdb", NEW t
    PROVE  /\ Exec(d, c, t).db[c.key] = Meets(d[c.key], c, t).entry
           /\ \A k \in Keys \ {c.key} : Exec(d, c, t).db[k] = d[k]
           /\ Exec(d, c, t).sent = Meets(d[c.key], c, t).sent
           /\ c.key \in Keys
<1>1. Exec(d, c, t).db = [d EXCEPT ![c.key] = Meets(d[c.key], c, t).entry]
      /\ Exec(d, c, t).sent = Meets(d[c.key], c, t).sent
  BY DEF Exec
<1>2. d \in [Keys -> Entries] /\ c.key \in Keys
  BY DEF Dicts, Sendable, Commands
<1> DEFINE z == Meets(d[c.key], c, t).entry
<1> HIDE DEF z
<1>3. [d EXCEPT ![c.key] = z][c.key] = z /\ \A k \in Keys \ {c.key} : [d EXCEPT ![c.key] = z][k] = d[k]
  BY <1>2
<1> QED BY <1>1, <1>2, <1>3 DEF z

LEMMA EmptyTracks ==
    ASSUME NEW gone, NEW frag, NEW whole, NEW t
    PROVE  Tracks(Empty, Empty, gone, frag, whole, t)
<1>1. \A k \in Keys : Empty[k] = None
  BY DEF Empty
<1>2. \A k \in Keys : Exact(None, None, k \in gone, t) /\ Covers(None, None, t)
  BY DEF Exact, StandsAt, Covers, None
<1> QED BY <1>1, <1>2 DEF Tracks

\* A command that the master propagates, executed by the replica at u.
LEMMA TracksSent ==
    ASSUME NEW x \in Dicts, NEW m \in Dicts, NEW gone, NEW frag, NEW whole,
           now \in Nat, NEW u \in Nat, u >= now,
           Tracks(x, m, gone, frag, whole, now),
           NEW c \in Sendable, Exec(m, c, now).sent
    PROVE  Tracks(Exec(x, c, u).db, Exec(m, c, now).db, Freed(gone, m[c.key], c, TRUE),
                  Built(frag, gone, m[c.key], c, TRUE), whole, now)
<1>1. CASE c.op = "flushdb"
  <2>1. Exec(x, c, u).db = Empty /\ Exec(m, c, now).db = Empty
    BY <1>1 DEF Exec
  <2> QED BY <2>1, EmptyTracks
<1>2. CASE c.op # "flushdb"
  <2> DEFINE k == c.key
             e == m[k]
             f == x[k]
             y == Exec(x, c, u).db
             n == Exec(m, c, now).db
             F == Freed(gone, e, c, TRUE)
             B == Built(frag, gone, e, c, TRUE)
  <2> SUFFICES Tracks(y, n, F, B, whole, now)
    OBVIOUS
  <2>1. /\ y[k] = Meets(f, c, u).entry /\ n[k] = Meets(e, c, now).entry
        /\ \A j \in Keys \ {k} : y[j] = x[j] /\ n[j] = m[j]
        /\ Meets(e, c, now).sent
        /\ k \in Keys
    BY <1>2, ExecOther
  <2>2. ProperEntry(e) /\ ProperEntry(f)
    BY <2>1, ProperDict
  <2>3. \A j \in Keys \ {k} : (j \in F <=> j \in gone) /\ (j \notin B => j \notin frag)
    BY <1>2 DEF Freed, Built
  <2>4. CASE Settles(c, TRUE)
    <3>1. Exact(y[k], n[k], k \in F, now)
      BY <2>1, <2>4, SettledExact
    <3>2. Covers(y[k], n[k], now)
      BY <3>1 DEF Exact, Covers
    <3> HIDE DEF y, n, F, B, k
    <3>3. ASSUME NEW j \in Keys \ B
          PROVE  /\ j \in Overwritten => Covers(y[j], n[j], now)
                 /\ whole => Exact(y[j], n[j], j \in F, now)
      <4>1. CASE j = k
        BY <3>1, <3>2, <4>1
      <4>2. CASE j # k
        BY <2>1, <2>3, <4>2 DEF Tracks
      <4> QED BY <4>1, <4>2
    <3> QED BY <3>3 DEF Tracks
  <2>5. CASE ~ Settles(c, TRUE)
    <3>1. k \notin B => k \notin frag /\ e.at = 0 /\ k \notin gone
      BY <1>2, <2>1, <2>5 DEF Built
    <3>2. ASSUME k \notin B
          PROVE  /\ k \in Overwritten => Covers(y[k], n[k], now)
                 /\ whole => Exact(y[k], n[k], k \in F, now)
      <4>1. /\ k \in Overwritten => Covers(f, e, now)
            /\ whole => Exact(f, e, k \in gone, now)
        BY <2>1, <3>1, <3>2 DEF Tracks
      <4>2. k \in Overwritten => Covers(y[k], n[k], now)
        BY <1>2, <2>1, <2>2, <3>1, <3>2, <4>1, OverwrittenCovered
      <4>3. ASSUME whole PROVE Exact(y[k], n[k], k \in F, now)
        <5>1. f = e
          BY <3>1, <3>2, <4>1, <4>3 DEF Exact
        <5>2. Exact(Meets(e, c, u).entry, Meets(e, c, now).entry, k \in F, now)
          BY <1>2, <2>1, <2>2, <3>1, <3>2, SameExact
        <5> QED BY <2>1, <5>1, <5>2
      <4> QED BY <4>2, <4>3
    <3> HIDE DEF y, n, F, B, k
    <3>3. ASSUME NEW j \in Keys \ B
          PROVE  /\ j \in Overwritten => Covers(y[j], n[j], now)
                 /\ whole => Exact(y[j], n[j], j \in F, now)
      <4>1. CASE j = k
        BY <3>2, <4>1
      <4>2. CASE j # k
        BY <2>1, <2>3, <4>2 DEF Tracks
      <4> QED BY <4>1, <4>2
    <3> QED BY <3>3 DEF Tracks
  <2> QED BY <2>4, <2>5
<1> QED BY <1>1, <1>2

\* A due entry of the master is freed.
LEMMA TracksPurged ==
    ASSUME NEW x, NEW m, NEW n, NEW gone, NEW frag, NEW whole, NEW t, NEW k \in Keys,
           Tracks(x, m, gone, frag, whole, t), Due(m[k], t), n[k] = None,
           \A j \in Keys \ {k} : n[j] = m[j]
    PROVE  Tracks(x, n, gone \cup {k}, frag, whole, t)
<1>1. ASSUME NEW j \in Keys \ frag
      PROVE  /\ j \in Overwritten => Covers(x[j], n[j], t)
             /\ whole => Exact(x[j], n[j], j \in gone \cup {k}, t)
  <2>1. CASE j = k
    <3>1. whole => StandsAt(x[k], m[k], t)
      BY <2>1 DEF Tracks, Exact
    <3>2. Covers(x[k], None, t) /\ (whole => Exact(x[k], None, TRUE, t))
      BY <3>1, LapsedExact
    <3> QED BY <2>1, <3>2 DEF Exact
  <2>2. CASE j # k
    <3>1. n[j] = m[j] /\ (j \in gone \cup {k} <=> j \in gone)
      BY <2>2
    <3> QED BY <3>1 DEF Tracks, Exact
  <2> QED BY <2>1, <2>2
<1> QED BY <1>1 DEF Tracks

\* A command that is not propagated only frees what is due.
LEMMA TracksUnsent ==
    ASSUME NEW x, NEW m \in Dicts, NEW gone, NEW frag, NEW whole, now \in Nat,
           Tracks(x, m, gone, frag, whole, now),
           NEW c \in Sendable, Exec(m, c, now).sent = FALSE
    PROVE  Tracks(x, Exec(m, c, now).db, Freed(gone, m[c.key], c, FALSE),
                  Built(frag, gone, m[c.key], c, FALSE), whole, now)
<1> DEFINE k == c.key
           e == m[k]
           f == Found(e, now)
           n == Exec(m, c, now).db
           F == Freed(gone, e, c, FALSE)
           B == Built(frag, gone, e, c, FALSE)
<1> SUFFICES Tracks(x, n, F, B, whole, now)
  OBVIOUS
<1>1. c.op \in Ops \ {"flushdb"}
  BY DEF Sendable, Commands, Exec
<1>2. /\ n[k] = Meets(e, c, now).entry
      /\ \A j \in Keys \ {k} : n[j] = m[j]
      /\ ~ Meets(e, c, now).sent
      /\ k \in Keys
  BY <1>1, ExecOther
<1>3. ProperEntry(f)
  <2>1. ProperEntry(e)
    BY <1>2, ProperDict
  <2> QED BY <2>1, NoneEntry DEF Found, ProperEntry, None
<1>4. Meets(e, c, now).entry = f /\ c.op # "set"
  <2> HIDE DEF e
  <2>1. CASE c.op = "set"
    BY <1>2, <2>1, MeetsSet
  <2>2. CASE c.op = "setnx"
    BY <1>2, <2>2, MeetsSetNx
  <2>3. CASE c.op = "rpush"
    BY <1>2, <2>3, MeetsRPush
  <2>4. CASE c.op = "lpop"
    BY <1>2, <2>4, MeetsLPop
  <2>5. CASE c.op = "expire"
    BY <1>2, <2>5, MeetsExpire
  <2>6. CASE c.op = "del"
    BY <1>2, <1>3, <2>6, MeetsDel DEF ProperEntry
  <2> QED BY <1>1, <2>1, <2>2, <2>3, <2>4, <2>5, <2>6 DEF Ops
<1>5. B = frag /\ F = IF Due(e, now) THEN gone \cup {k} ELSE gone
  BY <1>1, <1>4 DEF Freed, Built, Settles
<1>6. CASE Due(e, now)
  <2>1. n[k] = None /\ F = gone \cup {k}
    BY <1>2, <1>4, <1>5, <1>6 DEF Found
  <2> HIDE DEF n, F, B, k
  <2>2. Due(m[k], now)
    BY <1>6
  <2> QED BY <1>2, <1>5, <2>1, <2>2, TracksPurged
<1>7. CASE ~ Due(e, now)
  <2>1. n[k] = m[k] /\ F = gone
    BY <1>2, <1>4, <1>5, <1>7 DEF Found
  <2> HIDE DEF n, F, B, k
  <2>2. \A j \in Keys : n[j] = m[j]
    BY <1>2, <2>1
  <2> QED BY <1>5, <2>1, <2>2 DEF Tracks
<1> QED BY <1>6, <1>7

-----------------------------------------------------------------------------
(* The replica frees a due entry before the rest of the stream arrives.    *)

Alike(y, x, k, t) ==
    /\ \A j \in Keys \ {k} : y[j] = x[j]
    /\ y[k] = x[k] \/ (y[k] = None /\ Due(x[k], t))

LEMMA AlikeStep ==
    ASSUME NEW x \in Dicts, NEW y \in Dicts, NEW k \in Keys, NEW t \in Nat, Alike(y, x, k, t),
           NEW c \in Sendable, NEW u \in Nat, u >= t
    PROVE  Alike(Exec(y, c, u).db, Exec(x, c, u).db, k, t)
<1>1. CASE c.op = "flushdb"
  BY <1>1 DEF Exec, Alike
<1>2. CASE c.op # "flushdb"
  <2> DEFINE a == Exec(y, c, u).db
             b == Exec(x, c, u).db
  <2>1. /\ a[c.key] = Meets(y[c.key], c, u).entry /\ b[c.key] = Meets(x[c.key], c, u).entry
        /\ \A j \in Keys \ {c.key} : a[j] = y[j] /\ b[j] = x[j]
        /\ c.key \in Keys
    BY <1>2, ExecOther
  <2>2. a[c.key] = b[c.key]
    <3>1. CASE y[c.key] = x[c.key]
      <4> HIDE DEF a, b
      <4> QED BY <2>1, <3>1
    <3>2. CASE y[c.key] # x[c.key]
      <4>1. y[c.key] = None /\ Due(x[c.key], t)
        BY <2>1, <3>2 DEF Alike
      <4>2. x[c.key].at \in Nat
        BY <2>1, ProperDict, EntryFields DEF ProperEntry
      <4>3. Due(x[c.key], u)
        BY <4>1, <4>2 DEF Due
      <4> DEFINE f == x[c.key]
      <4> HIDE DEF f
      <4>4. Found(f, u) = None /\ Found(None, u) = None
        BY <4>3 DEF Found, Due, f
      <4>5. Meets(f, c, u).entry = Meets(None, c, u).entry
        BY <4>4 DEF Meets, Del, Outcome
      <4> HIDE DEF a, b
      <4> QED BY <2>1, <4>1, <4>5 DEF f
    <3> QED BY <3>1, <3>2
  <2> HIDE DEF a, b
  <2> QED BY <2>1, <2>2 DEF Alike, a, b
<1> QED BY <1>1, <1>2

LEMMA ReachPurged ==
    ASSUME NEW d \in Dicts, NEW k \in Keys, NEW t \in Nat, NEW e \in Dicts, Alike(e, d, k, t),
           NEW s \in Seq(Sendable), NEW y \in Reach(e, s, t)
    PROVE  \E x \in Reach(d, s, t) : Alike(y, x, k, t)
<1> DEFINE N == Len(s)
<1>1. N \in Nat /\ \A i \in 1..N : s[i] \in Sendable
  BY LenProperties, ElementOfSeq
<1>2. PICK g : Run(e, s, t, g) /\ g[N] = y
  BY DEF Reach
<1> HIDE DEF N
<1>3. /\ g \in [0..N -> Dicts] /\ g[0] = e
      /\ \A i \in 1..N : \E u \in Nat : u >= t /\ g[i] = Exec(g[i - 1], s[i], u).db
  BY <1>2 DEF Run, N
<1> DEFINE when == [i \in 1..N |-> CHOOSE u \in Nat : u >= t /\ g[i] = Exec(g[i - 1], s[i], u).db]
<1>4. \A i \in 1..N : when[i] \in Nat /\ when[i] >= t /\ g[i] = Exec(g[i - 1], s[i], when[i]).db
  BY <1>3
<1> HIDE DEF when
<1> DEFINE F == [p \in (1..N) \X Dicts |-> Exec(p[2], s[p[1]], when[p[1]]).db]
<1>5. \A i \in 1..N, x \in Dicts : F[<<i, x>>] = Exec(x, s[i], when[i]).db
  OBVIOUS
<1> HIDE DEF F
<1>6. \A i \in 1..N, x \in Dicts : F[<<i, x>>] \in Dicts
  BY <1>1, <1>4, <1>5, ExecTyped
<1>7. PICK h \in [0..N -> Dicts] : Iterates(d, F, N, h)
  BY <1>1, <1>6, IterationExists
<1>8. h[0] = d /\ \A i \in 1..N : h[i] = Exec(h[i - 1], s[i], when[i]).db
  <2>1. \A i \in 0..N : h[i] = IF i = 0 THEN d ELSE F[<<i, h[i - 1]>>]
    BY <1>7 DEF Iterates
  <2>2. \A i \in 1..N : i \in 0..N /\ i # 0 /\ i - 1 \in 0..N
    BY <1>1
  <2>3. 0 \in 0..N
    BY <1>1
  <2> QED BY <1>5, <1>7, <2>1, <2>2, <2>3
<1>9. Run(d, s, t, h)
  BY <1>4, <1>7, <1>8 DEF Run, N
<1> DEFINE T == {n \in Nat : n <= N => Alike(g[n], h[n], k, t)}
<1>10. 0 \in T
  BY <1>3, <1>8
<1>11. ASSUME NEW n \in T PROVE n + 1 \in T
  <2>1. SUFFICES ASSUME n + 1 <= N PROVE Alike(g[n + 1], h[n + 1], k, t)
    OBVIOUS
  <2>2. n \in Nat /\ n \in 0..N /\ n + 1 \in 1..N /\ (n + 1) - 1 = n /\ n <= N
    BY <1>1, <2>1
  <2>3. Alike(g[n], h[n], k, t)
    BY <2>2
  <2> DEFINE i == n + 1
  <2>4. i \in 1..N /\ i - 1 = n
    BY <2>2
  <2> HIDE DEF i
  <2>5. g[i] = Exec(g[n], s[i], when[i]).db /\ h[i] = Exec(h[n], s[i], when[i]).db
    BY <1>4, <1>8, <2>4
  <2>6. g[n] \in Dicts /\ h[n] \in Dicts /\ s[i] \in Sendable /\ when[i] \in Nat /\ when[i] >= t
    BY <1>1, <1>3, <1>4, <1>7, <2>2, <2>4
  <2>7. Alike(g[i], h[i], k, t)
    BY <2>3, <2>5, <2>6, AlikeStep
  <2> QED BY <2>7 DEF i
<1> HIDE DEF T
<1>12. N \in T
  BY <1>1, <1>10, <1>11, NatInduct DEF T
<1>13. Alike(y, h[N], k, t)
  BY <1>1, <1>2, <1>12 DEF T
<1>14. h[N] \in Reach(d, s, t)
  BY <1>1, <1>9, ReachMember DEF N
<1> QED BY <1>13, <1>14

LEMMA TracksAlike ==
    ASSUME NEW x \in Dicts, NEW y \in Dicts, NEW m \in Dicts, NEW gone, NEW frag, NEW whole,
           NEW t \in Nat, NEW k \in Keys, Alike(y, x, k, t), Tracks(x, m, gone, frag, whole, t)
    PROVE  Tracks(y, m, gone, frag, whole, t)
<1>1. ASSUME NEW e, NEW f, ProperEntry(e), ProperEntry(f), Due(f, t), NEW lost
      PROVE  /\ Covers(f, e, t) => Covers(None, e, t)
             /\ Exact(f, e, lost, t) => Exact(None, e, lost, t)
  <2>1. e.at \in Nat /\ f.at \in Nat
    BY <1>1, EntryFields DEF ProperEntry
  <2> QED BY <1>1, <2>1 DEF Due, Covers, Exact, StandsAt, None
<1>2. ASSUME NEW j \in Keys \ frag
      PROVE  /\ j \in Overwritten => Covers(y[j], m[j], t)
             /\ whole => Exact(y[j], m[j], j \in gone, t)
  <2>1. /\ j \in Overwritten => Covers(x[j], m[j], t)
        /\ whole => Exact(x[j], m[j], j \in gone, t)
    BY DEF Tracks
  <2>2. CASE y[j] = x[j]
    BY <2>1, <2>2
  <2>3. CASE y[j] # x[j]
    <3>1. y[j] = None /\ Due(x[j], t)
      BY <2>3 DEF Alike
    <3>2. ProperEntry(m[j]) /\ ProperEntry(x[j])
      BY ProperDict
    <3> QED BY <1>1, <2>1, <3>1, <3>2
  <2> QED BY <2>2, <2>3
<1> QED BY <1>2 DEF Tracks

\* The run at the present instant is one of them.
LEMMA ReplayedReached ==
    ASSUME NEW r, NEW s \in Seq(Sendable), s = link[r].feed, db[r] \in Dicts, now \in Nat
    PROVE  Replayed(r) \in Reach(db[r], s, now)
<1> DEFINE N == Len(s)
           d == db[r]
<1>1. N \in Nat /\ \A i \in 1..N : s[i] \in Sendable
  BY LenProperties, ElementOfSeq
<1> DEFINE F == [p \in (1..N) \X Dicts |-> Exec(p[2], s[p[1]], now).db]
           Follow(f) == f = [i \in 0..N |-> IF i = 0 THEN d ELSE Exec(f[i - 1], s[i], now).db]
           h == CHOOSE f : Follow(f)
<1> HIDE DEF N
<1>2. Replayed(r) = h[N]
  BY DEF Replayed, N
<1>3. \A i \in 1..N, x \in Dicts : F[<<i, x>>] = Exec(x, s[i], now).db
  OBVIOUS
<1> HIDE DEF F
<1>4. \A i \in 1..N, x \in Dicts : F[<<i, x>>] \in Dicts
  BY <1>1, <1>3, ExecTyped
<1>5. PICK g \in [0..N -> Dicts] : Iterates(d, F, N, g)
  <2> HIDE DEF d, h
  <2> QED BY <1>1, <1>4, IterationExists DEF d
<1>6. Follow(g)
  <2>1. \A i \in 1..N : F[<<i, g[i - 1]>>] = Exec(g[i - 1], s[i], now).db
    <3>1. \A i \in 1..N : i - 1 \in 0..N
      BY <1>1
    <3> QED BY <1>3, <1>5, <3>1
  <2>2. \A i \in 0..N : i = 0 \/ i \in 1..N
    BY <1>1
  <2>3. g = [i \in 0..N |-> IF i = 0 THEN d ELSE F[<<i, g[i - 1]>>]]
    BY <1>5 DEF Iterates
  <2> QED BY <2>1, <2>2, <2>3
<1>7. Follow(h)
  BY <1>6
<1> HIDE DEF h
<1>8. h[0] = d /\ \A i \in 1..N : h[i] = Exec(h[i - 1], s[i], now).db
  <2>1. 0 \in 0..N /\ \A i \in 1..N : i \in 0..N /\ i # 0
    BY <1>1
  <2> QED BY <1>7, <2>1
<1> HIDE DEF Follow, d
<1> DEFINE T == {n \in Nat : n <= N => h[n] \in Dicts}
<1>9. 0 \in T
  BY <1>8 DEF d
<1>10. ASSUME NEW n \in T PROVE n + 1 \in T
  <2>1. SUFFICES ASSUME n + 1 <= N PROVE h[n + 1] \in Dicts
    OBVIOUS
  <2>2. n \in Nat /\ n + 1 \in 1..N /\ (n + 1) - 1 = n /\ n <= N
    BY <1>1, <2>1
  <2>3. h[n] \in Dicts
    BY <2>2
  <2> DEFINE i == n + 1
  <2>4. i \in 1..N /\ i - 1 = n
    BY <2>2
  <2> HIDE DEF i
  <2>5. h[i] = Exec(h[n], s[i], now).db /\ s[i] \in Sendable
    BY <1>1, <1>8, <2>4
  <2>6. h[i] \in Dicts
    BY <2>3, <2>5, ExecTyped
  <2> QED BY <2>6 DEF i
<1>11. \A n \in 0..N : h[n] \in Dicts
  <2> HIDE DEF T
  <2>1. T = Nat
    BY <1>9, <1>10, NatInduct DEF T
  <2> QED BY <1>1, <2>1 DEF T
<1>12. h \in [0..N -> Dicts]
  <2>1. h = [i \in 0..N |-> h[i]]
    BY <1>7 DEF Follow
  <2> QED BY <1>11, <2>1
<1>13. Run(d, s, now, h)
  <2>1. \A i \in 1..N : \E u \in Nat : u >= now /\ h[i] = Exec(h[i - 1], s[i], u).db
    BY <1>8
  <2> QED BY <1>8, <1>12, <2>1 DEF Run, N
<1> QED BY <1>1, <1>2, <1>13, ReachMember DEF N, d

-----------------------------------------------------------------------------
(* The full sync.                                                          *)

LEMMA RoundedUp ==
    ASSUME NEW a \in Nat, a > 0, NEW b \in Nat \ {0}
    PROVE  /\ (a + b - 1) \div b \in Nat \ {0}
           /\ ((a + b - 1) \div b) * b >= a
<1> DEFINE n == a + b - 1
           q == n \div b
           r == n % b
<1>1. n \in Nat /\ n >= b /\ n = a + b - 1
  OBVIOUS
<1> HIDE DEF n
<1>2. q \in Int /\ r \in 0..(b - 1) /\ n = b * q + r
  BY <1>1
<1> HIDE DEF q, r
<1>3. PICK w : w = b * q
  OBVIOUS
<1>4. w \in Int /\ w > 0 /\ w >= a
  BY <1>1, <1>2, <1>3
<1>5. q > 0
  BY <1>2, <1>3, <1>4
<1>6. q * b = w
  BY <1>2, <1>3
<1>7. q \in Nat \ {0} /\ q * b >= a
  BY <1>2, <1>4, <1>5, <1>6
<1> QED BY <1>7 DEF q, n

LEMMA SyncTtlEnough ==
    ASSUME NEW e \in Entries, NEW t \in Nat, ~ Due(e, t), NEW u \in Nat, u >= t
    PROVE  /\ SyncTtl(e, t) \in Nat
           /\ SyncTtl(e, t) = 0 <=> e.at = 0
           /\ e.at # 0 => u + SyncTtl(e, t) * Second >= e.at
<1>1. e.at \in Nat /\ Second \in Nat \ {0}
  BY EntryFields, ReplAssumption
<1>2. CASE e.at = 0
  BY <1>2 DEF SyncTtl
<1>3. CASE e.at # 0
  <2>1. PICK a : a = e.at - t
    OBVIOUS
  <2>2. a \in Nat /\ a > 0
    BY <1>1, <1>3, <2>1 DEF Due
  <2>3. SyncTtl(e, t) = (a + Second - 1) \div Second
    BY <1>3, <2>1 DEF SyncTtl
  <2>4. PICK q : q = SyncTtl(e, t)
    OBVIOUS
  <2>5. q \in Nat \ {0} /\ q * Second >= a
    BY <1>1, <2>2, <2>3, <2>4, RoundedUp
  <2>6. PICK w : w = q * Second
    OBVIOUS
  <2>7. w \in Int /\ u + w >= e.at
    BY <1>1, <2>1, <2>2, <2>5, <2>6
  <2> QED BY <1>3, <2>4, <2>5, <2>6, <2>7
<1> QED BY <1>2, <1>3

SetCommand(k, e, t) == [op |-> "set", key |-> k, vals |-> e.v, ttl |-> SyncTtl(e, t)]
ExpireCommand(k, e, t) == [op |-> "expire", key |-> k, vals |-> <<>>, ttl |-> SyncTtl(e, t)]
PushCommand(k, e) == [op |-> "rpush", key |-> k, vals |-> e.v, ttl |-> 0]

\* The commands for the entry under k.
LEMMA SyncCommands ==
    ASSUME NEW k \in Keys, NEW e, ProperEntry(e), e.ty # "none", NEW t \in Nat, ~ Due(e, t)
    PROVE  /\ e.ty = "string" => SetCommand(k, e, t) \in Sendable
           /\ k \notin Overwritten => PushCommand(k, e) \in Sendable
           /\ ExpireCommand(k, e, t) \in Sendable
<1>1. e \in Entries /\ e.v \in Seq(Vals) /\ e.v # <<>> /\ <<>> \in Seq(Vals)
  BY EntryFields DEF ProperEntry
<1>2. SyncTtl(e, t) \in Nat
  BY <1>1, SyncTtlEnough
<1>3. e.ty = "string" => SetCommand(k, e, t) \in Sendable
  BY <1>1, <1>2 DEF SetCommand, Sendable, Commands, Ops
<1>4. k \notin Overwritten => PushCommand(k, e) \in Sendable
  BY <1>1 DEF PushCommand, Sendable, Commands, Ops
<1>5. ExpireCommand(k, e, t) \in Sendable
  BY <1>1, <1>2 DEF ExpireCommand, Sendable, Commands, Ops
<1> QED BY <1>3, <1>4, <1>5

LEMMA SyncEntryIs ==
    ASSUME NEW k \in Keys, NEW e, ProperEntry(e), NEW t \in Nat
    PROVE  /\ e.ty = "none" \/ Due(e, t) => SyncEntry(k, e, t) = <<>>
           /\ e.ty = "string" /\ ~ Due(e, t) => SyncEntry(k, e, t) = <<SetCommand(k, e, t)>>
           /\ e.ty = "list" /\ ~ Due(e, t) /\ SyncTtl(e, t) = 0 =>
                  SyncEntry(k, e, t) = <<PushCommand(k, e)>> \o <<>>
           /\ e.ty = "list" /\ ~ Due(e, t) /\ SyncTtl(e, t) # 0 =>
                  SyncEntry(k, e, t) = <<PushCommand(k, e)>> \o <<ExpireCommand(k, e, t)>>
BY DEF SyncEntry, SyncString, SyncList, EmitExpire, SetCommand, PushCommand, ExpireCommand

LEMMA SyncEntryTyped ==
    ASSUME NEW k \in Keys, NEW e, ProperEntry(e), NEW t \in Nat,
           k \in Overwritten => e.ty # "list"
    PROVE  SyncEntry(k, e, t) \in Seq(Sendable)
<1> DEFINE z == SyncEntry(k, e, t)
<1>0. <<>> \in Seq(Sendable)
  BY EmptySeq
<1>1. CASE e.ty = "none" \/ Due(e, t)
  BY <1>0, <1>1, SyncEntryIs
<1>2. CASE e.ty = "string" /\ ~ Due(e, t)
  <2>1. SetCommand(k, e, t) \in Sendable
    BY <1>2, SyncCommands
  <2>2. PICK c \in Sendable : c = SetCommand(k, e, t)
    BY <2>1
  <2>3. z = <<c>>
    BY <1>2, <2>2, SyncEntryIs
  <2> HIDE DEF z
  <2>4. z \in Seq(Sendable)
    BY <2>3
  <2> QED BY <2>4 DEF z
<1>3. CASE e.ty = "list" /\ ~ Due(e, t)
  <2>1. PushCommand(k, e) \in Sendable /\ ExpireCommand(k, e, t) \in Sendable
    BY <1>3, SyncCommands
  <2>2. PICK c \in Sendable, x \in Sendable : c = PushCommand(k, e) /\ x = ExpireCommand(k, e, t)
    BY <2>1
  <2>3. z = <<c>> \o <<>> \/ z = <<c>> \o <<x>>
    BY <1>3, <2>2, SyncEntryIs
  <2> HIDE DEF z
  <2>4. z \in Seq(Sendable)
    <3>1. <<c>> \in Seq(Sendable) /\ <<x>> \in Seq(Sendable)
      OBVIOUS
    <3>2. <<c>> \o <<>> \in Seq(Sendable) /\ <<c>> \o <<x>> \in Seq(Sendable)
      BY <1>0, <3>1, ConcatProperties
    <3> QED BY <2>3, <3>2
  <2> QED BY <2>4 DEF z
<1>4. e.ty \in {"none", "string", "list"}
  BY EntryFields DEF ProperEntry
<1> QED BY <1>1, <1>2, <1>3, <1>4

\* The deadline of a synced entry, set when the command arrives.
LEMMA SyncedDeadline ==
    ASSUME NEW e \in Entries, NEW t \in Nat, ~ Due(e, t), NEW u \in Nat, u >= t,
           NEW c, c.ttl = SyncTtl(e, t)
    PROVE  /\ Deadline(c, u) \in Nat /\ Deadline(c, u) >= e.at
           /\ Deadline(c, u) = 0 <=> e.at = 0
<1>1. e.at \in Nat /\ Second \in Nat \ {0}
  BY EntryFields, ReplAssumption
<1>2. PICK q : q = c.ttl
  OBVIOUS
<1>3. PICK w : w = q * Second
  OBVIOUS
<1>4. /\ q \in Nat /\ (q = 0 <=> e.at = 0)
      /\ e.at # 0 => u + w >= e.at
  BY <1>2, <1>3, SyncTtlEnough
<1>5. w \in Nat
  BY <1>1, <1>3, <1>4
<1>6. Deadline(c, u) = IF q > 0 THEN u + w ELSE 0
  BY <1>2, <1>3 DEF Deadline
<1> QED BY <1>1, <1>4, <1>5, <1>6

LEMMA SyncEntryEnds ==
    ASSUME NEW k \in Keys, NEW e, ProperEntry(e), NEW t \in Nat,
           k \in Overwritten => e.ty # "list",
           NEW d \in Dicts, NEW x \in Reach(d, SyncEntry(k, e, t), t)
    PROVE  /\ x \in Dicts
           /\ \A j \in Keys \ {k} : x[j] = d[j]
           /\ k \in Overwritten => Covers(x[k], e, t)
           /\ d[k] = None => Exact(x[k], e, FALSE, t)
<1>0. x \in Dicts
  BY DEF Reach
<1>1. CASE e.ty = "none" \/ Due(e, t)
  <2>1. x = d
    <3>1. x \in Reach(d, <<>>, t)
      BY <1>1, SyncEntryIs
    <3> QED BY <3>1, ReachNothing
  <2>2. Exact(None, e, FALSE, t)
    BY <1>1 DEF Exact, StandsAt, None, ProperEntry, Due
  <2> QED BY <1>0, <1>1, <2>1, <2>2 DEF Covers
<1>2. CASE e.ty = "string" /\ ~ Due(e, t)
  <2>0. SetCommand(k, e, t) \in Sendable
    BY <1>2, SyncCommands
  <2>1. PICK c \in Sendable : c = SetCommand(k, e, t)
    BY <2>0, Zenon
  <2>2. PICK u \in Nat : u >= t /\ x = Exec(d, c, u).db
    <3>1. x \in Reach(d, <<c>>, t)
      BY <1>2, <2>1, SyncEntryIs
    <3> QED BY <3>1, ReachOne
  <2>3. c.op = "set" /\ c.key = k /\ c.vals = e.v /\ c.ttl = SyncTtl(e, t)
    BY <2>1 DEF SetCommand
  <2>4. x[k] = SetTo(c, u) /\ \A j \in Keys \ {k} : x[j] = d[j]
    BY <2>2, <2>3, ExecOther, MeetsSet
  <2> DEFINE a == Deadline(c, u)
  <2>5. a \in Nat /\ a >= e.at /\ (a = 0 <=> e.at = 0)
    BY <1>2, <2>2, <2>3, SyncedDeadline DEF ProperEntry
  <2>6. x[k] = [ty |-> "string", v |-> e.v, at |-> a]
    BY <2>3, <2>4 DEF SetTo
  <2> HIDE DEF a
  <2>7. Exact(x[k], e, FALSE, t)
    <3>1. StandsAt(x[k], e, t)
      BY <1>2, <2>5, <2>6 DEF StandsAt
    <3>2. e.at = 0 => x[k] = e
      <4>1. e = [ty |-> e.ty, v |-> e.v, at |-> e.at]
        BY DEF ProperEntry, Entries
      <4> QED BY <1>2, <2>5, <2>6, <4>1
    <3> QED BY <3>1, <3>2 DEF Exact
  <2> QED BY <1>0, <2>4, <2>7 DEF Covers, Exact
<1>3. CASE e.ty = "list" /\ ~ Due(e, t)
  <2>0. k \notin Overwritten /\ e \in Entries /\ e.v \in Seq(Vals) /\ e.at \in Nat
    BY <1>3, EntryFields DEF ProperEntry
  <2>0a. PushCommand(k, e) \in Sendable /\ ExpireCommand(k, e, t) \in Sendable
    BY <1>3, <2>0, SyncCommands
  <2>1. PICK c \in Sendable, b \in Sendable : c = PushCommand(k, e) /\ b = ExpireCommand(k, e, t)
    BY <2>0a, Zenon
  <2>2. c.op = "rpush" /\ c.key = k /\ c.vals = e.v
    BY <2>1 DEF PushCommand
  <2>3. b.op = "expire" /\ b.key = k /\ b.ttl = SyncTtl(e, t)
    BY <2>1 DEF ExpireCommand
  <2> DEFINE w == IF SyncTtl(e, t) = 0 THEN <<>> ELSE <<b>>
  <2>4. w \in Seq(Sendable) /\ <<c>> \in Seq(Sendable)
    OBVIOUS
  <2>5. x \in Reach(d, <<c>> \o w, t)
    BY <1>3, <2>1, SyncEntryIs
  <2> HIDE DEF w
  <2>6. PICK y \in Reach(d, <<c>>, t) : x \in Reach(y, w, t)
    BY <2>4, <2>5, ReachSplit
  <2>7. PICK u \in Nat : u >= t /\ y = Exec(d, c, u).db
    BY ReachOne
  <2>8. y \in Dicts /\ \A j \in Keys \ {k} : y[j] = d[j]
    BY <2>2, <2>7, ExecOther DEF Reach
  <2> DEFINE l == [ty |-> "list", v |-> e.v, at |-> 0]
  <2>9. d[k] = None => y[k] = l
    <3> SUFFICES ASSUME d[k] = None PROVE y[k] = l
      OBVIOUS
    <3>1. Found(d[k], u) = None
      BY DEF Found, Due
    <3>2. y[k] = Longer(None, c)
      <4>1. None.ty # "string"
        BY DEF None
      <4>2. Meets(d[k], c, u).entry = Longer(None, c)
        BY <2>2, <3>1, <4>1, MeetsRPush
      <4> QED BY <2>2, <2>7, <4>2, ExecOther
    <3>3. <<>> \o c.vals = e.v
      BY <2>0, <2>2
    <3> QED BY <3>2, <3>3 DEF Longer, None
  <2>10. CASE SyncTtl(e, t) = 0
    <3>1. x = y
      <4>1. x \in Reach(y, <<>>, t)
        BY <2>6, <2>10 DEF w
      <4> QED BY <2>8, <4>1, ReachNothing
    <3>2. e.at = 0
      BY <1>3, <2>0, <2>10, SyncTtlEnough
    <3>3. l = e
      BY <1>3, <2>0, <3>2 DEF Entries
    <3>4. d[k] = None => Exact(x[k], e, FALSE, t)
      BY <2>0, <2>9, <3>1, <3>2, <3>3, SameEntry
    <3> QED BY <1>0, <2>0, <2>8, <3>1, <3>4
  <2>11. CASE SyncTtl(e, t) # 0
    <3>1. PICK v \in Nat : v >= t /\ x = Exec(y, b, v).db
      <4>1. x \in Reach(y, <<b>>, t)
        BY <2>6, <2>11 DEF w
      <4> QED BY <4>1, ReachOne
    <3>2. /\ x[k] = Meets(y[k], b, v).entry
          /\ \A j \in Keys \ {k} : x[j] = y[j]
      BY <2>3, <2>8, <3>1, ExecOther
    <3> DEFINE a == Deadline(b, v)
    <3>3. a \in Nat /\ a >= e.at /\ (a = 0 <=> e.at = 0)
      BY <1>3, <2>0, <2>3, <3>1, SyncedDeadline
    <3>4. e.at # 0
      BY <1>3, <2>0, <2>11, SyncTtlEnough
    <3>5. d[k] = None => x[k] = [ty |-> "list", v |-> e.v, at |-> a]
      <4> SUFFICES ASSUME d[k] = None PROVE x[k] = [ty |-> "list", v |-> e.v, at |-> a]
        OBVIOUS
      <4>1. Found(l, v) = l /\ l.ty = "list" /\ l.v = e.v
        BY DEF Found, Due
      <4>2. y[k] = l
        BY <2>9
      <4> HIDE DEF l
      <4>3. Meets(l, b, v).entry = [ty |-> l.ty, v |-> l.v, at |-> Deadline(b, v)]
        BY <2>3, <4>1, MeetsExpire
      <4> QED BY <3>2, <4>1, <4>2, <4>3
    <3> HIDE DEF a
    <3>6. d[k] = None => Exact(x[k], e, FALSE, t)
      BY <1>3, <3>3, <3>4, <3>5 DEF Exact, StandsAt
    <3> QED BY <1>0, <2>0, <2>8, <3>2, <3>6
  <2> QED BY <2>10, <2>11
<1>4. e.ty \in {"none", "string", "list"}
  BY EntryFields DEF ProperEntry
<1> QED BY <1>1, <1>2, <1>3, <1>4

\* The order in which the tables are walked has every key once.
LEMMA KeysInOrder ==
    LET o == SetToSeq(Keys)
        N == Cardinality(Keys)
    IN  /\ N \in Nat /\ o \in [1..N -> Keys] /\ Len(o) = N
        /\ \A i \in 1..N, j \in 1..N : o[i] = o[j] => i = j
        /\ \A k \in Keys : \E i \in 1..N : o[i] = k
<1> DEFINE o == SetToSeq(Keys)
           N == Cardinality(Keys)
<1>1. IsFiniteSet(Keys) /\ N \in Nat /\ ExistsBijection(1..N, Keys)
  BY ReplAssumption, FS_CardinalityType
<1>2. \E f \in [1..N -> Keys] : IsInjective(f)
  <2>1. PICK f \in Bijection(1..N, Keys) : TRUE
    BY <1>1 DEF ExistsBijection
  <2>2. f \in Injection(1..N, Keys)
    BY <2>1 DEF Bijection
  <2> QED BY <2>2 DEF Injection
<1>3. o \in [1..N -> Keys] /\ IsInjective(o)
  BY <1>2 DEF SetToSeq
<1>4. o \in Injection(1..N, Keys)
  BY <1>3 DEF Injection
<1>5. IsFiniteSet(1..N) /\ Cardinality(1..N) = N
  <2> HIDE DEF N
  <2>1. IsFiniteSet(1..N) /\ Cardinality(1..N) = IF 1 > N THEN 0 ELSE N - 1 + 1
    BY <1>1, FS_Interval
  <2> QED BY <1>1, <2>1
<1>6. o \in Surjection(1..N, Keys)
  BY <1>1, <1>4, <1>5, FS_Injection
<1> HIDE DEF o, N
<1>7. \A k \in Keys : \E i \in 1..N : o[i] = k
  BY <1>6 DEF Surjection
<1>8. \A i \in 1..N, j \in 1..N : o[i] = o[j] => i = j
  BY <1>3 DEF IsInjective
<1>9. Len(o) = N
  <2>1. o \in Seq(Keys) /\ DOMAIN o = 1..N
    BY <1>1, <1>3
  <2> QED BY <1>1, <2>1
<1> QED BY <1>1, <1>3, <1>7, <1>8, <1>9 DEF o, N

\* The full sync, entry by entry.
Block(m, t, o, i) == SyncEntry(o[i], m[o[i]], t)

Blocks(m, t, o, N, g) ==
    /\ g[0] = <<>>
    /\ \A i \in 1..N : g[i] = g[i - 1] \o Block(m, t, o, i)
    /\ FullSync(m, t) = g[N]

LEMMA FullSyncIs ==
    ASSUME NEW m \in Dicts, \A k \in Overwritten : m[k].ty # "list", NEW t \in Nat,
           NEW o, o = SetToSeq(Keys), NEW N, N = Cardinality(Keys)
    PROVE  \E g \in [0..N -> Seq(Sendable)] : Blocks(m, t, o, N, g)
<1>1. N \in Nat /\ o \in [1..N -> Keys] /\ Len(o) = N
  BY KeysInOrder
<1>2. \A i \in 1..N : Block(m, t, o, i) \in Seq(Sendable)
  <2> TAKE i \in 1..N
  <2>1. o[i] \in Keys /\ ProperEntry(m[o[i]]) /\ (o[i] \in Overwritten => m[o[i]].ty # "list")
    BY <1>1, ProperDict
  <2>2. PICK k \in Keys : k = o[i]
    BY <2>1
  <2>3. SyncEntry(k, m[k], t) \in Seq(Sendable)
    BY <2>1, <2>2, SyncEntryTyped
  <2> QED BY <2>2, <2>3 DEF Block
<1> DEFINE F == [p \in (1..N) \X Seq(Sendable) |-> p[2] \o Block(m, t, o, p[1])]
           Follow(f) == f = [i \in 0..N |-> IF i = 0 THEN <<>> ELSE f[i - 1] \o Block(m, t, o, i)]
           h == CHOOSE f : Follow(f)
<1>3. FullSync(m, t) = h[N]
  BY <1>1 DEF FullSync, Block
<1>4. \A i \in 1..N, x \in Seq(Sendable) : F[<<i, x>>] = x \o Block(m, t, o, i)
  OBVIOUS
<1> HIDE DEF F
<1>5. \A i \in 1..N, x \in Seq(Sendable) : F[<<i, x>>] \in Seq(Sendable)
  <2> TAKE i \in 1..N, x \in Seq(Sendable)
  <2>1. x \o Block(m, t, o, i) \in Seq(Sendable)
    BY <1>2, ConcatProperties
  <2> QED BY <1>4, <2>1
<1>6. <<>> \in Seq(Sendable)
  BY EmptySeq
<1>7. PICK g \in [0..N -> Seq(Sendable)] : Iterates(<<>>, F, N, g)
  BY <1>1, <1>5, <1>6, IterationExists
<1>8. Follow(g)
  <2>1. \A i \in 1..N : F[<<i, g[i - 1]>>] = g[i - 1] \o Block(m, t, o, i)
    <3>1. \A i \in 1..N : i - 1 \in 0..N
      BY <1>1
    <3> QED BY <1>4, <1>7, <3>1
  <2>2. \A i \in 0..N : i = 0 \/ i \in 1..N
    BY <1>1
  <2>3. g = [i \in 0..N |-> IF i = 0 THEN <<>> ELSE F[<<i, g[i - 1]>>]]
    BY <1>7 DEF Iterates
  <2> QED BY <2>1, <2>2, <2>3
<1>9. Follow(h)
  BY <1>8
<1> HIDE DEF h
<1>10. h[0] = <<>> /\ \A i \in 1..N : h[i] = h[i - 1] \o Block(m, t, o, i)
  <2>1. 0 \in 0..N /\ \A i \in 1..N : i \in 0..N /\ i # 0
    BY <1>1
  <2> QED BY <1>9, <2>1
<1> DEFINE T == {n \in Nat : n <= N => h[n] \in Seq(Sendable)}
<1>11. 0 \in T
  BY <1>6, <1>10
<1>12. ASSUME NEW n \in T PROVE n + 1 \in T
  <2>1. SUFFICES ASSUME n + 1 <= N PROVE h[n + 1] \in Seq(Sendable)
    OBVIOUS
  <2>2. n \in Nat /\ n + 1 \in 1..N /\ (n + 1) - 1 = n /\ n <= N
    BY <1>1, <2>1
  <2>3. h[n] \in Seq(Sendable)
    BY <2>2
  <2> DEFINE i == n + 1
  <2>4. i \in 1..N /\ i - 1 = n
    BY <2>2
  <2> HIDE DEF i
  <2>5. h[i] = h[n] \o Block(m, t, o, i) /\ Block(m, t, o, i) \in Seq(Sendable)
    BY <1>2, <1>10, <2>4
  <2>6. h[i] \in Seq(Sendable)
    BY <2>3, <2>5, ConcatProperties
  <2> QED BY <2>6 DEF i
<1>13. \A n \in 0..N : h[n] \in Seq(Sendable)
  <2> HIDE DEF T
  <2>1. T = Nat
    BY <1>11, <1>12, NatInduct DEF T
  <2> QED BY <1>1, <2>1 DEF T
<1>14. h \in [0..N -> Seq(Sendable)]
  <2>1. h = [i \in 0..N |-> h[i]]
    BY <1>9
  <2> HIDE DEF Follow
  <2> QED BY <1>13, <2>1
<1> HIDE DEF Follow
<1>15. Blocks(m, t, o, N, h)
  BY <1>3, <1>10 DEF Blocks
<1> QED BY <1>14, <1>15

LEMMA FullSyncTyped ==
    ASSUME NEW m \in Dicts, \A k \in Overwritten : m[k].ty # "list", NEW t \in Nat
    PROVE  FullSync(m, t) \in Seq(Sendable)
<1>1. PICK N, o : N = Cardinality(Keys) /\ o = SetToSeq(Keys)
  OBVIOUS
<1>2. N \in Nat
  BY <1>1, KeysInOrder
<1>3. PICK g \in [0..N -> Seq(Sendable)] : Blocks(m, t, o, N, g)
  BY <1>1, FullSyncIs
<1> QED BY <1>2, <1>3 DEF Blocks

\* The replica that has applied a full sync.
LEMMA FullSyncTracks ==
    ASSUME NEW m \in Dicts, \A k \in Overwritten : m[k].ty # "list", NEW t \in Nat,
           NEW d \in Dicts, NEW x \in Reach(d, FullSync(m, t), t), NEW gone, NEW frag
    PROVE  Tracks(x, m, gone, frag, d = Empty, t)
<1>1. PICK N, o : N = Cardinality(Keys) /\ o = SetToSeq(Keys)
  OBVIOUS
<1>2. /\ N \in Nat /\ o \in [1..N -> Keys]
      /\ \A i \in 1..N, j \in 1..N : o[i] = o[j] => i = j
      /\ \A k \in Keys : \E i \in 1..N : o[i] = k
  BY <1>1, KeysInOrder
<1>3a. PICK g \in [0..N -> Seq(Sendable)] : Blocks(m, t, o, N, g)
  BY <1>1, FullSyncIs
<1>3. /\ g[0] = <<>>
      /\ \A i \in 1..N : g[i] = g[i - 1] \o Block(m, t, o, i)
      /\ FullSync(m, t) = g[N]
  BY <1>3a DEF Blocks
<1> DEFINE Synced(y, k) == /\ k \in Overwritten => Covers(y[k], m[k], t)
                           /\ d[k] = None => Exact(y[k], m[k], FALSE, t)
           Half(y, n) == /\ y \in Dicts
                         /\ \A i \in 1..n : Synced(y, o[i])
                         /\ \A i \in (n + 1)..N : y[o[i]] = d[o[i]]
           Done(n) == \A y \in Reach(d, g[n], t) : Half(y, n)
           T == {n \in Nat : n <= N => Done(n)}
<1>4. 0 \in T
  <2>1. ASSUME NEW y \in Reach(d, g[0], t) PROVE Half(y, 0)
    <3>1. y = d
      BY <1>3, ReachNothing
    <3> QED BY <3>1
  <2> QED BY <2>1
<1>5. ASSUME NEW n \in T PROVE n + 1 \in T
  <2>0. SUFFICES ASSUME n + 1 <= N PROVE Done(n + 1)
    <3> HIDE DEF Done
    <3> QED OBVIOUS
  <2>1. SUFFICES ASSUME NEW y \in Reach(d, g[n + 1], t) PROVE Half(y, n + 1)
    <3> HIDE DEF Half
    <3> QED OBVIOUS
  <2>2. n \in Nat /\ n + 1 \in 1..N /\ (n + 1) - 1 = n /\ n <= N /\ n \in 0..N
    BY <1>2, <2>0
  <2>3. \A z \in Reach(d, g[n], t) : Half(z, n)
    BY <2>2
  <2> DEFINE i == n + 1
  <2>4. i \in 1..N /\ i - 1 = n /\ i = n + 1
    BY <2>2
  <2>5. y \in Reach(d, g[i], t)
    BY <2>1
  <2> SUFFICES Half(y, i)
    OBVIOUS
  <2> HIDE DEF i, T
  <2>6. PICK k \in Keys : k = o[i]
    BY <1>2, <2>4
  <2>7. ProperEntry(m[k]) /\ (k \in Overwritten => m[k].ty # "list")
    BY ProperDict
  <2>8. SyncEntry(k, m[k], t) \in Seq(Sendable) /\ g[n] \in Seq(Sendable)
        /\ g[i] = g[n] \o SyncEntry(k, m[k], t)
    <3>1. g[i] = g[i - 1] \o Block(m, t, o, i)
      BY <1>3, <2>4
    <3>2. g[n] \in Seq(Sendable)
      BY <1>3, <2>2
    <3>3. SyncEntry(k, m[k], t) \in Seq(Sendable)
      BY <2>7, SyncEntryTyped
    <3> QED BY <2>4, <2>6, <3>1, <3>2, <3>3 DEF Block
  <2>9. PICK z \in Reach(d, g[n], t) : y \in Reach(z, SyncEntry(k, m[k], t), t)
    BY <2>5, <2>8, ReachSplit
  <2>10. Half(z, n)
    BY <2>3
  <2>11. /\ y \in Dicts
         /\ \A j \in Keys \ {k} : y[j] = z[j]
         /\ k \in Overwritten => Covers(y[k], m[k], t)
         /\ z[k] = None => Exact(y[k], m[k], FALSE, t)
    BY <2>7, <2>9, <2>10, SyncEntryEnds
  <2>12. Synced(y, k)
    <3>1. z[k] = d[k]
      BY <2>2, <2>4, <2>6, <2>10
    <3> QED BY <2>11, <3>1
  <2>13. ASSUME NEW j \in 1..i PROVE Synced(y, o[j])
    <3>1. CASE j = i
      BY <2>6, <2>12, <3>1
    <3>2. CASE j # i
      <4>1. j \in 1..n /\ j \in 1..N
        BY <1>2, <2>2, <2>4, <3>2
      <4>2. o[j] \in Keys \ {k}
        BY <1>2, <2>4, <2>6, <3>2, <4>1
      <4>3. Synced(z, o[j]) /\ y[o[j]] = z[o[j]]
        BY <2>10, <2>11, <4>1, <4>2
      <4> QED BY <4>3
    <3> QED BY <3>1, <3>2
  <2>14. ASSUME NEW j \in (i + 1)..N PROVE y[o[j]] = d[o[j]]
    <3>1. j \in 1..N /\ j \in (n + 1)..N /\ j # i
      BY <1>2, <2>2, <2>4
    <3>2. o[j] \in Keys \ {k}
      BY <1>2, <2>4, <2>6, <3>1
    <3> QED BY <2>10, <2>11, <3>1, <3>2
  <2> HIDE DEF Synced
  <2> QED BY <2>11, <2>13, <2>14
<1> HIDE DEF T, Done
<1>6. N \in T
  BY <1>2, <1>4, <1>5, NatInduct DEF T
<1>7. Half(x, N)
  <2> HIDE DEF Half
  <2>1. Done(N)
    BY <1>2, <1>6 DEF T
  <2> QED BY <1>3, <2>1 DEF Done
<1>8. ASSUME NEW k \in Keys
      PROVE  /\ k \in Overwritten => Covers(x[k], m[k], t)
             /\ d = Empty => Exact(x[k], m[k], k \in gone, t)
  <2>1. PICK i \in 1..N : o[i] = k
    BY <1>2
  <2>2. Synced(x, k)
    BY <1>7, <2>1
  <2>3. d = Empty => d[k] = None
    BY DEF Empty
  <2> QED BY <2>2, <2>3 DEF Exact
<1> QED BY <1>8 DEF Tracks

-----------------------------------------------------------------------------
(* Types, and what is in a stream: after a full sync, commands only.       *)

Streams == Seq(Commands \cup {SyncRefused})

LEMMA LinkFields ==
    Links = [up : BOOLEAN, to : Nodes \cup {"none"}, synced : BOOLEAN, feed : Streams]
BY DEF Links, Streams

GoodDict(d) == d \in Dicts /\ \A k \in Overwritten : d[k].ty # "list"

GoodLink(l, follower) ==
    /\ l \in Links
    /\ ~ l.up => l = NoLink
    /\ l.up => l.to \in Nodes /\ follower
    /\ ~ l.synced => l.feed \in {<<>>, <<SyncRefused>>}
    /\ l.synced => l.feed \in Seq(Sendable)

RBase ==
    /\ now \in Nat
    /\ db \in [Nodes -> Dicts] /\ \A n \in Nodes : GoodDict(db[n])
    /\ readonly \in [Nodes -> BOOLEAN]
    /\ link \in [Nodes -> Links] /\ \A n \in Nodes : GoodLink(link[n], readonly[n])
    /\ fed \in [Nodes -> BOOLEAN] /\ fresh \in [Nodes -> BOOLEAN]
    /\ lapsed \in [Nodes -> SUBSET Keys] /\ fragile \in [Nodes -> SUBSET Keys]

LEMMA BaseTyped ==
    ASSUME RBase
    PROVE  RTypeOK
<1>1. db \in [Nodes -> [Keys -> Entries]]
  BY DEF RBase, GoodDict, Dicts
<1>2. \A n \in Nodes, k \in Keys : /\ db[n][k].ty = "none" <=> db[n][k].v = <<>>
                                   /\ db[n][k].ty = "none" => db[n][k] = None
  BY DEF RBase, GoodDict, Dicts, Proper
<1>3. \A n \in Nodes : /\ ~ link[n].up => link[n] = NoLink
                       /\ link[n].up => link[n].to \in Nodes /\ readonly[n]
                       /\ ~ link[n].synced => link[n].feed \in {<<>>, <<SyncRefused>>}
  BY DEF RBase, GoodLink
<1> QED BY <1>1, <1>2, <1>3 DEF RBase, RTypeOK

LEMMA CmdsSendable == Cmds \subseteq Sendable
BY ReplAssumption DEF Sendable, Overwritten

LEMMA EmptyGood == GoodDict(Empty)
<1>1. \A k \in Overwritten : Empty[k].ty # "list"
  BY DEF Empty, None, Overwritten
<1> QED BY <1>1, EmptyDict DEF GoodDict

LEMMA ExecGood ==
    ASSUME NEW d, GoodDict(d), NEW c \in Sendable, NEW t \in Nat
    PROVE  GoodDict(Exec(d, c, t).db)
BY ExecTyped DEF GoodDict

LEMMA NoLinkGood == ASSUME NEW follower PROVE GoodLink(NoLink, follower) /\ ~ NoLink.up
<1>1. <<>> \in Streams
  BY EmptySeq DEF Streams
<1> QED BY <1>1, LinkFields DEF GoodLink, NoLink

LEMMA FreedTyped ==
    ASSUME NEW gone \in SUBSET Keys, NEW frag \in SUBSET Keys, NEW e, NEW c \in Sendable, NEW sent
    PROVE  Freed(gone, e, c, sent) \in SUBSET Keys /\ Built(frag, gone, e, c, sent) \in SUBSET Keys
<1>1. c.key \in Keys
  BY DEF Sendable, Commands
<1> QED BY <1>1 DEF Freed, Built

LEMMA SendableFeed ==
    ASSUME NEW s \in Seq(Sendable)
    PROVE  s \in Streams
<1>1. Sendable \subseteq Commands \cup {SyncRefused}
  BY DEF Sendable
<1> QED BY <1>1, SeqMonotonic DEF Streams

\* A link with another stream.
WithFeed(l, s) == [l EXCEPT !.feed = s]

LEMMA LinkFeed ==
    ASSUME NEW l \in Links, NEW s \in Streams
    PROVE  LET z == WithFeed(l, s)
           IN  z \in Links /\ z.up = l.up /\ z.to = l.to /\ z.synced = l.synced /\ z.feed = s
BY LinkFields DEF WithFeed

\* A link to a master.
LEMMA LinkToFields ==
    ASSUME NEW m \in Nodes, NEW synced \in BOOLEAN, NEW s \in Streams
    PROVE  LET z == LinkTo(m, synced, s)
           IN  z \in Links /\ z.up /\ z.to = m /\ z.synced = synced /\ z.feed = s
BY LinkFields DEF LinkTo

LEMMA OpenLinkGood ==
    ASSUME NEW m \in Nodes
    PROVE  LET z == LinkTo(m, FALSE, <<>>)
           IN  GoodLink(z, TRUE) /\ z.to = m /\ ~ z.synced
<1>1. PICK s : s = <<>>
  OBVIOUS
<1>2. s \in Streams
  BY <1>1, EmptySeq DEF Streams
<1> DEFINE z == LinkTo(m, FALSE, s)
<1>3. z \in Links /\ z.up /\ z.to = m /\ z.synced = FALSE /\ z.feed = s
  BY <1>2, LinkToFields
<1> QED BY <1>1, <1>3 DEF GoodLink

LEMMA LinkAnswered ==
    ASSUME NEW m \in Nodes, NEW s \in Seq(Sendable)
    PROVE  LET z == LinkTo(m, TRUE, s)
           IN  GoodLink(z, TRUE) /\ z.up /\ z.synced /\ z.to = m /\ z.feed = s
<1>1. s \in Streams
  BY SendableFeed
<1> DEFINE z == LinkTo(m, TRUE, s)
<1>2. z \in Links /\ z.up /\ z.to = m /\ z.synced = TRUE /\ z.feed = s
  BY <1>1, LinkToFields
<1> HIDE DEF z
<1>3. GoodLink(z, TRUE) /\ z.up /\ z.synced /\ z.to = m /\ z.feed = s
  BY <1>2 DEF GoodLink
<1> QED BY <1>3 DEF z

LEMMA LinkRefused ==
    ASSUME NEW m \in Nodes
    PROVE  LET z == LinkTo(m, FALSE, <<SyncRefused>>)
           IN  GoodLink(z, TRUE) /\ z.up /\ ~ z.synced /\ z.to = m
<1>1. PICK s : s = <<SyncRefused>>
  OBVIOUS
<1>2. s \in Streams
  BY <1>1 DEF Streams
<1> DEFINE z == LinkTo(m, FALSE, s)
<1>3. z \in Links /\ z.up /\ z.to = m /\ z.synced = FALSE /\ z.feed = s
  BY <1>2, LinkToFields
<1> QED BY <1>1, <1>3 DEF GoodLink

\* A link that has one more command coming.
Extended(l, c) == [l EXCEPT !.feed = Append(@, c)]

LEMMA LinkExtended ==
    ASSUME NEW l, NEW follower, GoodLink(l, follower), l.synced, l.up, NEW c \in Sendable
    PROVE  LET z == Extended(l, c)
           IN  /\ GoodLink(z, follower) /\ z.up /\ z.synced /\ z.to = l.to
               /\ z.feed = Append(l.feed, c)
<1>1. l \in Links /\ l.feed \in Seq(Sendable) /\ l.to \in Nodes /\ follower
  BY DEF GoodLink
<1>2. PICK s : s = Append(l.feed, c)
  OBVIOUS
<1>3. s \in Seq(Sendable)
  BY <1>1, <1>2, AppendProperties
<1>4. s \in Streams
  BY <1>3, SendableFeed
<1>5. Extended(l, c) = WithFeed(l, s)
  BY <1>2 DEF Extended, WithFeed
<1> DEFINE z == WithFeed(l, s)
<1>6. z \in Links /\ z.up = l.up /\ z.to = l.to /\ z.synced = l.synced /\ z.feed = s
  BY <1>1, <1>4, LinkFeed
<1> QED BY <1>1, <1>2, <1>3, <1>5, <1>6 DEF GoodLink

\* A link whose first command has been executed.
Advanced(l) == [l EXCEPT !.feed = Tail(@)]

LEMMA LinkAdvanced ==
    ASSUME NEW l, NEW follower, GoodLink(l, follower), l.synced, l.feed # <<>>
    PROVE  LET z == Advanced(l)
           IN  /\ GoodLink(z, follower) /\ z.up = l.up /\ z.synced /\ z.to = l.to
               /\ z.feed = Tail(l.feed)
<1>1. l \in Links /\ l.feed \in Seq(Sendable) /\ l.up
  BY DEF GoodLink, NoLink
<1>2. PICK s : s = Tail(l.feed)
  OBVIOUS
<1>3. s \in Seq(Sendable)
  BY <1>1, <1>2, HeadTailProperties
<1>4. s \in Streams
  BY <1>3, SendableFeed
<1>5. Advanced(l) = WithFeed(l, s)
  BY <1>2 DEF Advanced, WithFeed
<1> DEFINE z == WithFeed(l, s)
<1>6. z \in Links /\ z.up = l.up /\ z.to = l.to /\ z.synced = l.synced /\ z.feed = s
  BY <1>1, <1>4, LinkFeed
<1> QED BY <1>1, <1>2, <1>3, <1>5, <1>6 DEF GoodLink

LEMMA BaseInit ==
    ASSUME RInit
    PROVE  RBase
<1>1. NoLink \in Links
  BY NoLinkGood DEF GoodLink
<1>2. \A n \in Nodes : db[n] = Empty /\ link[n] = NoLink
  BY DEF RInit
<1>3. \A n \in Nodes : GoodDict(db[n]) /\ GoodLink(link[n], readonly[n])
  BY <1>2, EmptyGood, NoLinkGood
<1>4. db \in [Nodes -> Dicts] /\ link \in [Nodes -> Links]
  BY <1>1, EmptyDict DEF RInit
<1> QED BY <1>3, <1>4 DEF RInit, RBase

\* What Propagate does to one link.
LEMMA PropagateLinks ==
    ASSUME RBase, NEW n \in Nodes, NEW c \in Sendable, NEW z, z = Propagate(n, c), NEW r \in Nodes
    PROVE  /\ z \in [Nodes -> Links]
           /\ GoodLink(z[r], readonly[r])
           /\ z[r].up = link[r].up /\ z[r].synced = link[r].synced /\ z[r].to = link[r].to
           /\ z[r].feed = IF link[r].up /\ link[r].to = n /\ link[r].synced
                          THEN Append(link[r].feed, c) ELSE link[r].feed
<1>1. ASSUME NEW q \in Nodes
      PROVE  /\ GoodLink(z[q], readonly[q]) /\ z[q] \in Links
             /\ z[q].up = link[q].up /\ z[q].synced = link[q].synced /\ z[q].to = link[q].to
             /\ z[q].feed = IF link[q].up /\ link[q].to = n /\ link[q].synced
                            THEN Append(link[q].feed, c) ELSE link[q].feed
  <2>0. GoodLink(link[q], readonly[q]) /\ link[q] \in Links
        /\ link[q].up \in BOOLEAN /\ link[q].synced \in BOOLEAN
    BY DEF RBase, GoodLink, Links
  <2>1. CASE q \in Replicas(n)
    <3>1. link[q].up /\ link[q].to = n /\ link[q].synced
      BY <2>1 DEF Replicas
    <3> DEFINE w == Extended(link[q], c)
    <3>3. z[q] = w
      BY <2>1 DEF Propagate, Extended
    <3>4. GoodLink(w, readonly[q]) /\ w.up /\ w.synced /\ w.to = link[q].to
          /\ w.feed = Append(link[q].feed, c)
      BY <2>0, <3>1, LinkExtended
    <3> QED BY <2>0, <3>1, <3>3, <3>4 DEF GoodLink
  <2>2. CASE q \notin Replicas(n)
    <3>1. ~ (link[q].up /\ link[q].to = n /\ link[q].synced)
      BY <2>2 DEF Replicas
    <3>2. z[q] = link[q]
      BY <2>2 DEF Propagate
    <3> QED BY <2>0, <3>1, <3>2
  <2> QED BY <2>1, <2>2
<1>2. z = [q \in Nodes |-> z[q]]
  BY DEF Propagate
<1> QED BY <1>1, <1>2

LEMMA BaseClientCmd ==
    ASSUME RBase, NEW n \in Nodes, NEW c \in Cmds, ClientCmd(n, c)
    PROVE  RBase'
<1>1. c \in Sendable /\ now \in Nat
  BY CmdsSendable DEF RBase
<1> DEFINE out == Exec(db[n], c, now)
           e == db[n][c.key]
<1>2. GoodDict(out.db) /\ out.db \in Dicts
  <2>1. GoodDict(db[n])
    BY DEF RBase
  <2> QED BY <1>1, <2>1, ExecGood DEF GoodDict
<1>3. /\ db' = [db EXCEPT ![n] = out.db]
      /\ link' = IF out.sent THEN Propagate(n, c) ELSE link
      /\ lapsed' = [lapsed EXCEPT ![n] = Freed(@, e, c, out.sent)]
      /\ fragile' = [fragile EXCEPT ![n] = Built(@, lapsed[n], e, c, out.sent)]
      /\ UNCHANGED <<now, readonly, fed, fresh>>
  BY DEF ClientCmd
<1>4. Freed(lapsed[n], e, c, out.sent) \in SUBSET Keys
      /\ Built(fragile[n], lapsed[n], e, c, out.sent) \in SUBSET Keys
  BY <1>1, FreedTyped DEF RBase
<1> HIDE DEF out, e
<1>5. lapsed' \in [Nodes -> SUBSET Keys] /\ fragile' \in [Nodes -> SUBSET Keys]
  BY <1>3, <1>4 DEF RBase
<1>6. db' \in [Nodes -> Dicts] /\ \A r \in Nodes : GoodDict(db'[r])
  BY <1>2, <1>3 DEF RBase
<1>7. link' \in [Nodes -> Links] /\ \A r \in Nodes : GoodLink(link'[r], readonly[r])
  <2>1. CASE out.sent
    <3> DEFINE z == Propagate(n, c)
    <3>1. z \in [Nodes -> Links]
      BY <1>1, PropagateLinks
    <3>2. \A r \in Nodes : GoodLink(z[r], readonly[r])
      BY <1>1, PropagateLinks
    <3> QED BY <1>3, <2>1, <3>1, <3>2
  <2>2. CASE ~ out.sent
    BY <1>3, <2>2 DEF RBase
  <2> QED BY <2>1, <2>2
<1> QED BY <1>3, <1>5, <1>6, <1>7 DEF RBase

\* A step that changes links and roles only.
LEMMA BaseLinks ==
    ASSUME RBase, UNCHANGED <<now, db, lapsed, fragile>>,
           readonly' \in [Nodes -> BOOLEAN], link' \in [Nodes -> Links],
           \A n \in Nodes : GoodLink(link'[n], readonly'[n]),
           fed' \in [Nodes -> BOOLEAN], fresh' \in [Nodes -> BOOLEAN]
    PROVE  RBase'
BY DEF RBase

LEMMA BaseServeSync ==
    ASSUME RBase, NEW r \in Nodes, ServeSync(r)
    PROVE  RBase'
<1> DEFINE m == link[r].to
<1>1. GoodLink(link[r], readonly[r]) /\ link[r].up /\ now \in Nat
  BY DEF RBase, ServeSync
<1>2. m \in Nodes /\ readonly[r] = TRUE
  BY <1>1 DEF GoodLink, RBase
<1>3. UNCHANGED <<now, db, readonly, lapsed, fragile>>
  BY DEF ServeSync
<1>4. CASE readonly[m]
  <2> DEFINE z == LinkTo(m, FALSE, <<SyncRefused>>)
  <2>1. link' = [link EXCEPT ![r] = z] /\ UNCHANGED <<fed, fresh>>
    BY <1>4 DEF ServeSync
  <2>2. GoodLink(z, TRUE)
    BY <1>2, LinkRefused
  <2> HIDE DEF z, m
  <2>3. link' \in [Nodes -> Links] /\ \A n \in Nodes : GoodLink(link'[n], readonly[n])
    BY <1>2, <2>1, <2>2 DEF RBase, GoodLink
  <2>4. readonly' \in [Nodes -> BOOLEAN] /\ fed' \in [Nodes -> BOOLEAN] /\ fresh' \in [Nodes -> BOOLEAN]
    BY <1>3, <2>1 DEF RBase
  <2> QED BY <1>3, <2>3, <2>4, BaseLinks
<1>5. CASE ~ readonly[m]
  <2> DEFINE z == LinkTo(m, TRUE, FullSync(db[m], now))
  <2>1. /\ link' = [link EXCEPT ![r] = z]
        /\ fed' = [fed EXCEPT ![r] = TRUE]
        /\ fresh' = [fresh EXCEPT ![r] = db[r] = Empty]
    BY <1>5 DEF ServeSync
  <2>2. GoodLink(z, TRUE)
    <3>1. GoodDict(db[m])
      BY <1>2 DEF RBase
    <3>2. FullSync(db[m], now) \in Seq(Sendable)
      BY <1>1, <3>1, FullSyncTyped DEF GoodDict
    <3> QED BY <1>2, <3>2, LinkAnswered
  <2> HIDE DEF z, m
  <2>3. link' \in [Nodes -> Links] /\ \A n \in Nodes : GoodLink(link'[n], readonly[n])
    BY <1>2, <2>1, <2>2 DEF RBase, GoodLink
  <2>4. readonly' \in [Nodes -> BOOLEAN] /\ fed' \in [Nodes -> BOOLEAN] /\ fresh' \in [Nodes -> BOOLEAN]
    BY <1>3, <2>1 DEF RBase
  <2> QED BY <1>3, <2>3, <2>4, BaseLinks
<1> QED BY <1>4, <1>5

\* A stream that has commands has a full sync behind it.
LEMMA StreamSynced ==
    ASSUME NEW l, NEW follower, GoodLink(l, follower), l.up, l.feed # <<>>
    PROVE  /\ l.synced => l.feed \in Seq(Sendable) /\ Head(l.feed) \in Sendable
           /\ ~ l.synced => Head(l.feed) = SyncRefused
<1>1. l.synced => l.feed \in Seq(Sendable)
  BY DEF GoodLink
<1>2. ~ l.synced => l.feed = <<SyncRefused>>
  BY DEF GoodLink
<1>3. ASSUME l.synced PROVE Head(l.feed) \in Sendable
  <2>1. l.feed \in Seq(Sendable)
    BY <1>1, <1>3
  <2> QED BY <2>1, HeadTailProperties
<1> QED BY <1>1, <1>2, <1>3

LEMMA BaseApplyFeed ==
    ASSUME RBase, NEW r \in Nodes, ApplyFeed(r)
    PROVE  RBase'
<1> DEFINE c == Head(link[r].feed)
<1>1. GoodLink(link[r], readonly[r]) /\ link[r].up /\ link[r].feed # <<>> /\ now \in Nat
  BY DEF RBase, ApplyFeed
<1>2. UNCHANGED <<now, readonly, fed, fresh, lapsed, fragile>>
  BY DEF ApplyFeed
<1>3. CASE Parses(c)
  <2>1. link[r].synced /\ c \in Sendable
    <3>1. c # SyncRefused
      BY <1>3 DEF Parses, SyncRefused
    <3> QED BY <1>1, <3>1, StreamSynced
  <2> DEFINE z == Advanced(link[r])
             d == Exec(db[r], c, now).db
  <2>2. db' = [db EXCEPT ![r] = d] /\ link' = [link EXCEPT ![r] = z]
    BY <1>3 DEF ApplyFeed, Advanced, RBase
  <2>3. GoodLink(z, readonly[r])
    BY <1>1, <2>1, LinkAdvanced
  <2>4. GoodDict(d)
    <3>1. GoodDict(db[r])
      BY DEF RBase
    <3> QED BY <1>1, <2>1, <3>1, ExecGood
  <2> HIDE DEF c, z, d
  <2>5. link' \in [Nodes -> Links] /\ \A n \in Nodes : GoodLink(link'[n], readonly[n])
    BY <2>2, <2>3 DEF RBase, GoodLink
  <2>6. db' \in [Nodes -> Dicts] /\ \A n \in Nodes : GoodDict(db'[n])
    BY <2>2, <2>4 DEF RBase, GoodDict
  <2> QED BY <1>2, <2>5, <2>6 DEF RBase
<1>4. CASE ~ Parses(c)
  <2>1. link' = [link EXCEPT ![r] = NoLink] /\ UNCHANGED db
    BY <1>4 DEF ApplyFeed
  <2>2. link' \in [Nodes -> Links] /\ \A n \in Nodes : GoodLink(link'[n], readonly[n])
    BY <2>1, NoLinkGood DEF RBase, GoodLink
  <2> QED BY <1>2, <2>1, <2>2 DEF RBase
<1> QED BY <1>3, <1>4

LEMMA BaseRoles ==
    ASSUME RBase, NEW n \in Nodes,
           \/ \E m \in Nodes : ReplicaOf(n, m)
           \/ ReplicaOfFails(n) \/ ReplicaOfNoOne(n) \/ LoseLink(n)
    PROVE  RBase'
<1>1. ASSUME NEW m \in Nodes, ReplicaOf(n, m) PROVE RBase'
  <2> DEFINE z == LinkTo(m, FALSE, <<>>)
  <2>1. /\ link' = [link EXCEPT ![n] = z]
        /\ readonly' = [readonly EXCEPT ![n] = TRUE]
        /\ fed' = StillFed(n)
        /\ UNCHANGED <<now, db, fresh, lapsed, fragile>>
    BY <1>1 DEF ReplicaOf
  <2>2. GoodLink(z, TRUE)
    BY OpenLinkGood
  <2> HIDE DEF z
  <2>3. link' \in [Nodes -> Links] /\ \A q \in Nodes : GoodLink(link'[q], readonly'[q])
    BY <2>1, <2>2 DEF RBase, GoodLink
  <2>4. readonly' \in [Nodes -> BOOLEAN] /\ fed' \in [Nodes -> BOOLEAN] /\ fresh' \in [Nodes -> BOOLEAN]
    BY <2>1 DEF RBase, StillFed
  <2> QED BY <2>1, <2>3, <2>4, BaseLinks
<1>2. ASSUME ReplicaOfFails(n) \/ ReplicaOfNoOne(n) \/ LoseLink(n) PROVE RBase'
  <2>1. /\ link' = [link EXCEPT ![n] = NoLink]
        /\ readonly' = readonly \/ readonly' = [readonly EXCEPT ![n] = FALSE]
        /\ UNCHANGED <<now, db, fed, fresh, lapsed, fragile>>
    BY <1>2 DEF ReplicaOfFails, ReplicaOfNoOne, LoseLink
  <2>2. readonly' \in [Nodes -> BOOLEAN] /\ \A q \in Nodes \ {n} : readonly'[q] = readonly[q]
    BY <2>1 DEF RBase
  <2>3. link' \in [Nodes -> Links] /\ \A q \in Nodes : GoodLink(link'[q], readonly'[q])
    <3>1. \A q \in Nodes \ {n} : link'[q] = link[q] /\ readonly'[q] = readonly[q]
      BY <2>1, <2>2 DEF RBase
    <3>2. link'[n] = NoLink
      BY <2>1 DEF RBase
    <3>3. \A q \in Nodes : GoodLink(link'[q], readonly'[q])
      BY <3>1, <3>2, NoLinkGood DEF RBase
    <3> QED BY <2>1, <3>3, NoLinkGood DEF RBase, GoodLink
  <2>4. fed' \in [Nodes -> BOOLEAN] /\ fresh' \in [Nodes -> BOOLEAN]
    BY <2>1 DEF RBase
  <2> QED BY <2>1, <2>2, <2>3, <2>4, BaseLinks
<1> QED BY <1>1, <1>2

LEMMA BaseRestart ==
    ASSUME RBase, NEW n \in Nodes, Restart(n)
    PROVE  RBase'
<1>1. /\ db' = [db EXCEPT ![n] = Empty]
      /\ readonly' = [readonly EXCEPT ![n] = FALSE]
      /\ link' = [r \in Nodes |-> IF r = n \/ link[r].to = n THEN NoLink ELSE link[r]]
      /\ UNCHANGED <<now, fed, fresh, lapsed, fragile>>
  BY DEF Restart
<1>2. db' \in [Nodes -> Dicts] /\ \A q \in Nodes : GoodDict(db'[q])
  BY <1>1, EmptyGood DEF RBase, GoodDict
<1>3. readonly' \in [Nodes -> BOOLEAN] /\ \A q \in Nodes \ {n} : readonly'[q] = readonly[q]
  BY <1>1 DEF RBase
<1>4. \A q \in Nodes : GoodLink(link'[q], readonly'[q])
  <2> TAKE q \in Nodes
  <2>1. link'[q] = NoLink \/ (q # n /\ link'[q] = link[q])
    BY <1>1
  <2> QED BY <1>3, <2>1, NoLinkGood DEF RBase
<1>5. link' \in [Nodes -> Links]
  <2>1. \A q \in Nodes : link'[q] \in Links
    BY <1>4 DEF GoodLink
  <2> QED BY <1>1, <2>1
<1> QED BY <1>1, <1>2, <1>3, <1>4, <1>5 DEF RBase

\* An entry is freed.
LEMMA PurgeGood ==
    ASSUME NEW d, GoodDict(d), NEW k \in Keys
    PROVE  GoodDict([d EXCEPT ![k] = None])
<1>1. /\ d \in [Keys -> Entries] /\ Proper(d)
      /\ \A j \in Overwritten : d[j].ty # "list"
      /\ Overwritten \subseteq Keys
  BY DEF GoodDict, Dicts, Overwritten
<1> DEFINE z == [d EXCEPT ![k] = None]
<1>2. z \in [Keys -> Entries] /\ z[k] = None /\ \A j \in Keys \ {k} : z[j] = d[j]
  BY <1>1, NoneEntry
<1>3. None.ty = "none" /\ None.v = <<>>
  BY DEF None
<1> HIDE DEF z
<1>4. Proper(z) /\ \A j \in Overwritten : z[j].ty # "list"
  BY <1>1, <1>2, <1>3 DEF Proper
<1> QED BY <1>2, <1>4 DEF GoodDict, Dicts, z

LEMMA BasePurge ==
    ASSUME RBase, NEW n \in Nodes, NEW k \in Keys, Purge(n, k)
    PROVE  RBase'
<1> DEFINE z == [db[n] EXCEPT ![k] = None]
<1>1. /\ db' = [db EXCEPT ![n] = z]
      /\ lapsed' = [lapsed EXCEPT ![n] = @ \cup {k}]
      /\ UNCHANGED <<now, readonly, link, fed, fresh, fragile>>
  BY DEF Purge
<1>2. GoodDict(z)
  BY PurgeGood DEF RBase
<1> HIDE DEF z
<1>3. db' \in [Nodes -> Dicts] /\ \A q \in Nodes : GoodDict(db'[q])
  BY <1>1, <1>2 DEF RBase, GoodDict
<1>4. lapsed' \in [Nodes -> SUBSET Keys]
  BY <1>1 DEF RBase
<1> QED BY <1>1, <1>3, <1>4 DEF RBase

LEMMA BaseStep ==
    ASSUME RBase, [RNext]_rvars
    PROVE  RBase'
<1>1. CASE UNCHANGED rvars
  BY <1>1 DEF rvars, RBase
<1>2. CASE Tick
  BY <1>2 DEF Tick, RBase
<1>3. ASSUME NEW n \in Nodes, NEW k \in Keys, Purge(n, k) PROVE RBase'
  BY <1>3, BasePurge
<1>4. ASSUME NEW n \in Nodes, NEW c \in Cmds, ClientCmd(n, c) PROVE RBase'
  BY <1>4, BaseClientCmd
<1>5. ASSUME NEW n \in Nodes, NEW m \in Nodes, ReplicaOf(n, m) PROVE RBase'
  BY <1>5, BaseRoles
<1>6. ASSUME NEW n \in Nodes, ReplicaOfFails(n) \/ ReplicaOfNoOne(n) \/ LoseLink(n) PROVE RBase'
  BY <1>6, BaseRoles
<1>7. ASSUME NEW n \in Nodes, ServeSync(n) PROVE RBase'
  BY <1>7, BaseServeSync
<1>8. ASSUME NEW n \in Nodes, ApplyFeed(n) PROVE RBase'
  BY <1>8, BaseApplyFeed
<1>9. ASSUME NEW n \in Nodes, Restart(n) PROVE RBase'
  BY <1>9, BaseRestart
<1> QED BY <1>1, <1>2, <1>3, <1>4, <1>5, <1>6, <1>7, <1>8, <1>9 DEF RNext

LEMMA BaseAlways == RSpec => []RBase
<1>1. RInit => RBase
  BY BaseInit
<1>2. RBase /\ [RNext]_rvars => RBase'
  BY BaseStep
<1> QED BY <1>1, <1>2, PTL DEF RSpec

\* Dictionaries, roles, links and streams have their types: an emptied list is
\* no entry, a follower's link alone leads to a master, and commands come only
\* after a full sync (repl_fullsync, repl_propagate, REPLICAOF).
THEOREM ReplicationTyped == RSpec => []RTypeOK
<1>1. RBase => RTypeOK
  BY BaseTyped
<1> QED BY <1>1, BaseAlways, PTL

-----------------------------------------------------------------------------
(* A replica with its stream follows its master, however long the stream   *)
(* takes: every run of the stream ends in a dictionary that tracks the     *)
(* master's.                                                               *)

FollowsIn(d, s, m, gone, frag, whole, t) ==
    \A x \in Reach(d, s, t) : Tracks(x, m, gone, frag, whole, t)

LEMMA FollowsLater ==
    ASSUME NEW d, NEW s, NEW m \in Dicts, NEW gone, NEW frag, NEW whole, NEW t \in Nat,
           FollowsIn(d, s, m, gone, frag, whole, t)
    PROVE  FollowsIn(d, s, m, gone, frag, whole, t + 1)
<1>1. SUFFICES ASSUME NEW x \in Reach(d, s, t + 1) PROVE Tracks(x, m, gone, frag, whole, t + 1)
  BY DEF FollowsIn
<1>2. x \in Reach(d, s, t) /\ x \in Dicts
  <2>1. PICK w \in Nat : w = t + 1
    OBVIOUS
  <2>2. Reach(d, s, w) \subseteq Reach(d, s, t)
    BY <2>1, ReachLater
  <2> QED BY <2>1, <2>2 DEF Reach
<1>3. Tracks(x, m, gone, frag, whole, t)
  BY <1>2 DEF FollowsIn
<1> QED BY <1>2, <1>3, TracksLater

LEMMA FollowsSync ==
    ASSUME NEW d \in Dicts, NEW m, GoodDict(m), NEW gone, NEW frag, NEW t \in Nat
    PROVE  FollowsIn(d, FullSync(m, t), m, gone, frag, d = Empty, t)
BY FullSyncTracks DEF FollowsIn, GoodDict

LEMMA FollowsSent ==
    ASSUME NEW d \in Dicts, NEW s \in Seq(Sendable), NEW m \in Dicts, NEW gone, NEW frag,
           NEW whole, now \in Nat, FollowsIn(d, s, m, gone, frag, whole, now),
           NEW c \in Sendable, Exec(m, c, now).sent
    PROVE  FollowsIn(d, Append(s, c), Exec(m, c, now).db, Freed(gone, m[c.key], c, TRUE),
                     Built(frag, gone, m[c.key], c, TRUE), whole, now)
<1> DEFINE n == Exec(m, c, now).db
           F == Freed(gone, m[c.key], c, TRUE)
           B == Built(frag, gone, m[c.key], c, TRUE)
<1>1. SUFFICES ASSUME NEW x \in Reach(d, Append(s, c), now) PROVE Tracks(x, n, F, B, whole, now)
  BY DEF FollowsIn
<1>2. <<c>> \in Seq(Sendable) /\ Append(s, c) = s \o <<c>>
  OBVIOUS
<1>3. PICK y \in Reach(d, s, now) : x \in Reach(y, <<c>>, now)
  <2>1. PICK w \in Seq(Sendable) : w = <<c>>
    BY <1>2
  <2>2. x \in Reach(d, s \o w, now)
    BY <1>1, <1>2, <2>1
  <2>3. \E y \in Reach(d, s, now) : x \in Reach(y, w, now)
    BY <2>2, ReachSplit, Zenon
  <2> QED BY <2>1, <2>3
<1>4. PICK u \in Nat : u >= now /\ x = Exec(y, c, u).db
  BY <1>3, ReachOne
<1>5. y \in Dicts /\ Tracks(y, m, gone, frag, whole, now)
  BY DEF FollowsIn, Reach
<1> QED BY <1>4, <1>5, TracksSent

LEMMA FollowsUnsent ==
    ASSUME NEW d, NEW s, NEW m \in Dicts, NEW gone, NEW frag,
           NEW whole, now \in Nat, FollowsIn(d, s, m, gone, frag, whole, now),
           NEW c \in Sendable, Exec(m, c, now).sent = FALSE
    PROVE  FollowsIn(d, s, Exec(m, c, now).db, Freed(gone, m[c.key], c, FALSE),
                     Built(frag, gone, m[c.key], c, FALSE), whole, now)
BY TracksUnsent DEF FollowsIn

LEMMA FollowsApplied ==
    ASSUME NEW d \in Dicts, NEW s \in Seq(Sendable), s # <<>>, NEW m, NEW gone, NEW frag,
           NEW whole, NEW t \in Nat, FollowsIn(d, s, m, gone, frag, whole, t)
    PROVE  FollowsIn(Exec(d, Head(s), t).db, Tail(s), m, gone, frag, whole, t)
<1>1. Head(s) \in Sendable
  BY HeadTailProperties
<1>2. Exec(d, Head(s), t).db \in Dicts
  BY <1>1, ExecTyped
<1>3. t >= t
  OBVIOUS
<1>4. Reach(Exec(d, Head(s), t).db, Tail(s), t) \subseteq Reach(d, s, t)
  BY <1>2, <1>3, ReachAfter
<1> QED BY <1>4 DEF FollowsIn

\* The replica frees a due entry; the master does.
LEMMA FollowsPurged ==
    ASSUME NEW d \in Dicts, NEW s \in Seq(Sendable), NEW m \in Dicts, NEW gone, NEW frag,
           NEW whole, NEW t \in Nat, FollowsIn(d, s, m, gone, frag, whole, t),
           NEW k \in Keys, NEW e, e = [d EXCEPT ![k] = None], e \in Dicts, Due(d[k], t)
    PROVE  FollowsIn(e, s, m, gone, frag, whole, t)
<1>1. Alike(e, d, k, t)
  BY DEF Alike, Dicts
<1>2. SUFFICES ASSUME NEW y \in Reach(e, s, t) PROVE Tracks(y, m, gone, frag, whole, t)
  BY DEF FollowsIn
<1>3. PICK x \in Reach(d, s, t) : Alike(y, x, k, t)
  BY <1>1, ReachPurged
<1>4. x \in Dicts /\ y \in Dicts /\ Tracks(x, m, gone, frag, whole, t)
  BY DEF FollowsIn, Reach
<1> QED BY <1>3, <1>4, TracksAlike

LEMMA FollowsMaster ==
    ASSUME NEW d, NEW s, NEW m \in Dicts, NEW gone, NEW frag,
           NEW whole, NEW t \in Nat, FollowsIn(d, s, m, gone, frag, whole, t),
           NEW k \in Keys, NEW n, n = [m EXCEPT ![k] = None], Due(m[k], t)
    PROVE  FollowsIn(d, s, n, gone \cup {k}, frag, whole, t)
<1>1. n[k] = None /\ \A j \in Keys \ {k} : n[j] = m[j]
  BY DEF Dicts
<1> QED BY <1>1, TracksPurged DEF FollowsIn

-----------------------------------------------------------------------------
(* The inductive invariant: where a link has a full sync behind it and its *)
(* master has been taking writes of clients only, the master is none's     *)
(* replica, and the replica follows it.                                    *)

Live(r) == link[r].up /\ link[r].synced /\ fed[r]

Follows(r, m) == FollowsIn(db[r], link[r].feed, db[m], lapsed[m], fragile[m], fresh[r], now)

RInv ==
    /\ RBase
    /\ \A r \in Nodes : Live(r) => ~ readonly[link[r].to] /\ Follows(r, link[r].to)

LEMMA LiveLink ==
    ASSUME RInv, NEW r \in Nodes, link[r].up, link[r].synced
    PROVE  /\ link[r].to \in Nodes /\ readonly[r] /\ link[r].feed \in Seq(Sendable)
           /\ db[r] \in Dicts /\ db[link[r].to] \in Dicts
           /\ fed[r] => ~ readonly[link[r].to] /\ link[r].to # r
<1>1. GoodLink(link[r], readonly[r])
  BY DEF RInv, RBase
<1>2. link[r].to \in Nodes /\ readonly[r] /\ link[r].feed \in Seq(Sendable)
  BY <1>1 DEF GoodLink
<1>3. fed[r] => ~ readonly[link[r].to]
  BY DEF RInv, Live
<1> QED BY <1>2, <1>3 DEF RInv, RBase

\* A link is kept as it is, together with both of its ends.
LEMMA FollowsKept ==
    ASSUME RInv, NEW r \in Nodes, Live(r), NEW m, m = link[r].to,
           db'[r] = db[r], link'[r] = link[r], db'[m] = db[m], lapsed'[m] = lapsed[m],
           fragile'[m] = fragile[m], fresh'[r] = fresh[r], readonly'[m] = readonly[m], now' = now
    PROVE  ~ readonly'[link'[r].to] /\ Follows(r, link[r].to)'
BY DEF RInv, Follows

LEMMA RInvClientCmd ==
    ASSUME RInv, NEW n \in Nodes, NEW c \in Cmds, ClientCmd(n, c), RBase'
    PROVE  RInv'
<1>1. c \in Sendable /\ now \in Nat /\ ~ readonly[n]
  BY CmdsSendable DEF RInv, RBase, ClientCmd
<1> DEFINE out == Exec(db[n], c, now)
           e == db[n][c.key]
<1>2. /\ db' = [db EXCEPT ![n] = out.db]
      /\ link' = IF out.sent THEN Propagate(n, c) ELSE link
      /\ lapsed' = [lapsed EXCEPT ![n] = Freed(@, e, c, out.sent)]
      /\ fragile' = [fragile EXCEPT ![n] = Built(@, lapsed[n], e, c, out.sent)]
      /\ UNCHANGED <<now, readonly, fed, fresh>>
  BY DEF ClientCmd
<1>2a. out.sent \in BOOLEAN
  <2>1. db[n] \in Dicts
    BY DEF RInv, RBase
  <2> QED BY <1>1, <2>1, ExecTyped
<1>3. SUFFICES ASSUME NEW r \in Nodes, Live(r)'
               PROVE  ~ readonly'[link'[r].to] /\ Follows(r, link[r].to)'
  BY DEF RInv
<1>4. /\ link'[r].up = link[r].up /\ link'[r].synced = link[r].synced /\ link'[r].to = link[r].to
      /\ link'[r].feed = IF out.sent /\ link[r].up /\ link[r].to = n /\ link[r].synced
                         THEN Append(link[r].feed, c) ELSE link[r].feed
  <2>1. CASE out.sent
    <3> DEFINE z == Propagate(n, c)
    <3>1. /\ z[r].up = link[r].up /\ z[r].synced = link[r].synced /\ z[r].to = link[r].to
          /\ z[r].feed = IF link[r].up /\ link[r].to = n /\ link[r].synced
                         THEN Append(link[r].feed, c) ELSE link[r].feed
      BY <1>1, PropagateLinks DEF RInv
    <3>2. link' = z
      BY <1>2, <2>1
    <3> HIDE DEF z, out
    <3> QED BY <2>1, <3>1, <3>2
  <2>2. CASE ~ out.sent
    BY <1>2, <2>2
  <2> QED BY <2>1, <2>2
<1> DEFINE m == link[r].to
<1>5. link[r].up /\ link[r].synced /\ fed[r] /\ Live(r)
  BY <1>2, <1>3, <1>4 DEF Live
<1>6. /\ m \in Nodes /\ readonly[r] /\ link[r].feed \in Seq(Sendable)
      /\ db[r] \in Dicts /\ db[m] \in Dicts /\ ~ readonly[m] /\ m # r
  BY <1>5, LiveLink
<1>7. FollowsIn(db[r], link[r].feed, db[m], lapsed[m], fragile[m], fresh[r], now)
  BY <1>5 DEF RInv, Follows
<1>8. r # n /\ db'[r] = db[r] /\ fresh'[r] = fresh[r] /\ now' = now
  BY <1>1, <1>2, <1>6 DEF RInv, RBase
<1>9. CASE m # n
  <2>1. db'[m] = db[m] /\ lapsed'[m] = lapsed[m] /\ fragile'[m] = fragile[m]
    BY <1>2, <1>6, <1>9 DEF RInv, RBase
  <2>2. link'[r].feed = link[r].feed
    BY <1>4, <1>9
  <2> HIDE DEF out, e
  <2> QED BY <1>2, <1>4, <1>6, <1>7, <1>8, <2>1, <2>2 DEF Follows
<1>10. CASE m = n
  <2>1. /\ db'[n] = out.db
        /\ lapsed'[n] = Freed(lapsed[n], e, c, out.sent)
        /\ fragile'[n] = Built(fragile[n], lapsed[n], e, c, out.sent)
    BY <1>2 DEF RInv, RBase
  <2>2. CASE out.sent
    <3>1. out.sent = TRUE
      BY <1>2a, <2>2
    <3>2. FollowsIn(db[r], Append(link[r].feed, c), out.db, Freed(lapsed[n], e, c, TRUE),
                    Built(fragile[n], lapsed[n], e, c, TRUE), fresh[r], now)
      BY <1>1, <1>6, <1>7, <1>10, <2>2, FollowsSent
    <3>3. link'[r].feed = Append(link[r].feed, c)
      BY <1>4, <1>5, <1>10, <2>2
    <3> HIDE DEF out, e
    <3>4. FollowsIn(db'[r], link'[r].feed, db'[n], lapsed'[n], fragile'[n], fresh'[r], now')
      BY <1>8, <2>1, <3>1, <3>2, <3>3
    <3> QED BY <1>2, <1>4, <1>6, <1>10, <3>4 DEF Follows
  <2>3. CASE ~ out.sent
    <3>1. out.sent = FALSE
      BY <1>2a, <2>3
    <3>2. FollowsIn(db[r], link[r].feed, out.db, Freed(lapsed[n], e, c, FALSE),
                    Built(fragile[n], lapsed[n], e, c, FALSE), fresh[r], now)
      BY <1>1, <1>6, <1>7, <1>10, <3>1, FollowsUnsent
    <3>3. link'[r].feed = link[r].feed
      BY <1>4, <2>3
    <3> HIDE DEF out, e
    <3>4. FollowsIn(db'[r], link'[r].feed, db'[n], lapsed'[n], fragile'[n], fresh'[r], now')
      BY <1>8, <2>1, <3>1, <3>2, <3>3
    <3> QED BY <1>2, <1>4, <1>6, <1>10, <3>4 DEF Follows
  <2> QED BY <2>2, <2>3
<1> QED BY <1>9, <1>10

LEMMA RInvServeSync ==
    ASSUME RInv, NEW q \in Nodes, ServeSync(q), RBase'
    PROVE  RInv'
<1> DEFINE m == link[q].to
<1>1. GoodLink(link[q], readonly[q]) /\ link[q].up /\ now \in Nat
  BY DEF RInv, RBase, ServeSync
<1>2. m \in Nodes /\ link \in [Nodes -> Links]
  BY <1>1 DEF GoodLink, RInv, RBase
<1>3. UNCHANGED <<now, db, readonly, lapsed, fragile>>
  BY DEF ServeSync
<1>4. SUFFICES ASSUME NEW r \in Nodes, Live(r)'
               PROVE  ~ readonly'[link'[r].to] /\ Follows(r, link[r].to)'
  BY DEF RInv
<1>5. CASE r # q
  <2>1. link'[r] = link[r] /\ fed'[r] = fed[r] /\ fresh'[r] = fresh[r]
    <3>1. CASE readonly[m]
      <4>1. link' = [link EXCEPT ![q] = LinkTo(m, FALSE, <<SyncRefused>>)]
            /\ UNCHANGED <<fed, fresh>>
        BY <3>1 DEF ServeSync
      <4> HIDE DEF m
      <4> QED BY <1>2, <1>5, <4>1
    <3>2. CASE ~ readonly[m]
      <4> DEFINE z == LinkTo(m, TRUE, FullSync(db[m], now))
      <4>1. /\ link' = [link EXCEPT ![q] = z]
            /\ fed' = [fed EXCEPT ![q] = TRUE]
            /\ fresh' = [fresh EXCEPT ![q] = db[q] = Empty]
        BY <3>2 DEF ServeSync
      <4> HIDE DEF z
      <4> QED BY <1>2, <1>5, <4>1 DEF RInv, RBase
    <3> QED BY <3>1, <3>2
  <2>2. Live(r)
    BY <1>4, <2>1 DEF Live
  <2> QED BY <1>3, <2>1, <2>2, FollowsKept
<1>6. CASE r = q
  <2>1. ~ readonly[m]
    <3>1. SUFFICES ASSUME readonly[m] PROVE FALSE
      OBVIOUS
    <3>2. link'[q] = LinkTo(m, FALSE, <<SyncRefused>>)
      BY <1>2, <3>1 DEF ServeSync
    <3> QED BY <1>4, <1>6, <3>2 DEF Live, LinkTo
  <2> DEFINE f == FullSync(db[m], now)
  <2>2. /\ link'[q] = LinkTo(m, TRUE, f)
        /\ fresh'[q] = (db[q] = Empty)
    BY <1>2, <2>1 DEF ServeSync, RInv, RBase
  <2>3. GoodDict(db[m]) /\ db[q] \in Dicts
    BY <1>2 DEF RInv, RBase
  <2>4. FollowsIn(db[q], f, db[m], lapsed[m], fragile[m], db[q] = Empty, now)
    BY <1>1, <2>3, FollowsSync
  <2> HIDE DEF f, m
  <2>5. link'[q].to = m /\ link'[q].feed = f
    BY <2>2 DEF LinkTo
  <2>6. FollowsIn(db'[q], link'[q].feed, db'[m], lapsed'[m], fragile'[m], fresh'[q], now')
    BY <1>3, <2>2, <2>4, <2>5
  <2> QED BY <1>3, <1>6, <2>1, <2>5, <2>6 DEF Follows
<1> QED BY <1>5, <1>6

LEMMA RInvApplyFeed ==
    ASSUME RInv, NEW q \in Nodes, ApplyFeed(q), RBase'
    PROVE  RInv'
<1> DEFINE c == Head(link[q].feed)
<1>1. /\ GoodLink(link[q], readonly[q]) /\ link[q].up /\ link[q].feed # <<>>
      /\ link \in [Nodes -> Links] /\ now \in Nat
  BY DEF RInv, RBase, ApplyFeed
<1>2. UNCHANGED <<now, readonly, fed, fresh, lapsed, fragile>> /\ readonly[q]
  BY <1>1 DEF ApplyFeed, GoodLink
<1>3. SUFFICES ASSUME NEW r \in Nodes, Live(r)'
               PROVE  ~ readonly'[link'[r].to] /\ Follows(r, link[r].to)'
  BY DEF RInv
<1>4. CASE r # q
  <2>1. link'[r] = link[r] /\ db'[r] = db[r]
    BY <1>1, <1>4 DEF ApplyFeed, RInv, RBase
  <2>2. Live(r)
    BY <1>2, <1>3, <2>1 DEF Live
  <2> DEFINE m == link[r].to
  <2>3. m \in Nodes /\ m # q
    BY <1>2, <2>2, LiveLink DEF Live
  <2>4. db'[m] = db[m]
    BY <2>3 DEF ApplyFeed, RInv, RBase
  <2> HIDE DEF m
  <2> QED BY <1>2, <2>1, <2>2, <2>4, FollowsKept DEF m
<1>5. CASE r = q
  <2>1. Parses(c)
    <3>1. SUFFICES ASSUME ~ Parses(c) PROVE FALSE
      OBVIOUS
    <3>2. link'[q] = NoLink
      BY <1>1, <3>1 DEF ApplyFeed
    <3> QED BY <1>3, <1>5, <3>2 DEF Live, NoLink
  <2>2. link[q].synced
    <3>1. c # SyncRefused
      BY <2>1 DEF Parses, SyncRefused
    <3> QED BY <1>1, <3>1, StreamSynced
  <2>3. link'[q] = Advanced(link[q]) /\ db'[q] = Exec(db[q], c, now).db
        /\ \A j \in Nodes \ {q} : db'[j] = db[j]
    BY <1>1, <2>1 DEF ApplyFeed, Advanced, RInv, RBase
  <2>4. link'[q].to = link[q].to /\ link'[q].feed = Tail(link[q].feed)
    BY <1>1, <2>2, <2>3, LinkAdvanced
  <2> DEFINE m == link[q].to
  <2>5. Live(q)
    BY <1>1, <1>2, <1>3, <1>5, <2>2 DEF Live
  <2>6. m \in Nodes /\ m # q /\ ~ readonly[m] /\ link[q].feed \in Seq(Sendable)
        /\ db[q] \in Dicts /\ db[m] \in Dicts
    BY <2>5, LiveLink DEF Live
  <2>7. FollowsIn(db[q], link[q].feed, db[m], lapsed[m], fragile[m], fresh[q], now)
    BY <2>5 DEF RInv, Follows
  <2>8. FollowsIn(Exec(db[q], c, now).db, Tail(link[q].feed), db[m], lapsed[m], fragile[m], fresh[q], now)
    BY <1>1, <2>6, <2>7, FollowsApplied
  <2>9. db'[m] = db[m]
    BY <2>3, <2>6
  <2> HIDE DEF m, c
  <2>10. FollowsIn(db'[q], link'[q].feed, db'[m], lapsed'[m], fragile'[m], fresh'[q], now')
    BY <1>2, <2>3, <2>4, <2>8, <2>9
  <2> QED BY <1>2, <1>5, <2>4, <2>6, <2>10 DEF Follows, m
<1> QED BY <1>4, <1>5

LEMMA RInvRoles ==
    ASSUME RInv, NEW n \in Nodes, RBase',
           \/ \E m \in Nodes : ReplicaOf(n, m)
           \/ ReplicaOfFails(n) \/ ReplicaOfNoOne(n) \/ LoseLink(n)
    PROVE  RInv'
<1>1. UNCHANGED <<now, db, fresh, lapsed, fragile>>
  BY DEF ReplicaOf, ReplicaOfFails, ReplicaOfNoOne, LoseLink
<1>2. SUFFICES ASSUME NEW r \in Nodes, Live(r)'
               PROVE  ~ readonly'[link'[r].to] /\ Follows(r, link[r].to)'
  BY DEF RInv
<1>3. SUFFICES /\ Live(r) /\ link'[r] = link[r]
               /\ readonly'[link[r].to] = readonly[link[r].to]
  BY <1>1, FollowsKept
<1>4. ASSUME NEW m \in Nodes, ReplicaOf(n, m)
      PROVE  /\ Live(r) /\ link'[r] = link[r]
             /\ readonly'[link[r].to] = readonly[link[r].to]
  <2>1. fed'[r] /\ fed' = StillFed(n)
    BY <1>2, <1>4 DEF Live, ReplicaOf
  <2>2. fed[r] /\ link[r].to # n /\ r # n
    BY <2>1 DEF StillFed
  <2>3. link'[r] = link[r]
    BY <1>4, <2>2 DEF ReplicaOf, RInv, RBase
  <2>4. Live(r)
    BY <1>2, <2>2, <2>3 DEF Live
  <2>5. link[r].to \in Nodes
    BY <2>4, LiveLink DEF Live
  <2>6. readonly'[link[r].to] = readonly[link[r].to]
    BY <1>4, <2>2, <2>5 DEF ReplicaOf, RInv, RBase
  <2> QED BY <2>3, <2>4, <2>6
<1>5. ASSUME ReplicaOfFails(n) \/ ReplicaOfNoOne(n) \/ LoseLink(n)
      PROVE  /\ Live(r) /\ link'[r] = link[r]
             /\ readonly'[link[r].to] = readonly[link[r].to]
  <2>1. /\ link' = [link EXCEPT ![n] = NoLink] /\ UNCHANGED fed
        /\ readonly' = readonly \/ (readonly' = [readonly EXCEPT ![n] = FALSE] /\ readonly[n])
    BY <1>5 DEF ReplicaOfFails, ReplicaOfNoOne, LoseLink
  <2>2. r # n
    <3>1. link'[n] = NoLink
      BY <2>1 DEF RInv, RBase
    <3> QED BY <1>2, <3>1 DEF Live, NoLink
  <2>3. link'[r] = link[r]
    BY <2>1, <2>2 DEF RInv, RBase
  <2>4. Live(r)
    BY <1>2, <2>1, <2>3 DEF Live
  <2>5. link[r].to \in Nodes /\ ~ readonly[link[r].to]
    BY <2>4, LiveLink DEF Live
  <2>6. readonly'[link[r].to] = readonly[link[r].to]
    BY <2>1, <2>5 DEF RInv, RBase
  <2> QED BY <2>3, <2>4, <2>6
<1> QED BY <1>4, <1>5

LEMMA RInvRestart ==
    ASSUME RInv, NEW n \in Nodes, RBase', Restart(n)
    PROVE  RInv'
<1>1. /\ db' = [db EXCEPT ![n] = Empty]
      /\ readonly' = [readonly EXCEPT ![n] = FALSE]
      /\ link' = [r \in Nodes |-> IF r = n \/ link[r].to = n THEN NoLink ELSE link[r]]
      /\ UNCHANGED <<now, fed, fresh, lapsed, fragile>>
  BY DEF Restart
<1>2. SUFFICES ASSUME NEW r \in Nodes, Live(r)'
               PROVE  ~ readonly'[link'[r].to] /\ Follows(r, link[r].to)'
  BY DEF RInv
<1>3. r # n /\ link[r].to # n /\ link'[r] = link[r]
  BY <1>1, <1>2 DEF Live, NoLink
<1>4. Live(r)
  BY <1>1, <1>2, <1>3 DEF Live
<1>5. link[r].to \in Nodes
  BY <1>4, LiveLink DEF Live
<1> DEFINE m == link[r].to
<1>6. db'[r] = db[r] /\ db'[m] = db[m] /\ readonly'[m] = readonly[m]
  BY <1>1, <1>3, <1>5 DEF RInv, RBase
<1> HIDE DEF m
<1> QED BY <1>1, <1>3, <1>4, <1>6, FollowsKept DEF m

LEMMA RInvPurge ==
    ASSUME RInv, NEW n \in Nodes, NEW k \in Keys, RBase', Purge(n, k)
    PROVE  RInv'
<1> DEFINE z == [db[n] EXCEPT ![k] = None]
<1>1. /\ Due(db[n][k], now)
      /\ db' = [db EXCEPT ![n] = z]
      /\ lapsed' = [lapsed EXCEPT ![n] = @ \cup {k}]
      /\ UNCHANGED <<now, readonly, link, fed, fresh, fragile>>
  BY DEF Purge
<1>2. db[n] \in Dicts /\ z \in Dicts /\ now \in Nat
  BY PurgeGood DEF RInv, RBase, GoodDict
<1>3. SUFFICES ASSUME NEW r \in Nodes, Live(r)'
               PROVE  ~ readonly'[link'[r].to] /\ Follows(r, link[r].to)'
  BY DEF RInv
<1>4. Live(r)
  BY <1>1, <1>3 DEF Live
<1> DEFINE m == link[r].to
<1>5. /\ m \in Nodes /\ m # r /\ ~ readonly[m] /\ link[r].feed \in Seq(Sendable)
      /\ db[r] \in Dicts /\ db[m] \in Dicts
  BY <1>4, LiveLink DEF Live
<1>6. FollowsIn(db[r], link[r].feed, db[m], lapsed[m], fragile[m], fresh[r], now)
  BY <1>4 DEF RInv, Follows
<1>7. /\ db'[n] = z /\ \A j \in Nodes \ {n} : db'[j] = db[j]
      /\ lapsed'[n] = lapsed[n] \cup {k} /\ \A j \in Nodes \ {n} : lapsed'[j] = lapsed[j]
  BY <1>1 DEF RInv, RBase
<1>8. CASE r = n
  <2>1. FollowsIn(z, link[r].feed, db[m], lapsed[m], fragile[m], fresh[r], now)
    BY <1>1, <1>2, <1>5, <1>6, <1>8, FollowsPurged
  <2> HIDE DEF z, m
  <2>2. FollowsIn(db'[r], link'[r].feed, db'[m], lapsed'[m], fragile'[m], fresh'[r], now')
    BY <1>1, <1>5, <1>7, <1>8, <2>1
  <2> QED BY <1>1, <1>5, <2>2 DEF Follows, m
<1>9. CASE m = n
  <2>1. FollowsIn(db[r], link[r].feed, z, lapsed[n] \cup {k}, fragile[n], fresh[r], now)
    BY <1>1, <1>2, <1>5, <1>6, <1>9, FollowsMaster
  <2> HIDE DEF z, m
  <2>2. FollowsIn(db'[r], link'[r].feed, db'[m], lapsed'[m], fragile'[m], fresh'[r], now')
    BY <1>1, <1>5, <1>7, <1>9, <2>1
  <2> QED BY <1>1, <1>5, <2>2 DEF Follows, m
<1>10. CASE r # n /\ m # n
  <2> HIDE DEF z, m
  <2> QED BY <1>1, <1>4, <1>5, <1>7, <1>10, FollowsKept DEF m
<1> QED BY <1>8, <1>9, <1>10

LEMMA RInvTick ==
    ASSUME RInv, Tick, RBase'
    PROVE  RInv'
<1>1. now' = now + 1 /\ UNCHANGED <<db, readonly, link, fed, fresh, lapsed, fragile>>
  BY DEF Tick
<1>2. SUFFICES ASSUME NEW r \in Nodes, Live(r)'
               PROVE  ~ readonly'[link'[r].to] /\ Follows(r, link[r].to)'
  BY DEF RInv
<1>3. Live(r)
  BY <1>1, <1>2 DEF Live
<1> DEFINE m == link[r].to
<1>4. m \in Nodes /\ ~ readonly[m] /\ db[m] \in Dicts
  BY <1>3, LiveLink DEF Live
<1>5. FollowsIn(db[r], link[r].feed, db[m], lapsed[m], fragile[m], fresh[r], now)
  BY <1>3 DEF RInv, Follows
<1>6. now \in Nat
  BY DEF RInv, RBase
<1>7. FollowsIn(db[r], link[r].feed, db[m], lapsed[m], fragile[m], fresh[r], now + 1)
  BY <1>4, <1>5, <1>6, FollowsLater
<1> QED BY <1>1, <1>4, <1>7 DEF Follows

LEMMA RInvStep ==
    ASSUME RInv, [RNext]_rvars
    PROVE  RInv'
<1>0. RBase'
  BY BaseStep DEF RInv
<1>1. CASE UNCHANGED rvars
  <2>1. \A r \in Nodes : Live(r)' => Live(r)
    BY <1>1 DEF rvars, Live
  <2>2. \A r \in Nodes : Follows(r, link[r].to) => Follows(r, link[r].to)'
    BY <1>1 DEF rvars, Follows
  <2>3. \A r \in Nodes : ~ readonly[link[r].to] => ~ readonly'[link'[r].to]
    BY <1>1 DEF rvars
  <2> QED BY <1>0, <2>1, <2>2, <2>3 DEF RInv
<1>2. CASE Tick
  BY <1>0, <1>2, RInvTick
<1>3. ASSUME NEW n \in Nodes, NEW k \in Keys, Purge(n, k) PROVE RInv'
  BY <1>0, <1>3, RInvPurge
<1>4. ASSUME NEW n \in Nodes, NEW c \in Cmds, ClientCmd(n, c) PROVE RInv'
  BY <1>0, <1>4, RInvClientCmd
<1>5. ASSUME NEW n \in Nodes, NEW m \in Nodes, ReplicaOf(n, m) PROVE RInv'
  BY <1>0, <1>5, RInvRoles
<1>6. ASSUME NEW n \in Nodes, ReplicaOfFails(n) \/ ReplicaOfNoOne(n) \/ LoseLink(n) PROVE RInv'
  BY <1>0, <1>6, RInvRoles
<1>7. ASSUME NEW n \in Nodes, ServeSync(n) PROVE RInv'
  BY <1>0, <1>7, RInvServeSync
<1>8. ASSUME NEW n \in Nodes, ApplyFeed(n) PROVE RInv'
  BY <1>0, <1>8, RInvApplyFeed
<1>9. ASSUME NEW n \in Nodes, Restart(n) PROVE RInv'
  BY <1>0, <1>9, RInvRestart
<1> QED BY <1>1, <1>2, <1>3, <1>4, <1>5, <1>6, <1>7, <1>8, <1>9 DEF RNext

LEMMA RInvAlways == RSpec => []RInv
<1>1. RInit => RInv
  <2>1. RInit => \A r \in Nodes : ~ Live(r)
    BY DEF RInit, Live
  <2> QED BY <2>1, BaseInit DEF RInv
<1>2. RInv /\ [RNext]_rvars => RInv'
  BY RInvStep
<1> QED BY <1>1, <1>2, PTL DEF RSpec

\* A replica that was empty when it got the full sync, with the rest of its
\* stream applied, stands for its master (repl_fullsync, repl_propagate).
THEOREM FeedsReplay == RSpec => []FeedReplays
<1>1. RInv => FeedReplays
  <2>1. SUFFICES ASSUME RInv, NEW r \in Nodes, link[r].up, link[r].synced, fed[r], fresh[r],
                        NEW k \in Keys \ fragile[link[r].to]
                 PROVE  StandsFor(Replayed(r)[k], db[link[r].to][k])
    BY DEF FeedReplays
  <2> DEFINE m == link[r].to
  <2>2. Live(r) /\ now \in Nat
    BY <2>1 DEF Live, RInv, RBase
  <2>3. link[r].feed \in Seq(Sendable) /\ db[r] \in Dicts
    BY <2>1, LiveLink
  <2>4. FollowsIn(db[r], link[r].feed, db[m], lapsed[m], fragile[m], fresh[r], now)
    BY <2>1, <2>2 DEF RInv, Follows
  <2>5. Replayed(r) \in Reach(db[r], link[r].feed, now)
    BY <2>2, <2>3, ReplayedReached
  <2>6. Tracks(Replayed(r), db[m], lapsed[m], fragile[m], fresh[r], now)
    BY <2>4, <2>5 DEF FollowsIn
  <2>7. StandsAt(Replayed(r)[k], db[m][k], now)
    BY <2>1, <2>6 DEF Tracks, Exact
  <2> QED BY <2>7, StandsForAt
<1> QED BY <1>1, RInvAlways, PTL

\* A replica that has caught up misses no live key of its master, whatever
\* was in it before (repl_fullsync, repl_propagate, SYNC, REPLICAOF).
THEOREM LiveKeysReach == RSpec => []LiveKeysPresent
<1>1. RInv => LiveKeysPresent
  <2>1. SUFFICES ASSUME RInv, NEW r \in Nodes, link[r].up, link[r].synced,
                        link[r].feed = <<>>, fed[r],
                        NEW k \in Overwritten \ fragile[link[r].to],
                        db[link[r].to][k].ty # "none", ~ Due(db[link[r].to][k], now)
                 PROVE  StandsFor(db[r][k], db[link[r].to][k])
    BY DEF LiveKeysPresent
  <2> DEFINE m == link[r].to
  <2>2. Live(r) /\ now \in Nat
    BY <2>1 DEF Live, RInv, RBase
  <2>3. link[r].feed \in Seq(Sendable) /\ db[r] \in Dicts
    BY <2>1, LiveLink
  <2>4. FollowsIn(db[r], link[r].feed, db[m], lapsed[m], fragile[m], fresh[r], now)
    BY <2>1, <2>2 DEF RInv, Follows
  <2>5. Replayed(r) = db[r]
    <3>1. Replayed(r) \in Reach(db[r], link[r].feed, now)
      BY <2>2, <2>3, ReplayedReached
    <3>2. Replayed(r) \in Reach(db[r], <<>>, now)
      BY <2>1, <3>1
    <3> QED BY <2>3, <3>2, ReachNothing
  <2>6. db[r] \in Reach(db[r], link[r].feed, now)
    BY <2>2, <2>3, <2>5, ReplayedReached
  <2>7. Tracks(db[r], db[m], lapsed[m], fragile[m], fresh[r], now)
    BY <2>4, <2>6 DEF FollowsIn
  <2>8. k \in Keys
    BY DEF Overwritten
  <2>9. StandsAt(db[r][k], db[m][k], now)
    BY <2>1, <2>7, <2>8 DEF Tracks, Covers
  <2> QED BY <2>9, StandsForAt
<1> QED BY <1>1, RInvAlways, PTL
=============================================================================
