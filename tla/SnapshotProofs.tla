---------------------------- MODULE SnapshotProofs ----------------------------
(***************************************************************************)
(* TLAPS proofs about Snapshot, for any keys, any number of children,      *)
(* crashes and changes, and any length of a second.                        *)
(***************************************************************************)
EXTENDS Snapshot, KeyspaceProofs

-----------------------------------------------------------------------------
(* The order of the dumps.                                                 *)

Stages == {"none", "forked", "written", "ok", "failed"}

Busy(p) == kids[p].stage \in {"forked", "written"}

KidOK(kid, e) ==
    /\ kid = [stage |-> kid.stage, content |-> kid.content,
              epoch |-> kid.epoch, file |-> kid.file]
    /\ kid.stage \in Stages /\ kid.epoch \in 0..e
    /\ kid.stage = "written" => kid.file.epoch = kid.epoch
    /\ kid.stage = "failed" => kid.epoch = 0

\* Who may still install a file, and how new it is.
Books ==
    /\ proc \in {"up", "saving", "down"} /\ overlapped \in BOOLEAN
    /\ epoch \in Nat /\ acked \in Nat
    /\ bgsave_pid \in Pids \cup {0}
    /\ kids = [p \in Pids |-> kids[p]] /\ \A p \in Pids : KidOK(kids[p], epoch)
    /\ dump.epoch \in 0..epoch /\ saving.epoch \in 0..epoch

\* As long as no two writers overlapped, there is at most one at work, what it
\* will install is at least as new as the dump, and what has been reported, or
\* will be once polled, is no newer than the dump.
InOrder ==
    /\ acked <= dump.epoch
    /\ \A p \in Pids : /\ kids[p].stage = "ok" => kids[p].epoch <= dump.epoch
                       /\ Busy(p) => kids[p].epoch >= dump.epoch
    /\ \A p, q \in Pids : Busy(p) /\ Busy(q) => p = q
    /\ proc = "saving" => saving.epoch >= dump.epoch /\ \A p \in Pids : ~ Busy(p)

RecoveryInv == Books /\ (~ overlapped => InOrder)

LEMMA MaxOfTwo ==
    ASSUME NEW a \in Nat, NEW b \in Nat
    PROVE  Max({a, b}) = IF a >= b THEN a ELSE b
<1> DEFINE m == IF a >= b THEN a ELSE b
<1>1. m \in {a, b} /\ \A y \in {a, b} : m >= y
  OBVIOUS
<1>2. \A x \in {a, b} : (\A y \in {a, b} : x >= y) => x = m
  OBVIOUS
<1> HIDE DEF m
<1> QED BY <1>1, <1>2 DEF Max, m

LEMMA NoKidOK ==
    ASSUME NEW e \in Nat
    PROVE  KidOK(NoKid, e) /\ NoKid.stage = "none" /\ NoKid.epoch = 0
BY DEF KidOK, NoKid, Stages

LEMMA NoKidRecord ==
    NoKid = [stage |-> "none", content |-> NoKid.content, epoch |-> 0, file |-> NoFile]
BY DEF NoKid

LEMMA KidForked ==
    ASSUME NEW ct, NEW e
    PROVE  [NoKid EXCEPT !.stage = "forked", !.content = ct, !.epoch = e]
             = [stage |-> "forked", content |-> ct, epoch |-> e, file |-> NoFile]
<1> DEFINE r == [NoKid EXCEPT !.stage = "forked", !.content = ct, !.epoch = e]
<1>1. r = [NoKid EXCEPT !.stage = "forked", !.content = ct, !.epoch = e]
  OBVIOUS
<1> HIDE DEF r
<1>2. r.stage = "forked" /\ r.content = ct /\ r.epoch = e /\ r.file = NoFile
  BY <1>1, NoKidRecord
<1>3. DOMAIN r = {"stage", "content", "epoch", "file"}
  BY <1>1, NoKidRecord
<1>4. r = [stage |-> "forked", content |-> ct, epoch |-> e, file |-> NoFile]
  BY <1>1, <1>2, <1>3
<1> QED BY <1>4 DEF r

LEMMA KidExited ==
    ASSUME NEW st, NEW e
    PROVE  [NoKid EXCEPT !.stage = st, !.epoch = e]
             = [stage |-> st, content |-> NoKid.content, epoch |-> e, file |-> NoFile]
<1> DEFINE r == [NoKid EXCEPT !.stage = st, !.epoch = e]
<1>1. r = [NoKid EXCEPT !.stage = st, !.epoch = e]
  OBVIOUS
<1> HIDE DEF r
<1>2. r.stage = st /\ r.content = NoKid.content /\ r.epoch = e /\ r.file = NoFile
  BY <1>1, NoKidRecord
<1>3. DOMAIN r = {"stage", "content", "epoch", "file"}
  BY <1>1, NoKidRecord
<1>4. r = [stage |-> st, content |-> NoKid.content, epoch |-> e, file |-> NoFile]
  BY <1>1, <1>2, <1>3
<1> QED BY <1>4 DEF r

LEMMA KidWritten ==
    ASSUME NEW kid, NEW f, NEW e, KidOK(kid, e)
    PROVE  [kid EXCEPT !.stage = "written", !.file = f]
             = [stage |-> "written", content |-> kid.content, epoch |-> kid.epoch, file |-> f]
<1> DEFINE r == [kid EXCEPT !.stage = "written", !.file = f]
<1>1. r = [kid EXCEPT !.stage = "written", !.file = f]
  OBVIOUS
<1> HIDE DEF r
<1>2. r.stage = "written" /\ r.content = kid.content /\ r.epoch = kid.epoch /\ r.file = f
  BY <1>1 DEF KidOK
<1>3. DOMAIN r = {"stage", "content", "epoch", "file"}
  BY <1>1 DEF KidOK
<1>4. r = [stage |-> "written", content |-> kid.content, epoch |-> kid.epoch, file |-> f]
  BY <1>1, <1>2, <1>3
<1> QED BY <1>4 DEF r

LEMMA KidMade ==
    ASSUME NEW e \in Nat, NEW st \in Stages, NEW ct, NEW ep \in 0..e, NEW f,
           st = "written" => f.epoch = ep, st = "failed" => ep = 0
    PROVE  LET kid == [stage |-> st, content |-> ct, epoch |-> ep, file |-> f]
           IN  KidOK(kid, e) /\ kid.stage = st /\ kid.epoch = ep
BY DEF KidOK

LEMMA KidOKLater ==
    ASSUME NEW kid, NEW e \in Nat, KidOK(kid, e)
    PROVE  KidOK(kid, e + 1)
BY DEF KidOK

LEMMA RecoveryInit == SInit => RecoveryInv
<1> SUFFICES ASSUME SInit PROVE RecoveryInv
  OBVIOUS
<1>1. /\ proc = "up" /\ overlapped = FALSE /\ epoch = 0 /\ acked = 0 /\ bgsave_pid = 0
      /\ kids = [p \in Pids |-> NoKid] /\ dump = NoFile /\ saving = NoFile
  BY DEF SInit
<1>2. NoFile.epoch = 0
  BY DEF NoFile
<1>3. \A p \in Pids : KidOK(kids[p], epoch) /\ kids[p].stage = "none"
  BY <1>1, NoKidOK
<1>4. Books
  <2>1. kids = [p \in Pids |-> kids[p]]
    BY <1>1
  <2>2. dump.epoch \in 0..epoch /\ saving.epoch \in 0..epoch /\ epoch \in Nat
    BY <1>1, <1>2
  <2>3. overlapped \in BOOLEAN /\ proc \in {"up", "saving", "down"}
    BY <1>1
  <2> QED BY <1>1, <1>3, <2>1, <2>2, <2>3 DEF Books
<1>5. InOrder
  BY <1>1, <1>2, <1>3 DEF InOrder, Busy
<1> QED BY <1>4, <1>5 DEF RecoveryInv

\* One child changes from kids[p] to kid, and nothing else of the books.
LEMMA KidStep ==
    ASSUME RecoveryInv, NEW p \in Pids, NEW kid, KidOK(kid, epoch),
           kids' = [kids EXCEPT ![p] = kid],
           UNCHANGED <<proc, saving, epoch, overlapped>>,
           bgsave_pid' \in Pids \cup {0}, dump'.epoch \in 0..epoch, acked' \in Nat
    PROVE  /\ Books'
           /\ \A q \in Pids : kids'[q] = IF q = p THEN kid ELSE kids[q]
<1>1. kids = [q \in Pids |-> kids[q]]
  BY DEF RecoveryInv, Books
<1>2. \A q \in Pids : kids'[q] = IF q = p THEN kid ELSE kids[q]
  BY <1>1
<1>3. kids' = [q \in Pids |-> kids'[q]]
  BY <1>1
<1>4. \A q \in Pids : KidOK(kids'[q], epoch')
  BY <1>2 DEF RecoveryInv, Books
<1>5. (\A q \in Pids : KidOK(kids[q], epoch))'
  BY <1>4 DEF KidOK
<1> QED BY <1>2, <1>3, <1>5 DEF RecoveryInv, Books

LEMMA RecoveryNext == RecoveryInv /\ [SNext]_svars => RecoveryInv'
<1> SUFFICES ASSUME RecoveryInv, [SNext]_svars PROVE RecoveryInv'
  OBVIOUS
<1>0. /\ epoch \in Nat /\ acked \in Nat /\ \A p \in Pids : KidOK(kids[p], epoch)
      /\ dump.epoch \in 0..epoch /\ saving.epoch \in 0..epoch
      /\ NoFile.epoch = 0 /\ overlapped \in BOOLEAN
      /\ kids = [q \in Pids |-> kids[q]]
  BY DEF RecoveryInv, Books, NoFile
<1>a. \A p \in Pids : kids[p].epoch \in Nat /\ kids[p].epoch \in 0..epoch
  BY <1>0 DEF KidOK
\* The dictionary and the clock move, children and files do not.
<1>1. ASSUME UNCHANGED <<dump, kids, acked, overlapped>>,
             saving' = saving \/ saving' = NoFile,
             epoch' = epoch \/ epoch' = epoch + 1,
             proc' \in {"up", "down"} \/ proc' = proc,
             proc' = "saving" => saving' = saving,
             bgsave_pid' \in {bgsave_pid, 0}
      PROVE  RecoveryInv'
  <2>1. \A p \in Pids : KidOK(kids[p], epoch')
    BY <1>0, <1>1, KidOKLater
  <2>2. (\A p \in Pids : KidOK(kids[p], epoch))'
    BY <1>1, <2>1 DEF KidOK
  <2>3. Books'
    BY <1>0, <1>1, <2>2 DEF RecoveryInv, Books
  <2>4. ~ overlapped => InOrder'
    BY <1>0, <1>1 DEF RecoveryInv, InOrder, Busy
  <2> QED BY <1>1, <2>3, <2>4 DEF RecoveryInv
<1>2. ASSUME Write \/ Expiry \/ Clock \/ Start \/ Crash \/ UNCHANGED svars PROVE RecoveryInv'
  BY <1>1, <1>2 DEF Write, Expiry, Clock, Start, Crash, svars, disk, ghosts
<1>3. ASSUME SaveWrite PROVE RecoveryInv'
  <2>1. /\ proc = "up" /\ proc' = "saving" /\ overlapped' = (overlapped \/ Writing)
        /\ UNCHANGED <<dump, kids, epoch, acked, bgsave_pid>>
        /\ saving'.epoch = epoch
    BY <1>3 DEF SaveWrite, DumpOf
  <2>2. Writing \in BOOLEAN /\ (~ Writing => \A p \in Pids : ~ Busy(p))
    BY DEF Writing, Busy
  <2>3. Books'
    BY <1>0, <2>1, <2>2 DEF RecoveryInv, Books, KidOK
  <2>4. ~ overlapped' => InOrder'
    BY <1>0, <2>1, <2>2 DEF RecoveryInv, InOrder, Busy
  <2> QED BY <2>3, <2>4 DEF RecoveryInv
<1>4. ASSUME SaveInstall PROVE RecoveryInv'
  <2>1. /\ proc = "saving" /\ proc' = "up" /\ saving' = NoFile /\ dump' = saving
        /\ acked' = Max({acked, saving.epoch})
        /\ UNCHANGED <<kids, epoch, overlapped, bgsave_pid>>
    BY <1>4 DEF SaveInstall
  <2>2. acked' = IF acked >= saving.epoch THEN acked ELSE saving.epoch
    BY <1>0, <2>1, MaxOfTwo
  <2>3. Books'
    BY <1>0, <2>1, <2>2 DEF RecoveryInv, Books, KidOK
  <2>4. ASSUME ~ overlapped PROVE InOrder'
    <3>1. /\ saving.epoch >= dump.epoch /\ acked <= dump.epoch
          /\ \A p \in Pids : ~ Busy(p) /\ (kids[p].stage = "ok" => kids[p].epoch <= dump.epoch)
      BY <2>1, <2>4 DEF RecoveryInv, InOrder
    <3>2. acked' <= dump'.epoch
      <4>1. dump'.epoch = saving.epoch
        BY <2>1
      <4>2. acked' <= saving.epoch
        BY <1>0, <2>2, <3>1
      <4> QED BY <4>1, <4>2
    <3>3. \A p \in Pids : /\ ~ Busy(p)'
                          /\ kids'[p].stage = "ok" => kids'[p].epoch <= dump'.epoch
      BY <1>0, <1>a, <2>1, <3>1 DEF Busy
    <3> QED BY <2>1, <3>2, <3>3 DEF InOrder
  <2> QED BY <2>1, <2>3, <2>4 DEF RecoveryInv
<1>5. ASSUME SaveFails PROVE RecoveryInv'
  BY <1>1, <1>5 DEF SaveFails, ghosts
<1>6. ASSUME NEW p \in Pids, kids[p].stage \in {"ok", "failed"},
             kids' = [kids EXCEPT ![p] = NoKid],
             acked' = acked \/ acked' = Max({acked, kids[p].epoch}),
             UNCHANGED <<saving, dump, epoch, overlapped>>,
             proc' = proc \/ (proc = "up" /\ proc' = "down"),
             bgsave_pid' \in {bgsave_pid, 0}
      PROVE  RecoveryInv'
  <2>1. acked' = acked \/ acked' = IF acked >= kids[p].epoch THEN acked ELSE kids[p].epoch
    BY <1>0, <1>a, <1>6, MaxOfTwo
  <2>2. KidOK(NoKid, epoch) /\ NoKid.stage = "none"
    BY <1>0, NoKidOK
  <2>3. \A q \in Pids : kids'[q] = IF q = p THEN NoKid ELSE kids[q]
    BY <1>0, <1>6
  <2>4. (\A q \in Pids : KidOK(kids[q], epoch))'
    <3>1. \A q \in Pids : KidOK(kids'[q], epoch')
      BY <1>0, <1>6, <2>2, <2>3
    <3> QED BY <3>1 DEF KidOK
  <2>5. Books'
    BY <1>0, <1>a, <1>6, <2>1, <2>4 DEF RecoveryInv, Books
  <2>6. kids[p].stage = "failed" => kids[p].epoch = 0
    BY <1>0 DEF KidOK
  <2>7. ~ overlapped' => InOrder'
    BY <1>0, <1>a, <1>6, <2>1, <2>2, <2>3, <2>6 DEF RecoveryInv, InOrder, Busy
  <2> QED BY <2>5, <2>7 DEF RecoveryInv
<1>7. ASSUME Poll PROVE RecoveryInv'
  <2>1. bgsave_pid \in Pids
    BY <1>7 DEF Poll, RecoveryInv, Books
  <2> QED BY <1>6, <1>7, <2>1 DEF Poll
<1>8. ASSUME Shutdown PROVE RecoveryInv'
  <2>1. CASE bgsave_pid = 0
    BY <1>1, <1>8, <2>1 DEF Shutdown
  <2>2. CASE bgsave_pid # 0
    <3>1. bgsave_pid \in Pids
      BY <2>2 DEF RecoveryInv, Books
    <3> QED BY <1>6, <1>8, <2>2, <3>1 DEF Shutdown
  <2> QED BY <2>1, <2>2
<1>9. ASSUME Bgsave PROVE RecoveryInv'
  <2>1. PICK p \in Pids :
          /\ kids[p].stage = "none" /\ bgsave_pid' = p
          /\ kids' = [kids EXCEPT ![p] = [NoKid EXCEPT !.stage = "forked",
                                             !.content = Content(core), !.epoch = epoch]]
    BY <1>9 DEF Bgsave
  <2> DEFINE kid == [NoKid EXCEPT !.stage = "forked", !.content = Content(core), !.epoch = epoch]
  <2>2. kid.stage = "forked" /\ kid.epoch = epoch /\ KidOK(kid, epoch)
    <3>1. kid = [stage |-> "forked", content |-> Content(core), epoch |-> epoch, file |-> NoFile]
      BY KidForked, Zenon
    <3>2. "forked" \in Stages /\ epoch \in 0..epoch
      BY <1>0 DEF Stages
    <3> HIDE DEF kid
    <3> QED BY <1>0, <3>1, <3>2, KidMade
  <2>3. /\ proc = "up" /\ overlapped' = (overlapped \/ Writing)
        /\ UNCHANGED <<proc, saving, dump, epoch, acked>>
    BY <1>9 DEF Bgsave
  <2> HIDE DEF kid
  <2>4. \A q \in Pids : kids'[q] = IF q = p THEN kid ELSE kids[q]
    BY <1>0, <2>1 DEF kid
  <2>5. (\A q \in Pids : KidOK(kids[q], epoch))'
    <3>1. \A q \in Pids : KidOK(kids'[q], epoch')
      BY <1>0, <2>2, <2>3, <2>4
    <3> QED BY <3>1 DEF KidOK
  <2>6. Writing \in BOOLEAN /\ (~ Writing => \A q \in Pids : ~ Busy(q))
    BY DEF Writing, Busy
  <2>7. Books'
    BY <1>0, <2>1, <2>3, <2>5, <2>6 DEF RecoveryInv, Books
  <2>8. ~ overlapped' => InOrder'
    BY <1>0, <1>a, <2>2, <2>3, <2>4, <2>6 DEF RecoveryInv, InOrder, Busy
  <2> QED BY <2>7, <2>8 DEF RecoveryInv
<1>10. ASSUME NEW p \in Pids, Kid(p) PROVE RecoveryInv'
  <2>0. UNCHANGED <<proc, saving, epoch, acked, overlapped, bgsave_pid>>
    BY <1>10 DEF Kid, KidWrites, KidInstalls, KidFails, OrphanGone, ghosts
  <2>1. CASE KidWrites(p)
    <3> DEFINE kid == [kids[p] EXCEPT !.stage = "written",
                                      !.file = DumpOf(kids[p].content, kids[p].epoch)]
    <3>1. /\ kids[p].stage = "forked" /\ kids' = [kids EXCEPT ![p] = kid]
          /\ dump' = dump
      BY <2>1 DEF KidWrites
    <3>2. kid.stage = "written" /\ kid.epoch = kids[p].epoch /\ KidOK(kid, epoch)
      <4> DEFINE f == DumpOf(kids[p].content, kids[p].epoch)
      <4>1. f.epoch = kids[p].epoch
        BY DEF DumpOf
      <4> HIDE DEF f
      <4>2. kid = [stage |-> "written", content |-> kids[p].content,
                   epoch |-> kids[p].epoch, file |-> f]
        BY <1>0, KidWritten, Zenon DEF f
      <4>3. "written" \in Stages
        BY DEF Stages
      <4> HIDE DEF kid
      <4> QED BY <1>0, <1>a, <4>1, <4>2, <4>3, KidMade
    <3> HIDE DEF kid
    <3>3. Books' /\ \A q \in Pids : kids'[q] = IF q = p THEN kid ELSE kids[q]
      BY <1>0, <2>0, <3>1, <3>2, KidStep DEF RecoveryInv, Books
    <3>4. ~ overlapped' => InOrder'
      BY <1>0, <1>a, <2>0, <3>1, <3>2, <3>3 DEF RecoveryInv, InOrder, Busy
    <3> QED BY <3>3, <3>4 DEF RecoveryInv
  <2>2. CASE KidInstalls(p)
    <3> DEFINE kid == Exited("ok", kids[p].epoch)
    <3>1. /\ kids[p].stage = "written" /\ kids' = [kids EXCEPT ![p] = kid]
          /\ dump' = kids[p].file
      BY <2>2 DEF KidInstalls
    <3>2. kid.stage = "ok" /\ kid.epoch = kids[p].epoch /\ KidOK(kid, epoch)
      <4>1. kid = [stage |-> "ok", content |-> NoKid.content, epoch |-> kids[p].epoch, file |-> NoFile]
        BY KidExited, Zenon DEF Exited
      <4>2. "ok" \in Stages /\ kids[p].epoch \in 0..epoch
        BY <1>0, <1>a DEF Stages
      <4> HIDE DEF kid
      <4> QED BY <1>0, <4>1, <4>2, KidMade
    <3>3. dump'.epoch = kids[p].epoch
      BY <1>0, <3>1 DEF KidOK
    <3> HIDE DEF kid
    <3>4. Books' /\ \A q \in Pids : kids'[q] = IF q = p THEN kid ELSE kids[q]
      BY <1>0, <1>a, <2>0, <3>1, <3>2, <3>3, KidStep DEF RecoveryInv, Books
    <3>5. ~ overlapped' => InOrder'
      BY <1>0, <1>a, <2>0, <3>1, <3>2, <3>3, <3>4 DEF RecoveryInv, InOrder, Busy
    <3> QED BY <3>4, <3>5 DEF RecoveryInv
  <2>3. CASE KidFails(p)
    <3> DEFINE kid == Exited("failed", 0)
    <3>1. kids' = [kids EXCEPT ![p] = kid] /\ dump' = dump
      BY <2>3 DEF KidFails
    <3>2. kid.stage = "failed" /\ kid.epoch = 0 /\ KidOK(kid, epoch)
      <4>1. kid = [stage |-> "failed", content |-> NoKid.content, epoch |-> 0, file |-> NoFile]
        BY KidExited, Zenon DEF Exited
      <4>2. "failed" \in Stages /\ 0 \in 0..epoch
        BY <1>0, <1>a DEF Stages
      <4> HIDE DEF kid
      <4> QED BY <1>0, <4>1, <4>2, KidMade
    <3> HIDE DEF kid
    <3>3. Books' /\ \A q \in Pids : kids'[q] = IF q = p THEN kid ELSE kids[q]
      BY <1>0, <2>0, <3>1, <3>2, KidStep DEF RecoveryInv, Books
    <3>4. ~ overlapped' => InOrder'
      BY <1>0, <1>a, <2>0, <3>1, <3>2, <3>3 DEF RecoveryInv, InOrder, Busy
    <3> QED BY <3>3, <3>4 DEF RecoveryInv
  <2>4. CASE OrphanGone(p)
    BY <1>6, <2>0, <2>4 DEF OrphanGone
  <2> QED BY <1>10, <2>1, <2>2, <2>3, <2>4 DEF Kid
<1> QED BY <1>2, <1>3, <1>4, <1>5, <1>7, <1>8, <1>9, <1>10 DEF SNext

LEMMA RecoveryInvAlways == SSpec => []RecoveryInv
BY RecoveryInit, RecoveryNext, PTL DEF SSpec

\* As long as writers have not overlapped, the dump is at least as new as
\* everything a SAVE or a BGSAVE was reported to have saved, whichever
\* processes crashed and whichever writer failed.
THEOREM RecoveryPointKept == SSpec => []RecoveryPoint
<1>1. RecoveryInv => RecoveryPoint
  BY DEF RecoveryInv, Books, InOrder, RecoveryPoint
<1> QED BY <1>1, RecoveryInvAlways, PTL
-----------------------------------------------------------------------------
(* The load.  No function it calls touches maxmemory, and without a limit  *)
(* none of them evicts.                                                    *)

LEMMA LimitFree ==
    ASSUME NEW c \in CoreType, NEW K \in SUBSET Keys
    PROVE  /\ FreeEntries(c, K).maxmemory = c.maxmemory
           /\ WatchTouch(c, K).maxmemory = c.maxmemory
<1>1. FreeEntries(c, K).maxmemory = c.maxmemory
  <2> DEFINE y == DiscountKeys(c, K)
             x == DiscountBytes(y, K)
             z == Unlink(x, K)
  <2>1. y \in CoreType /\ y.maxmemory = c.maxmemory
    BY SaturateType DEF DiscountKeys, CoreType
  <2> HIDE DEF y
  <2>2. x \in CoreType /\ x.maxmemory = y.maxmemory
    BY <2>1, SaturateType DEF DiscountBytes, CoreType
  <2> HIDE DEF x
  <2>3. z \in CoreType /\ z.maxmemory = x.maxmemory
    BY <2>2 DEF Unlink, CoreType, AllTypes
  <2>4. FreeEntries(c, K) = WatchTouch(z, K)
    BY DEF FreeEntries, x, y
  <2> HIDE DEF z
  <2>5. WatchTouch(z, K).maxmemory = z.maxmemory
    BY <2>3 DEF WatchTouch, CoreType
  <2> QED BY <2>1, <2>2, <2>3, <2>4, <2>5
<1>2. WatchTouch(c, K).maxmemory = c.maxmemory
  BY DEF WatchTouch, CoreType
<1> QED BY <1>1, <1>2

LEMMA LimitEdit ==
    ASSUME NEW c \in CoreType, NEW k \in Keys, NEW t \in Nat, NEW ty \in AllTypes, NEW p \in Nat
    PROVE  /\ SetExpireAt(c, k, t).maxmemory = c.maxmemory
           /\ LinkNew(c, k, ty, p).maxmemory = c.maxmemory
           /\ ResizeObject(c, k, p).maxmemory = c.maxmemory
<1>3. SetExpireAt(c, k, t).maxmemory = c.maxmemory
  <2> DEFINE x == ClearExpire(c, k)
  <2>1. x \in CoreType /\ x.maxmemory = c.maxmemory
    BY SaturateType DEF ClearExpire, CoreType
  <2>2. SetExpireAt(c, k, t) = IF t = 0 THEN x
           ELSE [x EXCEPT !.expire_at[k] = t, !.keys_with_ttl = @ + 1, !.expire_at_sum = @ + t]
    BY DEF SetExpireAt
  <2> HIDE DEF x
  <2> QED BY <2>1, <2>2 DEF CoreType
<1>4. LinkNew(c, k, ty, p).maxmemory = c.maxmemory
  BY DEF LinkNew, CoreType
<1>5. ResizeObject(c, k, p).maxmemory = c.maxmemory
  BY DEF ResizeObject, CoreType
<1> QED BY <1>3, <1>4, <1>5

\* What a function of the load does to the keys outside K.
Spares(c, d, K) ==
    /\ d.maxmemory = c.maxmemory
    /\ \A j \in Keys \ K : Same(c, d, j) \/ Gone(d, j)
    /\ c.maxmemory = 0 => \A j \in Keys \ K : Same(c, d, j)

LEMMA SparesChain ==
    ASSUME NEW c, NEW d, NEW e, NEW K, NEW L, Spares(c, d, K), Spares(d, e, L), L \subseteq K
    PROVE  Spares(c, e, K)
BY DEF Spares, Same, Gone

LEMMA EditsSpare ==
    ASSUME NEW c, NEW d, NEW K, Edits(c, d, K), d.maxmemory = c.maxmemory
    PROVE  Spares(c, d, K)
BY DEF Edits, Spares

LEMMA EvictSpares ==
    ASSUME NEW c, Consistent(c), NEW d \in MaybeEvict(c)
    PROVE  Consistent(d) /\ Spares(c, d, {})
<1>0. Consistent(d) /\ c \in CoreType
  BY EvictConsistent DEF Consistent
<1>1. CASE c.evict = "noop" \/ ~ OverMaxmemory(c)
  BY <1>0, <1>1 DEF MaybeEvict, Spares, Same
<1>2. CASE ~ (c.evict = "noop" \/ ~ OverMaxmemory(c))
  <2>1. PICK E \in SUBSET Victims(c), X \in SUBSET Purgeable(c) :
                d = FreeEntries(c, E \cup X)
    BY <1>2 DEF MaybeEvict
  <2>2. E \cup X \in SUBSET Keys
    BY <1>0 DEF Victims, Purgeable, Sampled, Linked, CoreType
  <2>3. d.maxmemory = c.maxmemory
    BY <1>0, <2>1, <2>2, LimitFree
  <2>4. c.maxmemory # 0
    BY <1>2 DEF OverMaxmemory
  <2>5. Loses(c, d)
    BY EvictLoses
  <2> QED BY <1>0, <2>3, <2>4, <2>5 DEF Spares, Loses
<1> QED BY <1>1, <1>2

LEMMA DemoteLimit ==
    ASSUME NEW c \in CoreType, NEW d \in MaybeDemoteHot(c)
    PROVE  d.maxmemory = c.maxmemory
<1>1. CASE d = c
  BY <1>1
<1>2. CASE d # c
  <2>1. PICK D \in SUBSET c.hot : d = Demote(c, D)
    BY <1>2 DEF MaybeDemoteHot
  <2> QED BY <2>1 DEF Demote, CoreType
<1> QED BY <1>1, <1>2

\* A lookup of a key without a deadline, or that is not there, changes nothing.
LEMMA FindQuiet ==
    ASSUME NEW c \in CoreType, NEW k \in Keys, k \notin Linked(c) \/ c.expire_at[k] = 0
    PROVE  FindEntry(c, k) = c
BY DEF FindEntry, Due, HasTtl

LEMMA UnlinkedNoTtl ==
    ASSUME NEW c, Consistent(c), NEW k \in Keys \ Linked(c)
    PROVE  c.expire_at[k] = 0
BY DEF Consistent, HasTtl

\* A string comes back with its deadline, or is evicted at once.
LEMMA LoadString ==
    ASSUME NEW c, Consistent(c), NEW k \in Keys \ Linked(c), NEW p \in Nat, NEW t \in Nat,
           NEW d \in EntrySetEx(c, k, p, t)
    PROVE  /\ Consistent(d) /\ Spares(c, d, {k})
           /\ k \in Linked(d) => Stored(d, k, p, t)
           /\ c.maxmemory = 0 => Stored(d, k, p, t)
<1> DEFINE l == LinkNew(c, k, "string", p)
           x == SetExpireAt(l, k, t)
<1>1. c \in CoreType /\ k \in Keys /\ "string" \in AllTypes /\ FindEntry(c, k) = c
  BY FindQuiet DEF Consistent, AllTypes
<1>2. PICK s \in MaybeDemoteHot(x) : \E e \in MaybeEvict(s) : d = WatchTouch(e, {k})
  BY <1>1 DEF EntrySetEx
<1>3. /\ Consistent(l) /\ k \in Linked(l) /\ Edits(c, l, {k}) /\ l.payload[k] = p
      /\ l.type[k] = "string" /\ l.maxmemory = c.maxmemory
  <2>1. l.maxmemory = c.maxmemory
    BY <1>1, LimitEdit
  <2>2. Consistent(l)
    BY <1>1, LinkConsistent
  <2>3. k \in Linked(l) /\ Edits(c, l, {k}) /\ l.payload[k] = p /\ l.type[k] = "string"
    BY <1>1, LinkEdits
  <2> QED BY <2>1, <2>2, <2>3
<1> HIDE DEF l
<1>4. l \in CoreType
  BY <1>3 DEF Consistent
<1>5. /\ Consistent(x) /\ Linked(x) = Linked(l) /\ Edits(l, x, {k}) /\ x.payload = l.payload
      /\ x.type = l.type /\ x.expire_at[k] = t /\ x.maxmemory = l.maxmemory
  <2>1. x.maxmemory = l.maxmemory
    BY <1>1, <1>4, LimitEdit
  <2>2. Consistent(x) /\ Linked(x) = Linked(l)
    BY <1>3, SetExpireConsistent
  <2> QED BY <1>1, <1>4, <2>1, <2>2, SetExpireEdits
<1> HIDE DEF x
<1>6. x \in CoreType
  BY <1>5 DEF Consistent
<1>7. Consistent(s) /\ Edits(x, s, {}) /\ s.maxmemory = x.maxmemory
  BY <1>2, <1>5, <1>6, MaybeDemoteConsistent, DemoteSame, DemoteLimit
<1>8. PICK e \in MaybeEvict(s) : d = WatchTouch(e, {k})
  BY <1>2
<1>9. Consistent(e) /\ Spares(s, e, {}) /\ e \in CoreType
  BY <1>7, EvictSpares DEF Consistent
<1>10. Consistent(d) /\ d.maxmemory = e.maxmemory /\ \A j \in Keys : Same(e, d, j)
  <2>1. {k} \in SUBSET Keys
    BY <1>1
  <2> QED BY <1>8, <1>9, <2>1, WatchTouchConsistent, LimitFree, TouchSame
<1>11. Spares(c, d, {k})
  <2>1. Spares(c, l, {k}) /\ Spares(l, x, {k}) /\ Spares(x, s, {})
    BY <1>3, <1>5, <1>7, EditsSpare
  <2>2. Spares(e, d, {})
    BY <1>10 DEF Spares
  <2>3. Spares(c, x, {k})
    BY <2>1, SparesChain
  <2>4. Spares(c, s, {k})
    BY <2>1, <2>3, SparesChain
  <2>5. Spares(c, e, {k})
    BY <1>9, <2>4, SparesChain
  <2> QED BY <2>2, <2>5, SparesChain
<1>12. Stored(s, k, p, t)
  BY <1>1, <1>3, <1>5, <1>7 DEF Stored, Edits, Same
<1>13. s.maxmemory = c.maxmemory
  BY <1>3, <1>5, <1>7
<1>14. (Same(s, e, k) \/ Gone(e, k)) /\ (c.maxmemory = 0 => Same(s, e, k))
  BY <1>1, <1>9, <1>13 DEF Spares
<1>15. Same(e, d, k)
  BY <1>1, <1>10
<1> QED BY <1>10, <1>11, <1>12, <1>14, <1>15 DEF Stored, Same, Gone

-----------------------------------------------------------------------------
(* The elements of an object.                                              *)

\* The object under k after n elements, or without it.
Building(c, d, k, ty, n) ==
    /\ Consistent(d) /\ Spares(c, d, {k}) /\ d.expire_at[k] = 0
    /\ k \in Linked(d) => /\ d.type[k] = ty
                          /\ ObjBase < d.payload[k] /\ d.payload[k] <= ObjBase + n
    /\ c.maxmemory = 0 /\ n > 0 => k \in Linked(d) /\ d.payload[k] = ObjBase + n
    /\ n = 0 => k \notin Linked(d)

LEMMA ResizeOutcome ==
    ASSUME NEW c, Consistent(c), NEW k \in Linked(c), NEW p \in Nat
    PROVE  LET d == ResizeObject(c, k, p) IN
           /\ Consistent(d) /\ Edits(c, d, {k}) /\ k \in Linked(d)
           /\ d.payload[k] = p /\ d.type = c.type /\ d.expire_at = c.expire_at
           /\ d.maxmemory = c.maxmemory
<1> DEFINE d == ResizeObject(c, k, p)
<1>1. c \in CoreType /\ k \in Keys
  BY DEF Consistent, CoreType, Linked
<1>2. Consistent(d) /\ Linked(d) = Linked(c) /\ Edits(c, d, {k})
  BY <1>1, ResizeConsistent, ResizeEdits
<1>3. d.payload = [c.payload EXCEPT ![k] = p] /\ d.type = c.type /\ d.expire_at = c.expire_at
      /\ d.maxmemory = c.maxmemory
  BY <1>1 DEF ResizeObject, CoreType
<1>4. d.payload[k] = p
  BY <1>1, <1>3 DEF CoreType
<1> QED BY <1>2, <1>3, <1>4

LEMMA GetOrCreateOutcome ==
    ASSUME NEW c, Consistent(c), NEW k \in Keys, NEW ty \in AllTypes, c.expire_at[k] = 0,
           NEW d \in GetOrCreate(c, k, ty)
    PROVE  /\ Consistent(d) /\ Spares(c, d, {k}) /\ d.expire_at[k] = 0
           /\ k \in Linked(c) => d = c
           /\ k \notin Linked(c) /\ k \in Linked(d) => d.type[k] = ty /\ d.payload[k] = ObjBase
           /\ c.maxmemory = 0 => k \in Linked(d)
<1>1. c \in CoreType /\ FindEntry(c, k) = c /\ ObjBase \in Nat
  BY FindQuiet, SizeAssumption DEF Consistent
<1>2. CASE k \in Linked(c)
  BY <1>1, <1>2 DEF GetOrCreate, Spares, Same
<1>3. CASE k \notin Linked(c)
  <2> DEFINE l == LinkNew(c, k, ty, ObjBase)
  <2>1. PICK e \in MaybeEvict(l) : d = FindEntry(e, k)
    BY <1>1, <1>3 DEF GetOrCreate
  <2>2. l.maxmemory = c.maxmemory
    <3>1. 0 \in Nat
      OBVIOUS
    <3> QED BY <1>1, <3>1, LimitEdit
  <2>3. Consistent(l)
    BY <1>1, <1>3, LinkConsistent
  <2>4. k \in Linked(l) /\ Edits(c, l, {k}) /\ l.payload[k] = ObjBase /\ l.type[k] = ty
        /\ l.expire_at = c.expire_at
    BY <1>1, LinkEdits
  <2> HIDE DEF l
  <2>5. Consistent(e) /\ Spares(l, e, {}) /\ e \in CoreType
    BY <2>3, EvictSpares DEF Consistent
  <2>6. (Same(l, e, k) \/ Gone(e, k)) /\ (c.maxmemory = 0 => Same(l, e, k))
    BY <2>2, <2>5 DEF Spares
  <2>7. e.expire_at[k] = 0
    BY <2>4, <2>6 DEF Same, Gone
  <2>8. d = e
    BY <2>1, <2>5, <2>7, FindQuiet
  <2>9. Spares(c, l, {k})
    BY <2>2, <2>4, EditsSpare
  <2>10. Spares(c, d, {k})
    BY <2>5, <2>8, <2>9, SparesChain
  <2> QED BY <1>3, <2>4, <2>5, <2>6, <2>7, <2>8, <2>10 DEF Same, Gone
<1> QED BY <1>2, <1>3

LEMMA PushOneOutcome ==
    ASSUME NEW c, NEW b, NEW k \in Keys, NEW ty \in AllTypes, NEW n \in Nat,
           Building(b, c, k, ty, n), NEW o \in PushOne(c, k, ty)
    PROVE  /\ o.ok => Building(b, o.core, k, ty, n + 1)
           /\ b.maxmemory = 0 => o.ok
           /\ o.ok \in BOOLEAN
<1>1. /\ Consistent(c) /\ Spares(b, c, {k}) /\ c.expire_at[k] = 0 /\ ObjBase \in Nat
      /\ c.maxmemory = b.maxmemory
  BY SizeAssumption DEF Building, Spares
<1>2. PICK d \in GetOrCreate(c, k, ty) :
         o \in IF k \in Linked(d)
               THEN Done(MaybeEvict(ResizeObject(d, k, d.payload[k] + 1))) ELSE Failed(d)
  BY DEF PushOne
<1>3. /\ Consistent(d) /\ Spares(c, d, {k}) /\ d.expire_at[k] = 0
      /\ k \in Linked(c) => d = c
      /\ k \notin Linked(c) /\ k \in Linked(d) => d.type[k] = ty /\ d.payload[k] = ObjBase
      /\ c.maxmemory = 0 => k \in Linked(d)
  BY <1>1, GetOrCreateOutcome
<1>4. CASE k \notin Linked(d)
  <2>1. o = [ok |-> FALSE, core |-> d]
    BY <1>2, <1>4 DEF Failed
  <2> QED BY <1>1, <1>3, <1>4, <2>1
<1>5. CASE k \in Linked(d)
  <2>0. d.payload[k] \in Nat /\ d.type[k] = ty
    BY <1>3, <1>5 DEF Consistent, CoreType, Building
  <2> DEFINE r == ResizeObject(d, k, d.payload[k] + 1)
  <2>1. PICK e \in MaybeEvict(r) : o = [ok |-> TRUE, core |-> e]
    BY <1>2, <1>5 DEF Done
  <2>2. /\ Consistent(r) /\ Edits(d, r, {k}) /\ k \in Linked(r)
        /\ r.payload[k] = d.payload[k] + 1 /\ r.type = d.type /\ r.expire_at = d.expire_at
        /\ r.maxmemory = d.maxmemory
    <3>1. d.payload[k] + 1 \in Nat
      BY <2>0
    <3> QED BY <1>3, <1>5, <3>1, ResizeOutcome
  <2> HIDE DEF r
  <2>3. Consistent(e) /\ Spares(r, e, {})
    BY <2>2, EvictSpares
  <2>4. Spares(b, e, {k})
    <3>1. Spares(b, d, {k})
      BY <1>1, <1>3, SparesChain
    <3>2. Spares(d, r, {k})
      BY <2>2, EditsSpare
    <3>3. Spares(b, r, {k})
      BY <3>1, <3>2, SparesChain
    <3> QED BY <2>3, <3>3, SparesChain
  <2>5. (Same(r, e, k) \/ Gone(e, k)) /\ (b.maxmemory = 0 => Same(r, e, k))
    BY <1>1, <1>3, <2>2, <2>3 DEF Spares
  <2>6. e.expire_at[k] = 0
    BY <1>3, <2>2, <2>5 DEF Same, Gone
  <2>7. k \in Linked(e) => e.type[k] = ty /\ e.payload[k] = d.payload[k] + 1
    BY <2>0, <2>2, <2>5 DEF Same, Gone
  <2>8. b.maxmemory = 0 => k \in Linked(e)
    BY <2>2, <2>5 DEF Same
  <2>9. d.payload[k] + 1 > ObjBase /\ d.payload[k] + 1 <= ObjBase + (n + 1)
    <3>1. CASE k \in Linked(c)
      BY <1>1, <1>3, <2>0, <3>1 DEF Building
    <3>2. CASE k \notin Linked(c)
      BY <1>1, <1>3, <1>5, <3>2
    <3> QED BY <3>1, <3>2
  <2>10. b.maxmemory = 0 => d.payload[k] + 1 = ObjBase + (n + 1)
    <3>1. CASE k \in Linked(c)
      <4>1. n > 0
        BY <3>1 DEF Building
      <4> QED BY <1>1, <1>3, <3>1, <4>1 DEF Building
    <3>2. CASE k \notin Linked(c)
      <4>1. b.maxmemory = 0 => n = 0
        BY <3>2 DEF Building
      <4> QED BY <1>1, <1>3, <1>5, <3>2, <4>1
    <3> QED BY <3>1, <3>2
  <2>11. n + 1 # 0
    OBVIOUS
  <2>12. Building(b, e, k, ty, n + 1)
    BY <2>3, <2>4, <2>6, <2>7, <2>8, <2>9, <2>10, <2>11 DEF Building
  <2> QED BY <2>1, <2>12
<1> QED BY <1>4, <1>5

PushNext(O, k, ty) == UNION {IF o.ok THEN PushOne(o.core, k, ty) ELSE {o} : o \in O}

PushStep(c, k, ty, n, g) ==
    g = [i \in 0..n |-> IF i = 0 THEN Done({c}) ELSE PushNext(g[i - 1], k, ty)]

LEMMA PushExists ==
    ASSUME NEW c, NEW k, NEW ty, NEW n \in Nat
    PROVE  \E g : PushStep(c, k, ty, n, g)
<1> DEFINE T == {m \in Nat : \E g : PushStep(c, k, ty, m, g)}
<1>1. 0 \in T
  <2> DEFINE g == [i \in 0..0 |-> Done({c})]
  <2>1. PushStep(c, k, ty, 0, g)
    BY DEF PushStep
  <2> QED BY <2>1
<1>2. ASSUME NEW m \in T PROVE m + 1 \in T
  <2>1. PICK g : PushStep(c, k, ty, m, g)
    OBVIOUS
  <2> DEFINE h == [i \in 0..(m + 1) |-> IF i = m + 1 THEN PushNext(g[m], k, ty) ELSE g[i]]
  <2>2. \A i \in 0..m : g[i] = IF i = 0 THEN Done({c}) ELSE PushNext(g[i - 1], k, ty)
    BY <2>1 DEF PushStep
  <2>3. ASSUME NEW i \in 0..(m + 1)
        PROVE  h[i] = IF i = 0 THEN Done({c}) ELSE PushNext(h[i - 1], k, ty)
    <3>1. CASE i = m + 1
      <4>1. i # 0 /\ i - 1 = m /\ m \in 0..(m + 1) /\ m # m + 1 /\ m + 1 \in 0..(m + 1)
        BY <3>1
      <4>2. h[i - 1] = g[m] /\ h[i] = PushNext(g[m], k, ty)
        BY <3>1, <4>1
      <4> QED BY <3>1, <4>1, <4>2
    <3>2. CASE i # m + 1
      <4>1. i \in 0..m /\ h[i] = g[i]
        BY <3>2
      <4>2. CASE i = 0
        BY <2>2, <4>1, <4>2
      <4>3. CASE i # 0
        <5>1. i - 1 \in 0..(m + 1) /\ i - 1 # m + 1
          BY <4>1, <4>3
        <5>2. h[i - 1] = g[i - 1]
          BY <5>1
        <5> HIDE DEF h
        <5> QED BY <2>2, <4>1, <4>3, <5>2
      <4> QED BY <4>2, <4>3
    <3> QED BY <3>1, <3>2
  <2>4. h = [i \in 0..(m + 1) |-> h[i]]
    OBVIOUS
  <2> HIDE DEF h
  <2>5. PushStep(c, k, ty, m + 1, h)
    BY <2>3, <2>4 DEF PushStep
  <2> QED BY <2>5
<1> HIDE DEF T
<1>3. T = Nat
  BY <1>1, <1>2, NatInduct DEF T
<1> QED BY <1>3 DEF T

\* All elements of an object, one after the other, from a dictionary without it.
LEMMA PushElementsOutcome ==
    ASSUME NEW c, Consistent(c), NEW k \in Keys \ Linked(c), NEW ty \in AllTypes, NEW n \in Nat,
           NEW o \in PushElements(c, k, ty, n)
    PROVE  /\ o.ok => Building(c, o.core, k, ty, n)
           /\ c.maxmemory = 0 => o.ok
           /\ o.ok \in BOOLEAN
<1> DEFINE g == CHOOSE g : PushStep(c, k, ty, n, g)
<1>1. PushStep(c, k, ty, n, g)
  BY PushExists
<1>2. PushElements(c, k, ty, n) = g[n]
  BY DEF PushElements, PushStep, PushNext, Then
<1> HIDE DEF g
<1>3. \A i \in 0..n : g[i] = IF i = 0 THEN Done({c}) ELSE PushNext(g[i - 1], k, ty)
  BY <1>1 DEF PushStep
<1> DEFINE P(i) == \A q \in g[i] : /\ q.ok => Building(c, q.core, k, ty, i)
                                   /\ c.maxmemory = 0 => q.ok
                                   /\ q.ok \in BOOLEAN
           T == {i \in Nat : i <= n => P(i)}
<1>4. 0 \in T
  <2>1. Building(c, c, k, ty, 0)
    BY UnlinkedNoTtl DEF Building, Spares, Same
  <2>2. 0 \in 0..n /\ g[0] = Done({c})
    BY <1>3
  <2>3. \A q \in g[0] : q = [ok |-> TRUE, core |-> c]
    BY <2>2 DEF Done
  <2>4. P(0)
    <3>1. ASSUME NEW q \in g[0] PROVE q.ok = TRUE /\ q.core = c
      BY <2>3
    <3> QED BY <2>1, <3>1, Zenon
  <2> HIDE DEF P
  <2> QED BY <2>4
<1>5. ASSUME NEW i \in T PROVE i + 1 \in T
  <2> SUFFICES ASSUME i + 1 <= n PROVE P(i + 1)
    OBVIOUS
  <2>1. i + 1 \in 0..n /\ i \in 0..n /\ i + 1 # 0 /\ i + 1 - 1 = i /\ i <= n
    OBVIOUS
  <2>2. g[i + 1] = PushNext(g[i], k, ty) /\ P(i)
    BY <1>3, <2>1
  <2>3. ASSUME NEW q \in g[i + 1]
        PROVE  /\ q.ok => Building(c, q.core, k, ty, i + 1)
               /\ c.maxmemory = 0 => q.ok
               /\ q.ok \in BOOLEAN
    <3>1. PICK r \in g[i] : q \in IF r.ok THEN PushOne(r.core, k, ty) ELSE {r}
      BY <2>2, <2>3 DEF PushNext
    <3>2. CASE r.ok
      <4>1. Building(c, r.core, k, ty, i) /\ q \in PushOne(r.core, k, ty)
        BY <2>2, <3>1, <3>2
      <4> QED BY <4>1, PushOneOutcome
    <3>3. CASE ~ r.ok
      BY <2>2, <3>1, <3>3
    <3> QED BY <3>2, <3>3
  <2> QED BY <2>3
<1> HIDE DEF T
<1>6. T = Nat
  BY <1>4, <1>5, NatInduct DEF T
<1>7. P(n)
  BY <1>6 DEF T
<1> QED BY <1>2, <1>7
-----------------------------------------------------------------------------
(* An entry, and the whole file.                                           *)

EntryOK(e) == /\ e \in AllTypes \X Nat \X Nat
              /\ e[1] # "string" => e[2] > ObjBase

\* What entry e of a file has become under k.
Like(d, k, e) ==
    /\ d.type[k] = e[1] /\ d.payload[k] <= e[2]
    /\ e[3] <= d.expire_at[k] /\ d.expire_at[k] < e[3] + Second
    /\ d.expire_at[k] = 0 <=> e[3] = 0
    /\ e[1] # "string" => d.payload[k] > ObjBase

LEMMA DivBounds ==
    ASSUME NEW x \in Nat, NEW s \in Nat \ {0}
    PROVE  x \div s \in Nat /\ s * (x \div s) <= x /\ x < s * (x \div s) + s
OBVIOUS

\* A remaining time rounded up to whole seconds: never shorter, and less than
\* a second longer.
LEMMA RoundedUp ==
    ASSUME now \in Nat, NEW t \in Nat, now < t
    PROVE  Rounded(t) \in Nat /\ t <= Rounded(t) /\ Rounded(t) < t + Second
<1>1. Second \in Nat \ {0}
  BY SnapshotAssumption
<1> DEFINE x == t - now + Second - 1
           y == Second * (x \div Second)
<1>2. x \in Nat
  BY <1>1
<1>3. y \in Nat /\ y <= x /\ x < y + Second
  <2>1. x \div Second \in Nat /\ y <= x /\ x < y + Second
    BY <1>1, <1>2, DivBounds
  <2> HIDE DEF x
  <2>2. y \in Nat
    BY <1>1, <2>1
  <2> QED BY <2>1, <2>2
<1>4. Rounded(t) = now + y
  BY DEF Rounded
<1>5. y <= t - now + Second - 1 /\ t - now + Second - 1 < y + Second
  BY <1>3
<1> HIDE DEF x, y
<1> QED BY <1>1, <1>3, <1>4, <1>5

LEMMA ExpireOutcome ==
    ASSUME NEW c, Consistent(c), NEW k \in Linked(c), c.expire_at[k] = 0, NEW t \in Nat
    PROVE  LET d == Expire(c, k, t) IN
           /\ Consistent(d) /\ Spares(c, d, {k}) /\ k \in Linked(d)
           /\ d.payload[k] = c.payload[k] /\ d.type[k] = c.type[k] /\ d.expire_at[k] = t
<1> DEFINE x == SetExpireAt(c, k, t)
           d == Expire(c, k, t)
<1>1. c \in CoreType /\ k \in Keys /\ "string" \in AllTypes /\ 0 \in Nat
  BY DEF Consistent, CoreType, Linked, AllTypes
<1>2. FindEntry(c, k) = c
  BY <1>1, FindQuiet
<1>3. d = WatchTouch(x, {k})
  BY <1>2 DEF Expire
<1>4. Consistent(d)
  BY <1>1, ExpireConsistent
<1>5. /\ Edits(c, x, {k}) /\ Linked(x) = Linked(c) /\ x.payload = c.payload
      /\ x.type = c.type /\ x.expire_at[k] = t
  BY <1>1, SetExpireEdits
<1>6. x.maxmemory = c.maxmemory
  BY <1>1, LimitEdit
<1>7. Consistent(x)
  BY SetExpireConsistent
<1> HIDE DEF x, d
<1>8. d.maxmemory = x.maxmemory /\ \A j \in Keys : Same(x, d, j)
  <2>1. x \in CoreType /\ {k} \in SUBSET Keys
    BY <1>1, <1>7 DEF Consistent
  <2> QED BY <1>3, <2>1, LimitFree, TouchSame
<1>9. Spares(c, d, {k})
  <2>1. Spares(c, x, {k})
    BY <1>5, <1>6, EditsSpare
  <2>2. Spares(x, d, {})
    BY <1>8 DEF Spares
  <2> QED BY <2>1, <2>2, SparesChain
<1>10. /\ k \in Linked(d) /\ d.payload[k] = c.payload[k] /\ d.type[k] = c.type[k]
       /\ d.expire_at[k] = t
  BY <1>1, <1>5, <1>8 DEF Same
<1> QED BY <1>4, <1>9, <1>10 DEF d

LEMMA LoadOneOutcome ==
    ASSUME now \in Nat, NEW c, Consistent(c), NEW k \in Keys \ Linked(c),
           NEW e, EntryOK(e), e[3] = 0 \/ now < e[3], NEW o \in LoadOne(c, k, e)
    PROVE  /\ o.ok => /\ Consistent(o.core) /\ Spares(c, o.core, {k})
                      /\ k \in Linked(o.core) => Like(o.core, k, e)
                      /\ c.maxmemory = 0 => k \in Linked(o.core) /\ o.core.payload[k] = e[2]
           /\ c.maxmemory = 0 => o.ok
           /\ o.ok \in BOOLEAN
<1>1. e[1] \in AllTypes /\ e[2] \in Nat /\ e[3] \in Nat /\ Second \in Nat \ {0} /\ ObjBase \in Nat
  BY SnapshotAssumption, SizeAssumption DEF EntryOK
<1>2. CASE e[1] = "string"
  <2>1. PICK d \in EntrySetEx(c, k, e[2], e[3]) : o = [ok |-> TRUE, core |-> d]
    BY <1>2 DEF LoadOne, Done
  <2>2. /\ Consistent(d) /\ Spares(c, d, {k})
        /\ k \in Linked(d) => Stored(d, k, e[2], e[3])
        /\ c.maxmemory = 0 => Stored(d, k, e[2], e[3])
    BY <1>1, LoadString
  <2>3. Stored(d, k, e[2], e[3]) => Like(d, k, e) /\ k \in Linked(d) /\ d.payload[k] = e[2]
    BY <1>1, <1>2 DEF Stored, Like
  <2>4. o.ok = TRUE /\ o.core = d
    BY <2>1
  <2> QED BY <2>2, <2>3, <2>4
<1>3. CASE e[1] # "string"
  <2> DEFINE n == e[2] - ObjBase
             Finish(d) == IF e[3] = 0 THEN Done({d})
                          ELSE IF k \in Linked(d) THEN Done({Expire(d, k, Rounded(e[3]))})
                          ELSE Failed(d)
  <2>1. n \in Nat /\ n > 0 /\ ObjBase + n = e[2]
    BY <1>1, <1>3 DEF EntryOK
  <2>2. PICK q \in PushElements(c, k, e[1], n) : o \in IF q.ok THEN Finish(q.core) ELSE {q}
    BY <1>3 DEF LoadOne, Then
  <2> HIDE DEF n, Finish
  <2>3. /\ q.ok => Building(c, q.core, k, e[1], n)
        /\ c.maxmemory = 0 => q.ok
        /\ q.ok \in BOOLEAN
    BY <1>1, <2>1, PushElementsOutcome
  <2>4. CASE ~ q.ok
    BY <2>2, <2>3, <2>4
  <2>5. CASE q.ok
    <3> DEFINE d == q.core
    <3>1. /\ Consistent(d) /\ Spares(c, d, {k}) /\ d.expire_at[k] = 0
          /\ k \in Linked(d) => /\ d.type[k] = e[1]
                                /\ ObjBase < d.payload[k] /\ d.payload[k] <= e[2]
          /\ c.maxmemory = 0 => k \in Linked(d) /\ d.payload[k] = e[2]
      BY <2>1, <2>3, <2>5 DEF Building
    <3>2. o \in Finish(d)
      BY <2>2, <2>5
    <3> HIDE DEF d
    <3>3. CASE e[3] = 0
      <4>1. o = [ok |-> TRUE, core |-> d]
        BY <3>2, <3>3 DEF Finish, Done
      <4>2. o.ok = TRUE /\ o.core = d
        BY <4>1
      <4>3. k \in Linked(d) => Like(d, k, e)
        BY <1>1, <3>1, <3>3 DEF Like
      <4> QED BY <3>1, <4>2, <4>3
    <3>4. CASE e[3] # 0 /\ k \in Linked(d)
      <4> DEFINE t == Rounded(e[3])
                 x == Expire(d, k, t)
      <4>1. o = [ok |-> TRUE, core |-> x]
        BY <3>2, <3>4 DEF Finish, Done
      <4>2. t \in Nat /\ e[3] <= t /\ t < e[3] + Second
        BY <1>1, <3>4, RoundedUp
      <4> HIDE DEF t
      <4>3. /\ Consistent(x) /\ Spares(d, x, {k}) /\ k \in Linked(x)
            /\ x.payload[k] = d.payload[k] /\ x.type[k] = d.type[k] /\ x.expire_at[k] = t
        <5>1. Consistent(d) /\ k \in Linked(d) /\ d.expire_at[k] = 0
          BY <3>1, <3>4
        <5>2. t \in Nat
          BY <4>2
        <5> QED BY <5>1, <5>2, ExpireOutcome, Zenon
      <4> HIDE DEF x
      <4>4. o.ok = TRUE /\ o.core = x
        BY <4>1
      <4>5. Spares(c, x, {k})
        BY <3>1, <4>3, SparesChain
      <4>6. Like(x, k, e)
        BY <1>1, <3>1, <3>4, <4>2, <4>3 DEF Like
      <4> QED BY <3>1, <4>3, <4>4, <4>5, <4>6
    <3>5. CASE e[3] # 0 /\ k \notin Linked(d)
      <4>1. o = [ok |-> FALSE, core |-> d]
        BY <3>2, <3>5 DEF Finish, Failed
      <4>2. o.ok = FALSE
        BY <4>1
      <4> QED BY <3>1, <3>5, <4>2
    <3> QED BY <3>3, <3>4, <3>5
  <2> QED BY <2>3, <2>4, <2>5
<1> QED BY <1>2, <1>3

EntriesOK(f) == \A k \in DOMAIN f : k \in Keys /\ EntryOK(f[k])

LoadNext(O, k, f) == UNION {IF o.ok THEN LoadEntry(o.core, k, f) ELSE {o} : o \in O}

LoadStep(c, order, f, n, g) ==
    g = [i \in 0..n |-> IF i = 0 THEN Done({c}) ELSE LoadNext(g[i - 1], order[i], f)]

LEMMA LoadExists ==
    ASSUME NEW c, NEW order, NEW f, NEW n \in Nat
    PROVE  \E g : LoadStep(c, order, f, n, g)
<1> DEFINE T == {m \in Nat : \E g : LoadStep(c, order, f, m, g)}
<1>1. 0 \in T
  <2> DEFINE g == [i \in 0..0 |-> Done({c})]
  <2>1. LoadStep(c, order, f, 0, g)
    BY DEF LoadStep
  <2> QED BY <2>1
<1>2. ASSUME NEW m \in T PROVE m + 1 \in T
  <2>1. PICK g : LoadStep(c, order, f, m, g)
    OBVIOUS
  <2> DEFINE h == [i \in 0..(m + 1) |->
                      IF i = m + 1 THEN LoadNext(g[m], order[m + 1], f) ELSE g[i]]
  <2>2. \A i \in 0..m : g[i] = IF i = 0 THEN Done({c}) ELSE LoadNext(g[i - 1], order[i], f)
    BY <2>1 DEF LoadStep
  <2>3. ASSUME NEW i \in 0..(m + 1)
        PROVE  h[i] = IF i = 0 THEN Done({c}) ELSE LoadNext(h[i - 1], order[i], f)
    <3>1. CASE i = m + 1
      <4>1. i # 0 /\ i - 1 = m /\ m \in 0..(m + 1) /\ m # m + 1 /\ m + 1 \in 0..(m + 1)
        BY <3>1
      <4>2. h[i - 1] = g[m] /\ h[i] = LoadNext(g[m], order[m + 1], f)
        BY <3>1, <4>1
      <4> QED BY <3>1, <4>1, <4>2
    <3>2. CASE i # m + 1
      <4>1. i \in 0..m /\ h[i] = g[i]
        BY <3>2
      <4>2. CASE i = 0
        BY <2>2, <4>1, <4>2
      <4>3. CASE i # 0
        <5>1. i - 1 \in 0..(m + 1) /\ i - 1 # m + 1
          BY <4>1, <4>3
        <5>2. h[i - 1] = g[i - 1]
          BY <5>1
        <5> HIDE DEF h
        <5> QED BY <2>2, <4>1, <4>3, <5>2
      <4> QED BY <4>2, <4>3
    <3> QED BY <3>1, <3>2
  <2>4. h = [i \in 0..(m + 1) |-> h[i]]
    OBVIOUS
  <2> HIDE DEF h
  <2>5. LoadStep(c, order, f, m + 1, h)
    BY <2>3, <2>4 DEF LoadStep
  <2> QED BY <2>5
<1> HIDE DEF T
<1>3. T = Nat
  BY <1>1, <1>2, NatInduct DEF T
<1> QED BY <1>3 DEF T

\* After i entries of the file: every key that is there is one of them, and
\* like its entry; without a limit none of them is missing.
Partly(c, d, order, f, i) ==
    /\ Consistent(d) /\ d.maxmemory = c.maxmemory
    /\ \A k \in Linked(d) : /\ k \in Live(f, now) /\ \E j \in 1..i : order[j] = k
                            /\ Like(d, k, f[k])
    /\ c.maxmemory = 0 =>
         \A j \in 1..i : order[j] \in Live(f, now) =>
            order[j] \in Linked(d) /\ d.payload[order[j]] = f[order[j]][2]

LEMMA LoadEntryOutcome ==
    ASSUME now \in Nat, NEW c, NEW f, EntriesOK(f), NEW n \in Nat, NEW order \in [1..n -> DOMAIN f],
           \A i, j \in 1..n : i # j => order[i] # order[j],
           NEW i \in Nat, i + 1 <= n, NEW d, Partly(c, d, order, f, i),
           NEW o \in LoadEntry(d, order[i + 1], f)
    PROVE  /\ o.ok => Partly(c, o.core, order, f, i + 1)
           /\ c.maxmemory = 0 /\ (\A k \in DOMAIN f : Readable(k, f[k])) => o.ok
           /\ o.ok \in BOOLEAN
<1> DEFINE k == order[i + 1]
<1>1. i + 1 \in 1..n /\ k \in DOMAIN f /\ k \in Keys /\ EntryOK(f[k])
  BY DEF EntriesOK
<1>2. \A j \in 1..i : order[j] # k
  <2>1. \A j \in 1..i : j \in 1..n /\ j # i + 1
    OBVIOUS
  <2> QED BY <1>1, <2>1
<1>3. /\ Consistent(d) /\ d.maxmemory = c.maxmemory
      /\ \A x \in Linked(d) : /\ x \in Live(f, now) /\ \E j \in 1..i : order[j] = x
                              /\ Like(d, x, f[x])
      /\ c.maxmemory = 0 =>
           \A j \in 1..i : order[j] \in Live(f, now) =>
              order[j] \in Linked(d) /\ d.payload[order[j]] = f[order[j]][2]
  BY DEF Partly
<1>4. \A j : j \in 1..(i + 1) <=> j \in 1..i \/ j = i + 1
  OBVIOUS
<1> HIDE DEF k
<1>r. CASE ~ Readable(k, f[k])
  <2>1. o = [ok |-> FALSE, core |-> d]
    BY <1>r DEF LoadEntry, Failed, k
  <2>2. o.ok = FALSE
    BY <2>1
  <2> QED BY <1>1, <1>r, <2>2
<1>5. CASE Readable(k, f[k]) /\ k \notin Live(f, now)
  <2>1. o = [ok |-> TRUE, core |-> d]
    BY <1>5 DEF LoadEntry, Done, k
  <2>2. o.ok = TRUE /\ o.core = d
    BY <2>1
  <2>3. Partly(c, d, order, f, i + 1)
    BY <1>3, <1>4, <1>5 DEF Partly, k
  <2> QED BY <2>2, <2>3, Zenon
<1>6. CASE Readable(k, f[k]) /\ k \in Live(f, now)
  <2>1. k \in Keys \ Linked(d) /\ (f[k][3] = 0 \/ now < f[k][3])
    BY <1>1, <1>2, <1>3, <1>6 DEF Live
  <2>2. o \in LoadOne(d, k, f[k])
    BY <1>6 DEF LoadEntry, k
  <2>3. /\ o.ok => /\ Consistent(o.core) /\ Spares(d, o.core, {k})
                   /\ k \in Linked(o.core) => Like(o.core, k, f[k])
                   /\ d.maxmemory = 0 => k \in Linked(o.core) /\ o.core.payload[k] = f[k][2]
        /\ d.maxmemory = 0 => o.ok
        /\ o.ok \in BOOLEAN
    BY <1>1, <1>3, <2>1, <2>2, LoadOneOutcome
  <2>4. ASSUME o.ok PROVE Partly(c, o.core, order, f, i + 1)
    <3> DEFINE e == o.core
    <3>1. /\ Consistent(e) /\ e.maxmemory = d.maxmemory
          /\ \A x \in Keys \ {k} : Same(d, e, x) \/ Gone(e, x)
          /\ d.maxmemory = 0 => \A x \in Keys \ {k} : Same(d, e, x)
          /\ k \in Linked(e) => Like(e, k, f[k])
          /\ d.maxmemory = 0 => k \in Linked(e) /\ e.payload[k] = f[k][2]
      BY <2>3, <2>4 DEF Spares
    <3> HIDE DEF e
    <3>2. ASSUME NEW x \in Linked(e)
          PROVE  /\ x \in Live(f, now) /\ \E j \in 1..(i + 1) : order[j] = x
                 /\ Like(e, x, f[x])
      <4>1. CASE x = k
        BY <1>4, <1>6, <3>1, <3>2, <4>1 DEF k
      <4>2. CASE x # k
        <5>1. x \in Keys
          BY <3>1, <3>2 DEF Consistent, CoreType, Linked
        <5>2. Same(d, e, x)
          BY <3>1, <3>2, <4>2, <5>1 DEF Gone
        <5>3. x \in Linked(d)
          BY <3>2, <5>2 DEF Same
        <5>4. x \in Live(f, now) /\ (\E j \in 1..i : order[j] = x) /\ Like(d, x, f[x])
          BY <1>3, <5>3
        <5>5. Like(e, x, f[x])
          BY <5>2, <5>4 DEF Like, Same
        <5> QED BY <1>4, <5>4, <5>5
      <4> QED BY <4>1, <4>2
    <3>3. ASSUME c.maxmemory = 0, NEW j \in 1..(i + 1), order[j] \in Live(f, now)
          PROVE  order[j] \in Linked(e) /\ e.payload[order[j]] = f[order[j]][2]
      <4>1. CASE j = i + 1
        BY <1>3, <3>1, <3>3, <4>1 DEF k
      <4>2. CASE j \in 1..i
        <5>1. order[j] \in Linked(d) /\ d.payload[order[j]] = f[order[j]][2] /\ order[j] # k
          BY <1>2, <1>3, <3>3, <4>2
        <5>2. order[j] \in Keys
          BY <1>3, <5>1 DEF Consistent, CoreType, Linked
        <5>3. Same(d, e, order[j])
          BY <1>3, <3>1, <3>3, <5>1, <5>2
        <5> QED BY <5>1, <5>3 DEF Same
      <4> QED BY <1>4, <4>1, <4>2
    <3>4. Partly(c, e, order, f, i + 1)
      BY <1>3, <3>1, <3>2, <3>3 DEF Partly
    <3> QED BY <3>4 DEF e
  <2> QED BY <1>3, <2>3, <2>4
<1> QED BY <1>r, <1>5, <1>6

LEMMA LoadNotTooMany ==
    ASSUME now \in Nat, NEW c, Consistent(c), Linked(c) = {}, NEW file,
           EntriesOK(file.entries), file.count = Cardinality(DOMAIN file.entries),
           ~ (file.count > MaxEntries), NEW o \in Load(file, c)
    PROVE  /\ o.ok =>
                /\ Consistent(o.core) /\ o.core.maxmemory = c.maxmemory
                /\ \A k \in Linked(o.core) :
                      k \in Live(file.entries, now) /\ Like(o.core, k, file.entries[k])
                /\ c.maxmemory = 0 =>
                      \A k \in Live(file.entries, now) :
                         k \in Linked(o.core) /\ o.core.payload[k] = file.entries[k][2]
           /\ c.maxmemory = 0 /\ (\A k \in DOMAIN file.entries : Readable(k, file.entries[k])) => o.ok
           /\ o.ok \in BOOLEAN
<1> DEFINE f == file.entries
           n == Cardinality(DOMAIN f)
           fits == \A k \in DOMAIN f : Readable(k, f[k])
<1>1. DOMAIN f \in SUBSET Keys
  BY DEF EntriesOK
<1>2. n \in Nat /\ IsFiniteSet(DOMAIN f)
  BY <1>1, KeySets
<1>3. file.count = n /\ ~ (file.count > n)
  BY <1>2
<1>4. PICK order \in SetToSeqs(DOMAIN f) : o \in LoadEntries(file, order, c)
  BY <1>3 DEF Load
<1>5. order \in [1..n -> DOMAIN f] /\ \A i, j \in 1..n : i # j => order[i] # order[j]
  BY DEF SetToSeqs
<1> DEFINE g == CHOOSE g : LoadStep(c, order, f, n, g)
<1>6. LoadStep(c, order, f, n, g)
  BY <1>2, LoadExists
<1>7. LoadEntries(file, order, c) = g[n]
  BY <1>3 DEF LoadEntries, LoadStep, LoadNext, Then
<1> HIDE DEF g, n, f, fits
<1>8. \A i \in 0..n : g[i] = IF i = 0 THEN Done({c}) ELSE LoadNext(g[i - 1], order[i], f)
  BY <1>6 DEF LoadStep
<1> DEFINE P(i) == \A q \in g[i] : /\ q.ok => Partly(c, q.core, order, f, i)
                                   /\ c.maxmemory = 0 /\ fits => q.ok
                                   /\ q.ok \in BOOLEAN
           T == {i \in Nat : i <= n => P(i)}
<1>9. 0 \in T
  <2>1. Partly(c, c, order, f, 0)
    BY DEF Partly
  <2>2. 0 \in 0..n /\ g[0] = Done({c})
    BY <1>2, <1>8
  <2>3. \A q \in g[0] : q = [ok |-> TRUE, core |-> c]
    BY <2>2 DEF Done
  <2>4. P(0)
    <3>1. ASSUME NEW q \in g[0] PROVE q.ok = TRUE /\ q.core = c
      BY <2>3
    <3> QED BY <2>1, <3>1, Zenon
  <2> HIDE DEF P
  <2> QED BY <2>4
<1>10. ASSUME NEW i \in T PROVE i + 1 \in T
  <2> SUFFICES ASSUME i + 1 <= n PROVE P(i + 1)
    OBVIOUS
  <2>1. i \in Nat /\ i + 1 \in 0..n /\ i \in 0..n /\ i + 1 # 0 /\ i + 1 - 1 = i /\ i <= n
    BY <1>2
  <2>2. g[i + 1] = LoadNext(g[i], order[i + 1], f) /\ P(i)
    BY <1>8, <2>1
  <2>3. ASSUME NEW q \in g[i + 1]
        PROVE  /\ q.ok => Partly(c, q.core, order, f, i + 1)
               /\ c.maxmemory = 0 /\ fits => q.ok
               /\ q.ok \in BOOLEAN
    <3>1. PICK r \in g[i] : q \in IF r.ok THEN LoadEntry(r.core, order[i + 1], f) ELSE {r}
      BY <2>2, <2>3 DEF LoadNext
    <3>2. CASE r.ok
      <4>1. Partly(c, r.core, order, f, i) /\ q \in LoadEntry(r.core, order[i + 1], f)
        BY <2>2, <3>1, <3>2
      <4>2. EntriesOK(f)
        BY DEF f
      <4>3. /\ q.ok => Partly(c, q.core, order, f, i + 1)
            /\ c.maxmemory = 0 /\ (\A k \in DOMAIN f : Readable(k, f[k])) => q.ok
            /\ q.ok \in BOOLEAN
        BY <1>2, <1>5, <2>1, <4>1, <4>2, LoadEntryOutcome
      <4> QED BY <4>3 DEF fits
    <3>3. CASE ~ r.ok
      BY <2>2, <3>1, <3>3
    <3> QED BY <3>2, <3>3
  <2> QED BY <2>3
<1> HIDE DEF T
<1>11. T = Nat
  BY <1>9, <1>10, NatInduct DEF T
<1>12. P(n)
  BY <1>2, <1>11 DEF T
<1>13. \A k \in DOMAIN f : \E j \in 1..n : order[j] = k
  <2>1. order \in Injection(1..n, DOMAIN f)
    BY <1>5 DEF Injection, IsInjective
  <2>2. Cardinality(1..n) = Cardinality(DOMAIN f)
    <3>1. Cardinality(1..n) = IF 1 > n THEN 0 ELSE n - 1 + 1
      <4>1. 1 \in Int /\ n \in Int
        BY <1>2
      <4> QED BY <4>1, FS_Interval, Zenon
    <3>2. Cardinality(1..n) = n
      BY <1>2, <3>1
    <3> QED BY <3>2 DEF n
  <2>3. order \in Surjection(1..n, DOMAIN f)
    BY <1>2, <2>1, <2>2, FS_Injection
  <2> QED BY <2>3 DEF Surjection
<1>14. /\ o.ok => Partly(c, o.core, order, f, n)
       /\ c.maxmemory = 0 /\ fits => o.ok
       /\ o.ok \in BOOLEAN
  BY <1>4, <1>7, <1>12
<1>15. ASSUME o.ok, c.maxmemory = 0, NEW k \in Live(f, now)
       PROVE  k \in Linked(o.core) /\ o.core.payload[k] = f[k][2]
  <2>1. k \in DOMAIN f
    BY DEF Live
  <2>2. PICK j \in 1..n : order[j] = k
    BY <1>13, <2>1
  <2> QED BY <1>14, <1>15, <2>2 DEF Partly
<1>16. o.ok => /\ Consistent(o.core) /\ o.core.maxmemory = c.maxmemory
               /\ \A k \in Linked(o.core) : k \in Live(f, now) /\ Like(o.core, k, f[k])
  BY <1>14 DEF Partly
<1> QED BY <1>14, <1>15, <1>16 DEF f, fits

\* Whatever a start loads is consistent and of the dump, and without a limit
\* it loads all of it and cannot fail.
LEMMA LoadOutcome ==
    ASSUME now \in Nat, NEW c, Consistent(c), Linked(c) = {}, NEW file,
           EntriesOK(file.entries), file.count = Cardinality(DOMAIN file.entries),
           NEW o \in Load(file, c)
    PROVE  /\ o.ok =>
                /\ Consistent(o.core) /\ o.core.maxmemory = c.maxmemory
                /\ \A k \in Linked(o.core) :
                      k \in Live(file.entries, now) /\ Like(o.core, k, file.entries[k])
                /\ c.maxmemory = 0 =>
                      \A k \in Live(file.entries, now) :
                         k \in Linked(o.core) /\ o.core.payload[k] = file.entries[k][2]
           /\ c.maxmemory = 0 /\ WithinLimits(file) => o.ok
           /\ o.ok \in BOOLEAN
<1>1. CASE file.count > MaxEntries
  <2>1. o = [ok |-> FALSE, core |-> c]
    BY <1>1 DEF Load, Failed
  <2>2. o.ok = FALSE
    BY <2>1
  <2>3. ~ WithinLimits(file)
    <3>1. DOMAIN file.entries \in SUBSET Keys
      BY DEF EntriesOK
    <3>2. file.count \in Nat /\ MaxEntries \in Nat
      BY <3>1, KeySets, SnapshotAssumption
    <3> QED BY <1>1, <3>2 DEF WithinLimits
  <2> QED BY <2>2, <2>3
<1>2. CASE ~ (file.count > MaxEntries)
  BY <1>2, LoadNotTooMany DEF WithinLimits
<1> QED BY <1>1, <1>2

-----------------------------------------------------------------------------
(* What is saved.                                                          *)

\* No object is empty.
Full(c) == \A k \in Linked(c) : c.type[k] # "string" => c.payload[k] > ObjBase

LEMMA ContentFields ==
    ASSUME NEW c
    PROVE  /\ DOMAIN Content(c) = Linked(c)
           /\ \A k \in Linked(c) : /\ Content(c)[k] = <<c.type[k], c.payload[k], c.expire_at[k]>>
                                   /\ Content(c)[k][3] = c.expire_at[k]
           /\ Content(c) = [k \in Linked(c) |-> Content(c)[k]]
BY DEF Content

LEMMA ContentOK ==
    ASSUME NEW c \in CoreType, Full(c)
    PROVE  EntriesOK(Content(c))
<1> SUFFICES ASSUME NEW k \in Linked(c) PROVE k \in Keys /\ EntryOK(Content(c)[k])
  BY ContentFields DEF EntriesOK
<1>1. k \in Keys /\ c.type[k] \in AllTypes /\ c.payload[k] \in Nat /\ c.expire_at[k] \in Nat
  BY DEF CoreType, Linked
<1>2. Content(c)[k] = <<c.type[k], c.payload[k], c.expire_at[k]>>
  BY ContentFields
<1>3. c.type[k] # "string" => c.payload[k] > ObjBase
  BY DEF Full
<1> QED BY <1>1, <1>2, <1>3 DEF EntryOK

LEMMA SameContent ==
    ASSUME NEW c \in CoreType, NEW d \in CoreType, \A k \in Keys : Same(c, d, k)
    PROVE  Content(d) = Content(c) /\ Linked(d) = Linked(c) /\ (Full(c) => Full(d))
<1>1. Linked(c) \subseteq Keys /\ Linked(d) \subseteq Keys
  BY DEF CoreType, Linked
<1>2. Linked(d) = Linked(c)
  BY <1>1 DEF Same
<1>3. \A k \in Linked(c) : /\ d.type[k] = c.type[k] /\ d.payload[k] = c.payload[k]
                           /\ d.expire_at[k] = c.expire_at[k]
  BY <1>1 DEF Same
<1> QED BY <1>2, <1>3 DEF Content, Full

LEMMA FullLoses ==
    ASSUME NEW c, NEW d \in CoreType, Full(c), Loses(c, d)
    PROVE  Full(d)
<1>1. Linked(d) \subseteq Keys
  BY DEF CoreType, Linked
<1> QED BY <1>1 DEF Full, Loses, Same, Gone

LEMMA FullEdits ==
    ASSUME NEW c, NEW d \in CoreType, NEW k, Full(c), Edits(c, d, {k}),
           k \in Linked(d) => d.type[k] = "string" \/ d.payload[k] > ObjBase
    PROVE  Full(d)
<1>1. Linked(d) \subseteq Keys
  BY DEF CoreType, Linked
<1> QED BY <1>1 DEF Full, Edits, Same

LEMMA TouchFull ==
    ASSUME NEW c \in CoreType, Full(c), NEW k \in Keys
    PROVE  Full(WatchTouch(c, {k}))
<1>1. \A j \in Keys : Same(c, WatchTouch(c, {k}), j)
  BY TouchSame
<1>2. WatchTouch(c, {k}) \in CoreType
  BY DEF WatchTouch, CoreType
<1> QED BY <1>1, <1>2, SameContent

\* A write of a string, of a list of p elements, a deletion, a new deadline:
\* none of them leaves an empty object.
LEMMA SetFull ==
    ASSUME NEW c, Consistent(c), Full(c), NEW k \in Keys, NEW p \in Nat, NEW t \in Nat,
           NEW d \in EntrySetEx(c, k, p, t)
    PROVE  Consistent(d) /\ Full(d)
<1>0. Consistent(d)
  BY EntrySetConsistent
<1>1. Linked(d) \subseteq Keys
  BY <1>0 DEF Consistent, CoreType, Linked
<1>2. /\ Stored(d, k, p, t) \/ Gone(d, k)
      /\ \A j \in Keys \ {k} : Same(c, d, j) \/ Gone(d, j)
  BY EntrySetOutcome
<1> QED BY <1>0, <1>1, <1>2 DEF Full, Stored, Gone, Same

LEMMA DelFull ==
    ASSUME NEW c, Consistent(c), Full(c), NEW k \in Keys
    PROVE  Consistent(DelBin(c, k)) /\ Full(DelBin(c, k))
<1>1. Consistent(DelBin(c, k)) /\ DelBin(c, k) \in CoreType
  BY DelConsistent DEF Consistent
<1>2. Loses(c, DelBin(c, k))
  BY DelLoses
<1> QED BY <1>1, <1>2, FullLoses

LEMMA FindFull ==
    ASSUME NEW c, Consistent(c), Full(c), NEW k \in Keys
    PROVE  Consistent(FindEntry(c, k)) /\ Full(FindEntry(c, k)) /\ FindEntry(c, k) \in CoreType
<1>1. Consistent(FindEntry(c, k)) /\ FindEntry(c, k) \in CoreType
  BY FindConsistent DEF Consistent
<1>2. Loses(c, FindEntry(c, k))
  BY FindLoses DEF Consistent
<1> QED BY <1>1, <1>2, FullLoses

LEMMA ExpireFull ==
    ASSUME NEW c, Consistent(c), Full(c), NEW k \in Keys, NEW t \in Nat
    PROVE  Consistent(Expire(c, k, t)) /\ Full(Expire(c, k, t))
<1> DEFINE f == FindEntry(c, k)
           x == SetExpireAt(f, k, t)
<1>1. Consistent(f) /\ Full(f) /\ f \in CoreType
  BY FindFull
<1>2. Consistent(Expire(c, k, t))
  BY ExpireConsistent
<1>3. Expire(c, k, t) = IF k \in Linked(f) THEN WatchTouch(x, {k}) ELSE f
  BY DEF Expire
<1> HIDE DEF f
<1>4. CASE k \in Linked(f)
  <2>1. Consistent(x) /\ x \in CoreType
    BY <1>1, <1>4, SetExpireConsistent DEF Consistent
  <2>2. Linked(x) = Linked(f) /\ x.payload = f.payload /\ x.type = f.type
    BY <1>1, SetExpireEdits
  <2>3. Full(x)
    BY <1>1, <2>2 DEF Full
  <2> HIDE DEF x
  <2> QED BY <1>2, <1>3, <1>4, <2>1, <2>3, TouchFull
<1> QED BY <1>1, <1>2, <1>3, <1>4

LEMMA EvictFull ==
    ASSUME NEW c, Consistent(c), Full(c), NEW d \in MaybeEvict(c)
    PROVE  Consistent(d) /\ Full(d) /\ d \in CoreType
<1>1. Consistent(d) /\ d \in CoreType
  BY EvictConsistent DEF Consistent
<1>2. Loses(c, d)
  BY EvictLoses
<1> QED BY <1>1, <1>2, FullLoses

LEMMA AddFull ==
    ASSUME NEW c, Consistent(c), Full(c), NEW k \in Keys, NEW ty \in AllTypes, ty # "string",
           NEW p \in Nat \ {0}, NEW d \in ObjectAdd(c, k, ty, p)
    PROVE  Consistent(d) /\ Full(d)
<1> DEFINE f == FindEntry(c, k)
           q == ObjBase + p
           l == LinkNew(f, k, ty, ObjBase)
<1>1. Consistent(f) /\ Full(f) /\ f \in CoreType /\ ObjBase \in Nat /\ q \in Nat /\ q > ObjBase
  BY FindFull, SizeAssumption
<1>2. Consistent(d)
  BY ObjectAddConsistent
<1>3. PICK g \in GetOrCreate(c, k, ty) :
         d \in IF k \in Linked(g) /\ g.type[k] = ty
               THEN {WatchTouch(e, {k}) : e \in MaybeEvict(ResizeObject(g, k, q))} ELSE {g}
  BY DEF ObjectAdd
<1>4. \/ g = f /\ k \in Linked(f)
      \/ k \notin Linked(f) /\ \E e \in MaybeEvict(l) : g = FindEntry(e, k)
  BY DEF GetOrCreate
<1> HIDE DEF f, q
\* Only the new object may still be empty.
<1>5. /\ Consistent(g) /\ g \in CoreType
      /\ \A j \in Linked(g) \ {k} : g.type[j] # "string" => g.payload[j] > ObjBase
      /\ k \in Linked(g) => g.type[k] = ty \/ g.type[k] = "string" \/ g.payload[k] > ObjBase
  <2>1. CASE g = f
    BY <1>1, <2>1 DEF Full
  <2>2. CASE k \notin Linked(f) /\ \E e \in MaybeEvict(l) : g = FindEntry(e, k)
    <3>1. Consistent(l)
      BY <1>1, <2>2, LinkConsistent
    <3>2. Edits(f, l, {k}) /\ k \in Linked(l) /\ l.type[k] = ty
      BY <1>1, LinkEdits
    <3> HIDE DEF l
    <3>3. PICK e \in MaybeEvict(l) : g = FindEntry(e, k)
      BY <2>2
    <3>4. Consistent(e) /\ Loses(l, e)
      BY <3>1, EvictConsistent, EvictLoses
    <3>5. Consistent(g) /\ Loses(e, g) /\ g \in CoreType
      BY <3>3, <3>4, FindConsistent, FindLoses DEF Consistent
    <3>6. Loses(l, g)
      BY <3>4, <3>5, LosesChain
    <3>7. Linked(g) \subseteq Keys
      BY <3>5 DEF CoreType, Linked
    <3> QED BY <1>1, <3>2, <3>5, <3>6, <3>7 DEF Loses, Edits, Same, Gone, Full
  <2> QED BY <1>4, <2>1, <2>2
<1>6. CASE ~ (k \in Linked(g) /\ g.type[k] = ty)
  BY <1>2, <1>3, <1>5, <1>6 DEF Full
<1>7. CASE k \in Linked(g) /\ g.type[k] = ty
  <2> DEFINE r == ResizeObject(g, k, q)
  <2>1. PICK e \in MaybeEvict(r) : d = WatchTouch(e, {k})
    BY <1>3, <1>7
  <2>2. Consistent(r) /\ Edits(g, r, {k}) /\ r.payload[k] = q
    BY <1>1, <1>5, <1>7, ResizeOutcome
  <2> HIDE DEF r
  <2>3. Linked(r) \subseteq Keys
    BY <2>2 DEF Consistent, CoreType, Linked
  <2>4. Full(r)
    BY <1>1, <1>5, <2>2, <2>3 DEF Full, Edits, Same
  <2>5. Full(e) /\ e \in CoreType
    BY <2>2, <2>4, EvictFull
  <2> QED BY <1>2, <2>1, <2>5, TouchFull
<1> QED BY <1>6, <1>7
-----------------------------------------------------------------------------
(* The invariant.                                                          *)

Epochs == 0..(MaxEpoch + MaxCrashes)

\* A copy of the dictionary full lacks only keys that are due.
Fits(copy, full, t) ==
    /\ copy = [k \in DOMAIN copy |-> full[k]]
    /\ DOMAIN copy \subseteq DOMAIN full
    /\ \A k \in DOMAIN full \ DOMAIN copy : full[k][3] # 0 /\ full[k][3] <= t

\* File f holds what was live at f.at of the dictionary after change f.epoch.
IsSnapshot(f, h) ==
    /\ f.count = Cardinality(DOMAIN f.entries)
    /\ f.entries = [k \in Live(h[f.epoch], f.at) |-> h[f.epoch][k]]

CoreInv ==
    /\ Consistent(core) /\ Full(core) /\ now \in Nat
    /\ proc = "down" => Linked(core) = {}
    /\ refused # "unlimited"

\* Every restart makes room for one more change than MaxEpoch.
HistInv ==
    /\ crashes \in 0..MaxCrashes
    /\ epoch <= MaxEpoch + crashes
    /\ proc = "down" => epoch < MaxEpoch + crashes
    /\ hist = [e \in Epochs |-> hist[e]]
    /\ \A e \in Epochs : EntriesOK(hist[e])

FilesInv ==
    /\ IsSnapshot(dump, hist)
    /\ proc = "saving" => IsSnapshot(saving, hist)
    /\ \A p \in Pids : kids[p].stage = "written" => IsSnapshot(kids[p].file, hist)

CopiesInv ==
    /\ proc # "down" => Fits(Content(core), hist[epoch], now)
    /\ \A p \in Pids :
          kids[p].stage = "forked" => Fits(kids[p].content, hist[kids[p].epoch], now)

SnapInv == RecoveryInv /\ CoreInv /\ HistInv /\ FilesInv /\ CopiesInv

LEMMA FitsSelf ==
    ASSUME NEW c, NEW t
    PROVE  Fits(Content(c), Content(c), t)
BY ContentFields DEF Fits

LEMMA FitsLater ==
    ASSUME NEW copy, NEW full, EntriesOK(full), NEW t \in Nat, Fits(copy, full, t)
    PROVE  Fits(copy, full, t + 1)
<1>1. \A k \in DOMAIN full : full[k][3] \in Nat
  BY DEF EntriesOK, EntryOK
<1>2. \A k \in DOMAIN full \ DOMAIN copy : full[k][3] <= t + 1
  BY <1>1 DEF Fits
<1> QED BY <1>2 DEF Fits

\* A file written from such a copy is one of the dictionary itself.
LEMMA DumpOfFits ==
    ASSUME now \in Nat, NEW copy, NEW e, NEW h, EntriesOK(h[e]), Fits(copy, h[e], now)
    PROVE  IsSnapshot(DumpOf(copy, e), h) /\ DumpOf(copy, e).epoch = e
<1> DEFINE f == DumpOf(copy, e)
           full == h[e]
<1>1. /\ f.count = Cardinality(Live(copy, now)) /\ f.epoch = e /\ f.at = now
      /\ f.entries = [k \in Live(copy, now) |-> copy[k]]
  BY DEF DumpOf
<1>2. \A k \in DOMAIN full : full[k][3] \in Nat
  BY DEF EntriesOK, EntryOK
<1> HIDE DEF f, full
<1>3. \A k \in DOMAIN copy : copy[k] = full[k] /\ k \in DOMAIN full
  BY DEF Fits, full
<1>4. Live(copy, now) = Live(full, now)
  <2>1. ASSUME NEW k \in DOMAIN full, k \notin DOMAIN copy
        PROVE  ~ (full[k][3] = 0 \/ now < full[k][3])
    BY <1>2, <2>1 DEF Fits, full
  <2> QED BY <1>3, <2>1 DEF Live
<1>5. f.entries = [k \in Live(full, now) |-> full[k]]
  <2>1. \A k \in Live(copy, now) : copy[k] = full[k]
    BY <1>3 DEF Live
  <2> QED BY <1>1, <1>4, <2>1
<1>6. DOMAIN f.entries = Live(copy, now)
  BY <1>1
<1> QED BY <1>1, <1>5, <1>6 DEF IsSnapshot, f, full

\* The entries of a file are entries of its dictionary.
LEMMA SnapshotOK ==
    ASSUME NEW f, NEW h, IsSnapshot(f, h), EntriesOK(h[f.epoch])
    PROVE  EntriesOK(f.entries)
<1> DEFINE full == h[f.epoch]
           live == Live(full, f.at)
<1>1. f.entries = [k \in live |-> full[k]] /\ live \subseteq DOMAIN full
  BY DEF IsSnapshot, Live
<1>2. \A k \in DOMAIN full : k \in Keys /\ EntryOK(full[k])
  BY DEF EntriesOK
<1> HIDE DEF full, live
<1> QED BY <1>1, <1>2 DEF EntriesOK

\* What is left of the dictionary when the process ends: the options of the
\* next one.
LEMMA Emptied ==
    ASSUME NEW m \in Nat, NEW e \in {"noop", "sampled", "plugin"}
    PROVE  LET d == [EmptyCore EXCEPT !.maxmemory = m, !.evict = e] IN
           Consistent(d) /\ Linked(d) = {}
<1> DEFINE b == [EmptyCore EXCEPT !.maxmemory = m]
           d == [b EXCEPT !.evict = e]
<1>1. Consistent(b)
  BY EmptyConsistent, SettingsConsistent
<1>2. b.hot = {} /\ b.cold = {}
  BY DEF EmptyCore
<1>3. d = [EmptyCore EXCEPT !.maxmemory = m, !.evict = e]
  OBVIOUS
<1> HIDE DEF b
<1>4. Consistent(d)
  BY <1>1, SettingsConsistent
<1>5. d.hot = {} /\ d.cold = {}
  BY <1>1, <1>2 DEF Consistent, CoreType
<1> HIDE DEF d
<1> QED BY <1>3, <1>4, <1>5 DEF Linked

LEMMA SnapInit == SInit => SnapInv
<1> SUFFICES ASSUME SInit PROVE SnapInv
  OBVIOUS
<1>1. PICK m \in MaxMemories, e \in EvictNames :
        core = [EmptyCore EXCEPT !.maxmemory = m, !.evict = e]
  BY DEF SInit
<1>2. /\ now = 0 /\ proc = "up" /\ saving = NoFile /\ dump = NoFile
      /\ kids = [p \in Pids |-> NoKid] /\ refused = "no" /\ crashes = 0 /\ epoch = 0
      /\ hist = [x \in Epochs |-> NoFile.entries]
      /\ MaxEpoch \in Nat /\ MaxCrashes \in Nat
  BY SnapshotAssumption DEF SInit, Epochs
<1>3. Consistent(core) /\ Linked(core) = {}
  <2>1. m \in Nat /\ e \in {"noop", "sampled", "plugin"}
    BY KnobAssumption
  <2> QED BY <1>1, <2>1, Emptied
<1>4. CoreInv
  BY <1>2, <1>3 DEF CoreInv, Full
<1>5. /\ NoFile.entries = [k \in {} |-> <<>>] /\ NoFile.count = 0
      /\ NoFile.epoch = 0 /\ NoFile.at = 0
  BY DEF NoFile
<1>6. HistInv
  <2>1. \A x \in Epochs : EntriesOK(hist[x])
    BY <1>2, <1>5 DEF EntriesOK
  <2>2. hist = [x \in Epochs |-> hist[x]]
    BY <1>2
  <2>3. crashes \in 0..MaxCrashes /\ epoch <= MaxEpoch + crashes
    BY <1>2
  <2> QED BY <1>2, <2>1, <2>2, <2>3 DEF HistInv
<1>7. 0 \in Epochs /\ hist[0] = NoFile.entries
  BY <1>2 DEF Epochs
<1>8. FilesInv
  <2>1. IsSnapshot(NoFile, hist)
    <3>1. Live(NoFile.entries, 0) = {}
      BY <1>5 DEF Live
    <3>2. Cardinality(DOMAIN NoFile.entries) = 0
      BY <1>5, FS_EmptySet
    <3>3. NoFile.entries = [k \in {} |-> hist[0][k]]
      BY <1>5
    <3> QED BY <1>5, <1>7, <3>1, <3>2, <3>3 DEF IsSnapshot
  <2>2. NoKid.stage = "none"
    BY DEF NoKid
  <2> QED BY <1>2, <2>1, <2>2 DEF FilesInv
<1>9. CopiesInv
  <2>1. Content(core) = NoFile.entries
    BY <1>3, <1>5 DEF Content
  <2>2. Fits(Content(core), hist[epoch], now)
    BY <1>2, <1>7, <2>1, FitsSelf
  <2>3. NoKid.stage = "none"
    BY DEF NoKid
  <2> QED BY <1>2, <2>2, <2>3 DEF CopiesInv
<1> QED BY <1>4, <1>6, <1>8, <1>9, RecoveryInit DEF SnapInv

LEMMA SmallEpochs ==
    ASSUME SnapInv
    PROVE  /\ epoch \in Nat /\ epoch \in Epochs /\ 0..epoch \subseteq Epochs
           /\ dump.epoch \in 0..epoch /\ saving.epoch \in 0..epoch
           /\ \A p \in Pids : kids[p].epoch \in 0..epoch
           /\ \A p \in Pids : kids[p].epoch \in Epochs
           /\ \A p \in Pids : kids[p].stage = "written" => kids[p].file.epoch \in 0..epoch
<1>1. /\ epoch \in Nat /\ crashes \in 0..MaxCrashes /\ MaxEpoch \in Nat /\ MaxCrashes \in Nat
      /\ epoch <= MaxEpoch + crashes
      /\ dump.epoch \in 0..epoch /\ saving.epoch \in 0..epoch
      /\ \A p \in Pids : KidOK(kids[p], epoch)
  BY SnapshotAssumption DEF SnapInv, RecoveryInv, Books, HistInv
<1>2. epoch \in Epochs /\ 0..epoch \subseteq Epochs
  BY <1>1 DEF Epochs
<1>3. \A p \in Pids : /\ kids[p].epoch \in 0..epoch
                      /\ kids[p].stage = "written" => kids[p].file.epoch \in 0..epoch
  BY <1>1 DEF KidOK
<1>4. \A p \in Pids : kids[p].epoch \in Epochs
  BY <1>2, <1>3, Zenon
<1> QED BY <1>1, <1>2, <1>3, <1>4

LEMMA Untouched ==
    ASSUME NEW c, Consistent(c)
    PROVE  LET d == [c EXCEPT !.touched = {}] IN
           /\ Consistent(d) /\ \A k \in Keys : Same(c, d, k)
           /\ d.maxmemory = c.maxmemory
<1> DEFINE d == [c EXCEPT !.touched = {}]
<1>1. c \in CoreType
  BY DEF Consistent
<1>2. /\ d \in CoreType /\ d.payload = c.payload /\ d.maxmemory = c.maxmemory
      /\ d.hot = c.hot /\ d.cold = c.cold /\ d.pinned = c.pinned
      /\ d.expire_at = c.expire_at /\ d.type = c.type /\ d.layout = c.layout
      /\ d.nkeys = c.nkeys /\ d.hot_nkeys = c.hot_nkeys
      /\ d.cold_nkeys = c.cold_nkeys /\ d.keys_with_ttl = c.keys_with_ttl
      /\ d.pinned_keys = c.pinned_keys /\ d.type_nkeys = c.type_nkeys
  BY <1>1 DEF CoreType
<1> HIDE DEF d
<1>3. Consistent(d)
  BY <1>2, SameCounters
<1>4. \A k \in Keys : Same(c, d, k)
  BY <1>2 DEF Same, Linked
<1> QED BY <1>2, <1>3, <1>4 DEF d

\* What a start finds in the dump.
LEMMA StartOutcome ==
    ASSUME SnapInv, proc = "down", NEW m \in MaxMemories,
           NEW o \in Load(dump, [core EXCEPT !.maxmemory = m])
    PROVE  /\ m = 0 /\ WithinLimits(dump) => o.ok
           /\ o.ok => LET d == [o.core EXCEPT !.touched = {}] IN
                /\ Consistent(d) /\ Full(d) /\ d.maxmemory = m
                /\ Content(o.core) = Content(d)
                /\ \A k \in Linked(d) :
                      k \in Live(dump.entries, now) /\ Like(d, k, dump.entries[k])
                /\ m = 0 => \A k \in Live(dump.entries, now) :
                      k \in Linked(d) /\ d.payload[k] = dump.entries[k][2]
           /\ o.ok \in BOOLEAN
<1> DEFINE c == [core EXCEPT !.maxmemory = m]
           d == [o.core EXCEPT !.touched = {}]
<1>1. m \in Nat /\ now \in Nat /\ Consistent(core) /\ core \in CoreType /\ Linked(core) = {}
  BY KnobAssumption DEF SnapInv, CoreInv, Consistent
<1>2. Consistent(c)
  <2>1. "noop" \in {"noop", "sampled", "plugin"} /\ TRUE \in BOOLEAN
    OBVIOUS
  <2> QED BY <1>1, <2>1, SettingsConsistent
<1>3. Linked(c) = {} /\ c.maxmemory = m
  BY <1>1 DEF CoreType, Linked
<1>4. EntriesOK(dump.entries) /\ dump.count = Cardinality(DOMAIN dump.entries)
  <2>1. dump.epoch \in Epochs
    BY SmallEpochs
  <2>2. IsSnapshot(dump, hist) /\ EntriesOK(hist[dump.epoch])
    BY <2>1 DEF SnapInv, FilesInv, HistInv
  <2> QED BY <2>2, SnapshotOK DEF IsSnapshot
<1>5. o \in Load(dump, c)
  OBVIOUS
<1> HIDE DEF c
<1>6. /\ o.ok =>
           /\ Consistent(o.core) /\ o.core.maxmemory = m
           /\ \A k \in Linked(o.core) :
                 k \in Live(dump.entries, now) /\ Like(o.core, k, dump.entries[k])
           /\ m = 0 =>
                 \A k \in Live(dump.entries, now) :
                    k \in Linked(o.core) /\ o.core.payload[k] = dump.entries[k][2]
      /\ m = 0 /\ WithinLimits(dump) => o.ok
      /\ o.ok \in BOOLEAN
  <2>1. /\ o.ok =>
             /\ Consistent(o.core) /\ o.core.maxmemory = c.maxmemory
             /\ \A k \in Linked(o.core) :
                   k \in Live(dump.entries, now) /\ Like(o.core, k, dump.entries[k])
             /\ c.maxmemory = 0 =>
                   \A k \in Live(dump.entries, now) :
                      k \in Linked(o.core) /\ o.core.payload[k] = dump.entries[k][2]
        /\ c.maxmemory = 0 /\ WithinLimits(dump) => o.ok
        /\ o.ok \in BOOLEAN
    <3>1. now \in Nat /\ Linked(c) = {}
      BY <1>1, <1>3
    <3> QED BY <1>2, <1>4, <1>5, <3>1, LoadOutcome, Zenon
  <2> QED BY <1>3, <2>1, Zenon
<1>7. ASSUME o.ok
      PROVE  /\ Consistent(d) /\ Full(d) /\ d.maxmemory = m
             /\ Content(o.core) = Content(d)
             /\ \A k \in Linked(d) :
                   k \in Live(dump.entries, now) /\ Like(d, k, dump.entries[k])
             /\ m = 0 => \A k \in Live(dump.entries, now) :
                   k \in Linked(d) /\ d.payload[k] = dump.entries[k][2]
  <2> DEFINE b == o.core
  <2>1. /\ Consistent(b) /\ b.maxmemory = m
        /\ \A k \in Linked(b) :
              k \in Live(dump.entries, now) /\ Like(b, k, dump.entries[k])
        /\ m = 0 =>
              \A k \in Live(dump.entries, now) :
                 k \in Linked(b) /\ b.payload[k] = dump.entries[k][2]
    BY <1>6, <1>7
  <2>2. d = [b EXCEPT !.touched = {}]
    OBVIOUS
  <2> HIDE DEF b, d
  <2>3. Consistent(d) /\ d.maxmemory = b.maxmemory /\ \A k \in Keys : Same(b, d, k)
    BY <2>1, <2>2, Untouched
  <2>4. Content(d) = Content(b) /\ Linked(d) = Linked(b)
    BY <2>1, <2>3, SameContent DEF Consistent
  <2>5. Linked(b) \subseteq Keys
    BY <2>1 DEF Consistent, CoreType, Linked
  <2>6. \A k \in Linked(d) : Like(d, k, dump.entries[k])
    BY <2>1, <2>3, <2>4, <2>5 DEF Like, Same
  <2>7. Full(d)
    BY <2>6 DEF Full, Like
  <2>8. m = 0 => \A k \in Live(dump.entries, now) : d.payload[k] = dump.entries[k][2]
    BY <2>1, <2>3, <2>5 DEF Same
  <2> QED BY <2>1, <2>3, <2>4, <2>6, <2>7, <2>8 DEF b
<1> QED BY <1>6, <1>7

LEMMA CoreNext == SnapInv /\ [SNext]_svars => CoreInv'
<1> SUFFICES ASSUME SnapInv, [SNext]_svars PROVE CoreInv'
  OBVIOUS
<1>0. /\ Consistent(core) /\ core \in CoreType /\ Full(core) /\ now \in Nat
      /\ proc = "down" => Linked(core) = {}
      /\ refused # "unlimited" /\ proc \in {"up", "saving", "down"}
  BY DEF SnapInv, CoreInv, Consistent, RecoveryInv, Books
<1>a. /\ Consistent(Fresh) /\ Fresh \in CoreType /\ Full(Fresh)
      /\ Linked(Fresh) = Linked(core)
  <2>1. Consistent(Fresh) /\ Fresh \in CoreType
    BY <1>0, FreshConsistent DEF Consistent
  <2>2. \A k \in Keys : Same(core, Fresh, k)
    BY <1>0, FreshSame
  <2> QED BY <1>0, <2>1, <2>2, SameContent
<1>1. ASSUME Consistent(core'), Full(core'), now' = now \/ now' = now + 1, refused' = refused,
             proc' = "down" => Linked(core') = {}
      PROVE  CoreInv'
  BY <1>0, <1>1 DEF CoreInv
<1>2. ASSUME Write PROVE CoreInv'
  <2>1. PICK k \in Keys, t \in {0} \cup {now + d : d \in Durations} :
          Step(EntrySetEx(Fresh, k, 1, t) \cup ObjectAdd(Fresh, k, "list", 2)
                 \cup {DelBin(Fresh, k), Expire(Fresh, k, t)})
    BY <1>2 DEF Write
  <2>2. t \in Nat
    BY <1>0, <2>1, TimeAssumption
  <2>3. now' = now /\ (core' \in EntrySetEx(Fresh, k, 1, t) \/ core' \in ObjectAdd(Fresh, k, "list", 2)
                       \/ core' = DelBin(Fresh, k) \/ core' = Expire(Fresh, k, t))
    BY <2>1 DEF Step
  <2>4. "list" \in AllTypes /\ "list" # "string" /\ 2 \in Nat \ {0} /\ 1 \in Nat
    BY DEF AllTypes
  <2>5. Consistent(core') /\ Full(core')
    <3>1. CASE core' \in EntrySetEx(Fresh, k, 1, t)
      BY <1>a, <2>2, <2>4, <3>1, SetFull
    <3>2. CASE core' \in ObjectAdd(Fresh, k, "list", 2)
      BY <1>a, <2>4, <3>2, AddFull
    <3>3. CASE core' = DelBin(Fresh, k)
      BY <1>a, <3>3, DelFull
    <3>4. CASE core' = Expire(Fresh, k, t)
      BY <1>a, <2>2, <3>4, ExpireFull
    <3> QED BY <2>3, <3>1, <3>2, <3>3, <3>4
  <2>6. proc' # "down" /\ refused' = refused
    BY <1>2 DEF Write
  <2> QED BY <1>1, <2>3, <2>5, <2>6
<1>3. ASSUME Expiry PROVE CoreInv'
  <2>1. PICK X \in SUBSET Keys : ActiveExpire(X)
    BY <1>3 DEF Expiry
  <2>2. core' = FreeEntries(Fresh, X) /\ now' = now /\ X \subseteq Linked(core)
    BY <2>1 DEF ActiveExpire, Step, Sampled, Linked
  <2>3. Consistent(core')
    BY <1>a, <2>2, FreeConsistent
  <2>4. Loses(Fresh, core')
    BY <1>a, <2>2, FreeLoses
  <2>5. Full(core')
    BY <1>a, <2>3, <2>4, FullLoses DEF Consistent
  <2>6. proc' # "down" /\ refused' = refused
    BY <1>3 DEF Expiry
  <2> QED BY <1>1, <2>2, <2>3, <2>5, <2>6
<1>4. ASSUME Clock PROVE CoreInv'
  <2>1. core' = Fresh /\ now' = now + 1 /\ proc' = proc /\ refused' = refused
    BY <1>4 DEF Clock, Tick
  <2> QED BY <1>0, <1>1, <1>a, <2>1
<1>5. ASSUME Crash \/ Shutdown PROVE CoreInv'
  <2>1. /\ core' = [EmptyCore EXCEPT !.maxmemory = core.maxmemory, !.evict = core.evict]
        /\ now' = now /\ refused' = refused
    BY <1>5 DEF Crash, Shutdown
  <2>2. core.maxmemory \in Nat /\ core.evict \in {"noop", "sampled", "plugin"}
    BY <1>0 DEF CoreType
  <2>3. Consistent(core') /\ Linked(core') = {}
    BY <2>1, <2>2, Emptied
  <2>4. Full(core')
    BY <2>3 DEF Full
  <2> QED BY <1>1, <2>1, <2>3, <2>4
<1>6. ASSUME Start PROVE CoreInv'
  <2>1. PICK m \in MaxMemories : \E o \in Load(dump, [core EXCEPT !.maxmemory = m]) :
           \/ o.ok /\ refused' = "no" /\ proc' = "up" /\ core' = [o.core EXCEPT !.touched = {}]
           \/ ~ o.ok /\ (refused' = IF m = 0 /\ WithinLimits(dump) THEN "unlimited" ELSE "limited")
              /\ UNCHANGED <<core, proc>>
    BY <1>6 DEF Start
  <2>2. PICK o \in Load(dump, [core EXCEPT !.maxmemory = m]) :
           \/ o.ok /\ refused' = "no" /\ proc' = "up" /\ core' = [o.core EXCEPT !.touched = {}]
           \/ ~ o.ok /\ (refused' = IF m = 0 /\ WithinLimits(dump) THEN "unlimited" ELSE "limited")
              /\ UNCHANGED <<core, proc>>
    BY <2>1
  <2>3. proc = "down" /\ now' = now
    BY <1>6 DEF Start
  <2>4. /\ m = 0 /\ WithinLimits(dump) => o.ok
        /\ o.ok => LET d == [o.core EXCEPT !.touched = {}] IN Consistent(d) /\ Full(d)
    BY <2>3, StartOutcome
  <2>5. CASE o.ok
    <3>1. refused' = "no" /\ proc' = "up" /\ core' = [o.core EXCEPT !.touched = {}]
      BY <2>2, <2>5
    <3>2. Consistent(core') /\ Full(core')
      BY <2>4, <2>5, <3>1
    <3> QED BY <1>0, <2>3, <3>1, <3>2 DEF CoreInv
  <2>6. CASE ~ o.ok
    BY <1>0, <2>2, <2>3, <2>4, <2>6 DEF CoreInv
  <2> QED BY <2>5, <2>6
<1>7. ASSUME UNCHANGED <<core, now, refused>>, proc' = "down" => proc = "down" PROVE CoreInv'
  BY <1>0, <1>7 DEF CoreInv
<1>8. ASSUME SaveWrite \/ SaveInstall \/ SaveFails \/ Poll \/ Bgsave \/ UNCHANGED svars
      PROVE  CoreInv'
  BY <1>7, <1>8 DEF SaveWrite, SaveInstall, SaveFails, Poll, Bgsave, svars
<1>9. ASSUME NEW p \in Pids, Kid(p) PROVE CoreInv'
  BY <1>7, <1>9 DEF Kid, KidWrites, KidInstalls, KidFails, OrphanGone
<1> QED BY <1>2, <1>3, <1>4, <1>5, <1>6, <1>8, <1>9 DEF SNext

\* A step either leaves the history alone or adds one change to it, and the
\* dictionary is what the new entry says.
Grows == /\ epoch' = epoch + 1
         /\ hist'[epoch + 1] = Content(core')
         /\ UNCHANGED <<now, dump, saving, kids>> /\ proc' = "up"

LEMMA HistGrows ==
    ASSUME SnapInv, NEW v, EntriesOK(v), epoch' = epoch + 1, epoch + 1 \in Epochs,
           hist' = [hist EXCEPT ![epoch'] = v]
    PROVE  /\ hist' = [e \in Epochs |-> hist'[e]]
           /\ \A e \in Epochs : EntriesOK(hist'[e])
           /\ hist'[epoch + 1] = v
           /\ \A e \in 0..epoch : hist'[e] = hist[e]
<1>1. hist = [e \in Epochs |-> hist[e]] /\ \A e \in Epochs : EntriesOK(hist[e])
  BY DEF SnapInv, HistInv
<1>2. epoch \in Nat /\ 0..epoch \subseteq Epochs /\ \A e \in 0..epoch : e # epoch + 1
  BY SmallEpochs
<1>3. hist' = [e \in Epochs |-> IF e = epoch + 1 THEN v ELSE hist[e]]
  BY <1>1
<1>4. \A e \in Epochs : hist'[e] = IF e = epoch + 1 THEN v ELSE hist[e]
  BY <1>3
<1>5. hist' = [e \in Epochs |-> hist'[e]]
  BY <1>3
<1> QED BY <1>1, <1>2, <1>4, <1>5

LEMMA HistNext ==
    ASSUME SnapInv, [SNext]_svars, CoreInv'
    PROVE  /\ HistInv'
           /\ \A e \in 0..epoch : hist'[e] = hist[e]
           /\ UNCHANGED <<epoch, hist>> \/ Grows
<1>0. /\ epoch \in Nat /\ crashes \in 0..MaxCrashes /\ MaxEpoch \in Nat /\ MaxCrashes \in Nat
      /\ epoch <= MaxEpoch + crashes /\ (proc = "down" => epoch < MaxEpoch + crashes)
      /\ hist = [e \in Epochs |-> hist[e]] /\ \A e \in Epochs : EntriesOK(hist[e])
  BY SnapshotAssumption, SmallEpochs DEF SnapInv, HistInv
<1>1. ASSUME UNCHANGED <<epoch, hist, crashes>>, proc' = "down" => proc = "down"
      PROVE  HistInv'
  BY <1>0, <1>1 DEF HistInv
<1>2. Consistent(core') /\ Full(core') /\ core' \in CoreType
  BY DEF CoreInv, Consistent
<1>3. EntriesOK(Content(core'))
  BY <1>2, ContentOK
<1>4. ASSUME epoch' = epoch + 1, epoch + 1 \in Epochs,
             hist' = [hist EXCEPT ![epoch'] = Content(core')],
             crashes' = crashes, proc' = "up", epoch + 1 <= MaxEpoch + crashes
      PROVE  /\ HistInv' /\ hist'[epoch + 1] = Content(core')
             /\ \A e \in 0..epoch : hist'[e] = hist[e]
  <2>1. /\ hist' = [e \in Epochs |-> hist'[e]]
        /\ \A e \in Epochs : EntriesOK(hist'[e])
        /\ hist'[epoch + 1] = Content(core')
        /\ \A e \in 0..epoch : hist'[e] = hist[e]
    BY <1>3, <1>4, HistGrows
  <2>2. crashes' \in 0..MaxCrashes /\ epoch' <= MaxEpoch + crashes'
    BY <1>0, <1>4
  <2>3. proc' # "down"
    BY <1>4
  <2> QED BY <2>1, <2>2, <2>3 DEF HistInv
<1>5. CASE Write
  <2>1. /\ proc = "up" /\ proc' = proc /\ epoch < MaxEpoch /\ epoch' = epoch + 1
        /\ hist' = [hist EXCEPT ![epoch'] = Content(core')] /\ crashes' = crashes
        /\ UNCHANGED <<dump, saving, kids>>
    BY <1>5 DEF Write, disk
  <2>2. now' = now
    BY <1>5 DEF Write, Step
  <2>3. epoch + 1 \in Epochs /\ epoch + 1 <= MaxEpoch + crashes
    BY <1>0, <2>1 DEF Epochs
  <2> QED BY <1>4, <2>1, <2>2, <2>3 DEF Grows
<1>6. CASE Start
  <2>1. PICK m \in MaxMemories : \E o \in Load(dump, [core EXCEPT !.maxmemory = m]) :
           \/ /\ o.ok /\ refused' = "no" /\ proc' = "up"
              /\ core' = [o.core EXCEPT !.touched = {}]
              /\ epoch' = epoch + 1
              /\ hist' = [hist EXCEPT ![epoch'] = Content(o.core)]
           \/ ~ o.ok /\ UNCHANGED <<core, proc, epoch, hist>>
    BY <1>6 DEF Start
  <2>2. PICK o \in Load(dump, [core EXCEPT !.maxmemory = m]) :
           \/ /\ o.ok /\ refused' = "no" /\ proc' = "up"
              /\ core' = [o.core EXCEPT !.touched = {}]
              /\ epoch' = epoch + 1
              /\ hist' = [hist EXCEPT ![epoch'] = Content(o.core)]
           \/ ~ o.ok /\ UNCHANGED <<core, proc, epoch, hist>>
    BY <2>1
  <2>3. proc = "down" /\ now' = now /\ crashes' = crashes /\ UNCHANGED <<dump, saving, kids>>
    BY <1>6 DEF Start, disk
  <2>4. o.ok => LET d == [o.core EXCEPT !.touched = {}] IN Content(o.core) = Content(d)
    BY <2>3, StartOutcome
  <2>5. CASE o.ok
    <3>1. /\ proc' = "up" /\ epoch' = epoch + 1
          /\ hist' = [hist EXCEPT ![epoch'] = Content(core')]
      <4>1. Content(o.core) = Content(core')
        BY <2>2, <2>4, <2>5
      <4> QED BY <2>2, <2>5, <4>1
    <3>2. epoch + 1 \in Epochs /\ epoch + 1 <= MaxEpoch + crashes
      BY <1>0, <2>3 DEF Epochs
    <3> QED BY <1>4, <2>3, <3>1, <3>2 DEF Grows
  <2>6. CASE ~ o.ok
    BY <1>1, <2>2, <2>3, <2>6
  <2> QED BY <2>5, <2>6
<1>7. CASE Crash \/ Shutdown
  <2>1. /\ proc # "down" /\ crashes < MaxCrashes /\ crashes' = crashes + 1 /\ proc' = "down"
        /\ UNCHANGED <<epoch, hist>>
    BY <1>7 DEF Crash, Shutdown, ghosts
  <2>2. crashes' \in 0..MaxCrashes /\ epoch' < MaxEpoch + crashes' /\ epoch' <= MaxEpoch + crashes'
    BY <1>0, <2>1
  <2> QED BY <1>0, <2>1, <2>2 DEF HistInv
<1>8. CASE \/ Expiry \/ Clock \/ SaveWrite \/ SaveInstall \/ SaveFails \/ Poll \/ Bgsave
           \/ UNCHANGED svars
  BY <1>1, <1>8 DEF Expiry, Clock, SaveWrite, SaveInstall, SaveFails, Poll, Bgsave, svars, ghosts
<1>9. ASSUME NEW p \in Pids, Kid(p) PROVE HistInv' /\ UNCHANGED <<epoch, hist>>
  BY <1>1, <1>9 DEF Kid, KidWrites, KidInstalls, KidFails, OrphanGone, ghosts
<1> QED BY <1>5, <1>6, <1>7, <1>8, <1>9 DEF SNext

LEMMA SnapshotKept ==
    ASSUME NEW f, NEW h, NEW g, IsSnapshot(f, h), g[f.epoch] = h[f.epoch]
    PROVE  IsSnapshot(f, g)
BY DEF IsSnapshot

LEMMA FilesNext ==
    ASSUME SnapInv, [SNext]_svars, \A e \in 0..epoch : hist'[e] = hist[e]
    PROVE  FilesInv'
<1>0. /\ IsSnapshot(dump, hist) /\ (proc = "saving" => IsSnapshot(saving, hist))
      /\ \A p \in Pids : kids[p].stage = "written" => IsSnapshot(kids[p].file, hist)
      /\ kids = [p \in Pids |-> kids[p]] /\ \A p \in Pids : KidOK(kids[p], epoch)
      /\ bgsave_pid \in Pids \cup {0} /\ now \in Nat
  BY DEF SnapInv, FilesInv, RecoveryInv, Books, CoreInv
<1>e. /\ dump.epoch \in 0..epoch /\ saving.epoch \in 0..epoch
      /\ \A p \in Pids : kids[p].stage = "written" => kids[p].file.epoch \in 0..epoch
  BY SmallEpochs, Zenon
<1>1. /\ IsSnapshot(dump, hist') /\ (proc = "saving" => IsSnapshot(saving, hist'))
      /\ \A p \in Pids : kids[p].stage = "written" => IsSnapshot(kids[p].file, hist')
  <2>1. hist'[dump.epoch] = hist[dump.epoch]
    BY <1>e
  <2>2. hist'[saving.epoch] = hist[saving.epoch]
    BY <1>e
  <2>3. ASSUME NEW p \in Pids, kids[p].stage = "written"
        PROVE  hist'[kids[p].file.epoch] = hist[kids[p].file.epoch]
    BY <1>e, <2>3
  <2> QED BY <1>0, <2>1, <2>2, <2>3, SnapshotKept
<1>2. ASSUME dump' = dump, proc' = "saving" => proc = "saving" /\ saving' = saving,
             \A p \in Pids : kids'[p] = kids[p] \/ kids'[p].stage # "written"
      PROVE  FilesInv'
  <2>1. IsSnapshot(dump', hist') /\ (proc' = "saving" => IsSnapshot(saving', hist'))
    BY <1>1, <1>2
  <2>2. \A p \in Pids : kids'[p].stage = "written" => IsSnapshot(kids'[p].file, hist')
    BY <1>1, <1>2
  <2> QED BY <2>1, <2>2 DEF FilesInv
<1>3. NoKid.stage = "none" /\ \A st, e : Exited(st, e).stage = st
  <2>1. NoKid.stage = "none"
    BY DEF NoKid
  <2>2. ASSUME NEW st, NEW e PROVE Exited(st, e).stage = st
    <3>1. Exited(st, e) = [stage |-> st, content |-> NoKid.content, epoch |-> e, file |-> NoFile]
      BY KidExited, Zenon DEF Exited
    <3> QED BY <3>1
  <2> QED BY <2>1, <2>2
<1>4. ASSUME NEW q \in Pids, NEW kid, kid.stage # "written", kids' = [kids EXCEPT ![q] = kid]
      PROVE  \A p \in Pids : kids'[p] = kids[p] \/ kids'[p].stage # "written"
  BY <1>0, <1>4
<1>5. CASE Write \/ Expiry \/ Clock \/ Crash \/ Start \/ SaveFails \/ UNCHANGED svars
  BY <1>2, <1>5 DEF Write, Expiry, Clock, Crash, Start, SaveFails, svars, disk
<1>6. CASE SaveWrite
  <2>1. /\ saving' = DumpOf(Content(core), epoch) /\ proc = "up"
        /\ UNCHANGED <<dump, kids, hist>>
    BY <1>6 DEF SaveWrite
  <2>2. Fits(Content(core), hist[epoch], now) /\ EntriesOK(hist[epoch])
    BY <2>1, SmallEpochs DEF SnapInv, CopiesInv, HistInv
  <2>3. IsSnapshot(saving', hist)
    BY <1>0, <2>1, <2>2, DumpOfFits
  <2>4. IsSnapshot(saving', hist') /\ IsSnapshot(dump', hist')
    BY <1>0, <2>1, <2>3
  <2>5. \A p \in Pids : kids'[p].stage = "written" => IsSnapshot(kids'[p].file, hist')
    BY <1>1, <2>1
  <2> QED BY <2>4, <2>5 DEF FilesInv
<1>7. CASE SaveInstall
  <2>1. proc = "saving" /\ proc' = "up" /\ dump' = saving /\ kids' = kids
    BY <1>7 DEF SaveInstall
  <2>2. IsSnapshot(dump', hist')
    BY <1>1, <2>1
  <2>3. \A p \in Pids : kids'[p].stage = "written" => IsSnapshot(kids'[p].file, hist')
    BY <1>1, <2>1
  <2> QED BY <2>1, <2>2, <2>3 DEF FilesInv
<1>8. CASE Poll
  <2>1. /\ bgsave_pid \in Pids /\ kids' = [kids EXCEPT ![bgsave_pid] = NoKid]
        /\ UNCHANGED <<dump, proc, saving>>
    BY <1>0, <1>8 DEF Poll
  <2>2. \A p \in Pids : kids'[p] = kids[p] \/ kids'[p].stage # "written"
    BY <1>3, <1>4, <2>1
  <2> QED BY <1>2, <2>1, <2>2
<1>9. CASE Shutdown
  <2>1. proc' = "down" /\ dump' = dump
    BY <1>9 DEF Shutdown
  <2>2. \A p \in Pids : kids'[p] = kids[p] \/ kids'[p].stage # "written"
    <3>1. CASE bgsave_pid = 0
      BY <1>9, <3>1 DEF Shutdown
    <3>2. CASE bgsave_pid # 0
      <4>1. bgsave_pid \in Pids /\ kids' = [kids EXCEPT ![bgsave_pid] = NoKid]
        BY <1>0, <1>9, <3>2 DEF Shutdown
      <4> QED BY <1>3, <1>4, <4>1
    <3> QED BY <3>1, <3>2
  <2> QED BY <1>2, <2>1, <2>2
<1>10. CASE Bgsave
  <2> DEFINE kid == [NoKid EXCEPT !.stage = "forked", !.content = Content(core), !.epoch = epoch]
  <2>1. PICK p \in Pids : kids' = [kids EXCEPT ![p] = kid]
    BY <1>10 DEF Bgsave
  <2>2. kid = [stage |-> "forked", content |-> Content(core), epoch |-> epoch, file |-> NoFile]
    BY KidForked, Zenon
  <2> HIDE DEF kid
  <2>3. kid.stage # "written"
    BY <2>2
  <2>4. UNCHANGED <<dump, proc, saving>>
    BY <1>10 DEF Bgsave
  <2> QED BY <1>2, <1>4, <2>1, <2>3, <2>4
<1>11. ASSUME NEW p \in Pids, Kid(p) PROVE FilesInv'
  <2>0. UNCHANGED <<proc, saving, hist>>
    BY <1>11 DEF Kid, KidWrites, KidInstalls, KidFails, OrphanGone, ghosts
  <2>1. CASE KidWrites(p)
    <3> DEFINE f == DumpOf(kids[p].content, kids[p].epoch)
               kid == [kids[p] EXCEPT !.stage = "written", !.file = f]
    <3>1. /\ kids[p].stage = "forked" /\ kids' = [kids EXCEPT ![p] = kid] /\ dump' = dump
      BY <2>1 DEF KidWrites
    <3>2. /\ Fits(kids[p].content, hist[kids[p].epoch], now)
          /\ EntriesOK(hist[kids[p].epoch])
      <4>2. kids[p].epoch \in Epochs
        BY SmallEpochs
      <4> QED BY <3>1, <4>2 DEF SnapInv, CopiesInv, HistInv
    <3>3. IsSnapshot(f, hist)
      BY <1>0, <3>2, DumpOfFits
    <3> HIDE DEF f
    <3>4. kid = [stage |-> "written", content |-> kids[p].content,
                 epoch |-> kids[p].epoch, file |-> f]
      BY <1>0, KidWritten, Zenon
    <3> HIDE DEF kid
    <3>5. \A q \in Pids : kids'[q] = IF q = p THEN kid ELSE kids[q]
      BY <1>0, <3>1
    <3>6. \A q \in Pids : kids'[q].stage = "written" => IsSnapshot(kids'[q].file, hist')
      BY <1>0, <2>0, <3>3, <3>4, <3>5
    <3>7. IsSnapshot(dump', hist') /\ (proc' = "saving" => IsSnapshot(saving', hist'))
      BY <1>0, <2>0, <3>1
    <3> QED BY <3>6, <3>7 DEF FilesInv
  <2>2. CASE KidInstalls(p)
    <3>1. /\ kids[p].stage = "written" /\ dump' = kids[p].file
          /\ kids' = [kids EXCEPT ![p] = Exited("ok", kids[p].epoch)]
      BY <2>2 DEF KidInstalls
    <3>2. \A q \in Pids : kids'[q] = kids[q] \/ kids'[q].stage # "written"
      BY <1>3, <1>4, <3>1
    <3>3. \A q \in Pids : kids'[q].stage = "written" => IsSnapshot(kids'[q].file, hist')
      BY <1>1, <3>2
    <3>4. IsSnapshot(dump', hist') /\ (proc' = "saving" => IsSnapshot(saving', hist'))
      BY <1>0, <2>0, <3>1
    <3> QED BY <3>3, <3>4 DEF FilesInv
  <2>3. CASE KidFails(p)
    <3>1. dump' = dump /\ kids' = [kids EXCEPT ![p] = Exited("failed", 0)]
      BY <2>3 DEF KidFails
    <3> QED BY <1>2, <1>3, <1>4, <2>0, <3>1
  <2>4. CASE OrphanGone(p)
    <3>1. dump' = dump /\ kids' = [kids EXCEPT ![p] = NoKid]
      BY <2>4 DEF OrphanGone
    <3> QED BY <1>2, <1>3, <1>4, <2>0, <3>1
  <2> QED BY <1>11, <2>1, <2>2, <2>3, <2>4 DEF Kid
<1> QED BY <1>5, <1>6, <1>7, <1>8, <1>9, <1>10, <1>11 DEF SNext

LEMMA CopiesNext ==
    ASSUME SnapInv, [SNext]_svars, \A e \in 0..epoch : hist'[e] = hist[e],
           UNCHANGED <<epoch, hist>> \/ Grows
    PROVE  CopiesInv'
<1>0. /\ proc # "down" => Fits(Content(core), hist[epoch], now)
      /\ \A p \in Pids :
            kids[p].stage = "forked" => Fits(kids[p].content, hist[kids[p].epoch], now)
      /\ kids = [p \in Pids |-> kids[p]] /\ \A p \in Pids : KidOK(kids[p], epoch)
      /\ bgsave_pid \in Pids \cup {0} /\ now \in Nat
      /\ core \in CoreType /\ Consistent(core)
      /\ \A e \in Epochs : EntriesOK(hist[e])
  BY DEF SnapInv, CopiesInv, RecoveryInv, Books, CoreInv, Consistent, HistInv
<1>e. epoch \in Epochs /\ \A p \in Pids : kids[p].epoch \in 0..epoch /\ kids[p].epoch \in Epochs
  BY SmallEpochs, Zenon
\* Children that are still to write keep their copy.
<1>1. ASSUME now' = now \/ now' = now + 1,
             \A p \in Pids : kids'[p] = kids[p] \/ kids'[p].stage # "forked"
      PROVE  \A p \in Pids :
                kids'[p].stage = "forked" => Fits(kids'[p].content, hist'[kids'[p].epoch], now')
  <2> SUFFICES ASSUME NEW p \in Pids, kids'[p].stage = "forked"
               PROVE  Fits(kids'[p].content, hist'[kids'[p].epoch], now')
    OBVIOUS
  <2>1. kids'[p] = kids[p] /\ Fits(kids[p].content, hist[kids[p].epoch], now)
    BY <1>0, <1>1
  <2>2. hist'[kids[p].epoch] = hist[kids[p].epoch] /\ EntriesOK(hist[kids[p].epoch])
    BY <1>0, <1>e
  <2>3. Fits(kids[p].content, hist[kids[p].epoch], now')
    BY <1>0, <1>1, <2>1, <2>2, FitsLater
  <2> QED BY <2>1, <2>2, <2>3
<1>2. ASSUME now' = now \/ now' = now + 1,
             \A p \in Pids : kids'[p] = kids[p] \/ kids'[p].stage # "forked",
             proc' # "down" => Fits(Content(core'), hist'[epoch'], now')
      PROVE  CopiesInv'
  BY <1>1, <1>2 DEF CopiesInv
<1>3. NoKid.stage = "none" /\ \A st, e : Exited(st, e).stage = st
  <2>1. NoKid.stage = "none"
    BY DEF NoKid
  <2>2. ASSUME NEW st, NEW e PROVE Exited(st, e).stage = st
    <3>1. Exited(st, e) = [stage |-> st, content |-> NoKid.content, epoch |-> e, file |-> NoFile]
      BY KidExited, Zenon DEF Exited
    <3> QED BY <3>1
  <2> QED BY <2>1, <2>2
<1>4. ASSUME NEW q \in Pids, NEW kid, kid.stage # "forked", kids' = [kids EXCEPT ![q] = kid]
      PROVE  \A p \in Pids : kids'[p] = kids[p] \/ kids'[p].stage # "forked"
  BY <1>0, <1>4
<1>5. CASE Grows
  <2>1. /\ epoch' = epoch + 1 /\ hist'[epoch'] = Content(core') /\ now' = now /\ kids' = kids
    BY <1>5 DEF Grows
  <2>2. Fits(Content(core'), hist'[epoch'], now')
    BY <2>1, FitsSelf
  <2> QED BY <1>2, <2>1, <2>2
<1>6. ASSUME UNCHANGED <<epoch, hist>>, Expiry PROVE CopiesInv'
  <2>1. PICK X \in SUBSET Keys : ActiveExpire(X)
    BY <1>6 DEF Expiry
  <2>2. core' = FreeEntries(Fresh, X) /\ now' = now /\ X \subseteq Linked(core) \cap Due(core)
    BY <2>1 DEF ActiveExpire, Step, Sampled, Linked
  <2>3. kids' = kids /\ proc = "up"
    BY <1>6 DEF Expiry, disk
  <2>4. Consistent(Fresh) /\ Fresh \in CoreType /\ \A k \in Keys : Same(core, Fresh, k)
    BY <1>0, FreshConsistent, FreshSame DEF Consistent
  <2>5. /\ \A k \in X : Gone(core', k)
        /\ \A k \in Keys \ X : Same(Fresh, core', k)
    BY <2>2, <2>4, FreeLoses
  <2>6. core' \in CoreType
    BY <2>2, <2>4, FreeFields
  <2>7. Linked(core) \subseteq Keys /\ Linked(core') \subseteq Keys
    BY <1>0, <2>6 DEF CoreType, Linked
  <2>8. /\ Linked(core') = Linked(core) \ X
        /\ \A k \in Linked(core') : /\ core'.type[k] = core.type[k]
                                    /\ core'.payload[k] = core.payload[k]
                                    /\ core'.expire_at[k] = core.expire_at[k]
    BY <2>4, <2>5, <2>7 DEF Same, Gone
  <2>9. \A k \in X : /\ Content(core)[k][3] # 0 /\ Content(core)[k][3] <= now
    <3>1. \A k \in X : core.expire_at[k] # 0 /\ core.expire_at[k] <= now
      BY <1>0, <2>2 DEF Due, HasTtl, CoreType
    <3> QED BY <2>2, <3>1, ContentFields
  <2> DEFINE a == Content(core)
             b == Content(core')
             full == hist[epoch]
  <2>10. /\ DOMAIN a = Linked(core) /\ DOMAIN b = Linked(core) \ X
         /\ b = [k \in DOMAIN b |-> a[k]]
    <3>1. ASSUME NEW k \in Linked(core') PROVE b[k] = a[k]
      <4>1. b[k] = <<core'.type[k], core'.payload[k], core'.expire_at[k]>>
        BY ContentFields
      <4>2. k \in Linked(core) /\ a[k] = <<core.type[k], core.payload[k], core.expire_at[k]>>
        BY <2>8, ContentFields
      <4> QED BY <2>8, <4>1, <4>2
    <3>2. DOMAIN a = Linked(core) /\ DOMAIN b = Linked(core') /\ b = [k \in Linked(core') |-> b[k]]
      BY ContentFields
    <3> QED BY <2>8, <3>1, <3>2
  <2>11. Fits(a, full, now)
    BY <1>0, <2>3
  <2> HIDE DEF a, b, full
  <2>12. Fits(b, full, now)
    <3>1. \A k \in DOMAIN a : a[k] = full[k] /\ k \in DOMAIN full
      BY <2>11 DEF Fits
    <3>2. DOMAIN b \subseteq DOMAIN full
      BY <2>10, <3>1
    <3>3. b = [k \in DOMAIN b |-> full[k]]
      BY <2>10, <3>1
    <3>4. \A k \in DOMAIN full \ DOMAIN b : full[k][3] # 0 /\ full[k][3] <= now
      <4> SUFFICES ASSUME NEW k \in DOMAIN full \ DOMAIN b
                   PROVE  full[k][3] # 0 /\ full[k][3] <= now
        OBVIOUS
      <4>1. CASE k \in DOMAIN a
        <5>1. k \in X /\ full[k] = a[k]
          BY <2>10, <3>1, <4>1
        <5> QED BY <2>9, <5>1 DEF a
      <4>2. CASE k \notin DOMAIN a
        BY <2>11, <4>2 DEF Fits
      <4> QED BY <4>1, <4>2
    <3> QED BY <3>2, <3>3, <3>4 DEF Fits
  <2>13. Fits(Content(core'), hist'[epoch'], now')
    BY <1>6, <2>2, <2>12 DEF b, full
  <2> QED BY <1>2, <2>2, <2>3, <2>13
<1>7. ASSUME UNCHANGED <<epoch, hist>>, Clock PROVE CopiesInv'
  <2>1. core' = Fresh /\ now' = now + 1 /\ proc' = proc /\ kids' = kids
    BY <1>7 DEF Clock, Tick, disk
  <2>2. Content(Fresh) = Content(core)
    <3>1. Fresh \in CoreType /\ \A k \in Keys : Same(core, Fresh, k)
      BY <1>0, FreshConsistent, FreshSame DEF Consistent
    <3> QED BY <1>0, <3>1, SameContent
  <2>3. proc # "down" => Fits(Content(core), hist[epoch], now + 1)
    BY <1>0, <1>e, FitsLater
  <2>4. proc' # "down" => Fits(Content(core'), hist'[epoch'], now')
    BY <1>7, <2>1, <2>2, <2>3
  <2> QED BY <1>2, <2>1, <2>4
<1>8. ASSUME UNCHANGED <<core, now, epoch, hist>>, proc' # "down" => proc # "down",
             \A p \in Pids : kids'[p] = kids[p] \/ kids'[p].stage # "forked"
      PROVE  CopiesInv'
  BY <1>0, <1>2, <1>8
<1>9. ASSUME UNCHANGED <<epoch, hist>>,
             SaveWrite \/ SaveInstall \/ SaveFails \/ UNCHANGED svars
      PROVE  CopiesInv'
  BY <1>8, <1>9 DEF SaveWrite, SaveInstall, SaveFails, svars, disk
<1>10. ASSUME Crash \/ Shutdown PROVE CopiesInv'
  <2>1. proc' = "down" /\ now' = now
    BY <1>10 DEF Crash, Shutdown
  <2>2. \A p \in Pids : kids'[p] = kids[p] \/ kids'[p].stage # "forked"
    <3>1. CASE kids' = kids
      BY <3>1
    <3>2. CASE kids' # kids
      <4>1. bgsave_pid \in Pids /\ kids' = [kids EXCEPT ![bgsave_pid] = NoKid]
        BY <1>0, <1>10, <3>2 DEF Crash, Shutdown
      <4> QED BY <1>3, <1>4, <4>1
    <3> QED BY <3>1, <3>2
  <2> QED BY <1>2, <2>1, <2>2
<1>11. ASSUME UNCHANGED <<epoch, hist>>, Poll PROVE CopiesInv'
  <2>1. /\ bgsave_pid \in Pids /\ kids' = [kids EXCEPT ![bgsave_pid] = NoKid]
        /\ UNCHANGED <<core, now, proc>>
    BY <1>0, <1>11 DEF Poll
  <2>2. \A p \in Pids : kids'[p] = kids[p] \/ kids'[p].stage # "forked"
    BY <1>3, <1>4, <2>1
  <2> QED BY <1>8, <1>11, <2>1, <2>2
<1>12. ASSUME UNCHANGED <<epoch, hist>>, Bgsave PROVE CopiesInv'
  <2> DEFINE kid == [NoKid EXCEPT !.stage = "forked", !.content = Content(core), !.epoch = epoch]
  <2>1. PICK q \in Pids : kids' = [kids EXCEPT ![q] = kid]
    BY <1>12 DEF Bgsave
  <2>2. kid = [stage |-> "forked", content |-> Content(core), epoch |-> epoch, file |-> NoFile]
    BY KidForked, Zenon
  <2> HIDE DEF kid
  <2>3. kid.stage = "forked" /\ kid.content = Content(core) /\ kid.epoch = epoch
    BY <2>2
  <2>4. proc = "up" /\ UNCHANGED <<core, now, proc>>
    BY <1>12 DEF Bgsave
  <2>5. Fits(Content(core), hist[epoch], now)
    BY <1>0, <2>4
  <2>6. \A p \in Pids : kids'[p] = IF p = q THEN kid ELSE kids[p]
    BY <1>0, <2>1
  <2>7. \A p \in Pids :
           kids'[p].stage = "forked" => Fits(kids'[p].content, hist[kids'[p].epoch], now)
    BY <1>0, <2>3, <2>5, <2>6
  <2> QED BY <1>12, <2>4, <2>5, <2>7 DEF CopiesInv
<1>13. ASSUME NEW p \in Pids, Kid(p) PROVE CopiesInv'
  <2>0. UNCHANGED <<core, now, proc, epoch, hist>>
    BY <1>13 DEF Kid, KidWrites, KidInstalls, KidFails, OrphanGone, ghosts
  <2>1. PICK kid : kid.stage # "forked" /\ kids' = [kids EXCEPT ![p] = kid]
    <3>1. CASE KidWrites(p)
      <4> DEFINE f == DumpOf(kids[p].content, kids[p].epoch)
                 kid == [kids[p] EXCEPT !.stage = "written", !.file = f]
      <4>1. kids' = [kids EXCEPT ![p] = kid]
        BY <3>1 DEF KidWrites
      <4> HIDE DEF f
      <4>2. kid = [stage |-> "written", content |-> kids[p].content,
                   epoch |-> kids[p].epoch, file |-> f]
        BY <1>0, KidWritten, Zenon
      <4> HIDE DEF kid
      <4>3. kid.stage # "forked"
        BY <4>2
      <4> QED BY <4>1, <4>3
    <3>2. CASE KidInstalls(p)
      <4>1. kids' = [kids EXCEPT ![p] = Exited("ok", kids[p].epoch)]
        BY <3>2 DEF KidInstalls
      <4>2. Exited("ok", kids[p].epoch).stage # "forked"
        BY <1>3
      <4> QED BY <4>1, <4>2
    <3>3. CASE KidFails(p)
      <4>1. kids' = [kids EXCEPT ![p] = Exited("failed", 0)]
        BY <3>3 DEF KidFails
      <4>2. Exited("failed", 0).stage # "forked"
        BY <1>3
      <4> QED BY <4>1, <4>2
    <3>4. CASE OrphanGone(p)
      BY <1>3, <3>4 DEF OrphanGone
    <3> QED BY <1>13, <3>1, <3>2, <3>3, <3>4 DEF Kid
  <2>2. \A q \in Pids : kids'[q] = kids[q] \/ kids'[q].stage # "forked"
    BY <1>4, <2>1
  <2> QED BY <1>8, <2>0, <2>2
<1>14. ASSUME UNCHANGED <<epoch, hist>>, Write PROVE FALSE
  <2>1. epoch' = epoch + 1 /\ epoch \in Nat
    BY <1>14, SmallEpochs DEF Write
  <2> QED BY <1>14, <2>1
<1>15. ASSUME UNCHANGED <<epoch, hist>>, Start PROVE CopiesInv'
  <2>1. UNCHANGED <<now, kids>> /\ (UNCHANGED <<core, proc>> \/ epoch' = epoch + 1)
    BY <1>15 DEF Start, disk
  <2>2. epoch \in Nat
    BY SmallEpochs
  <2>3. UNCHANGED <<core, proc>>
    BY <1>15, <2>1, <2>2
  <2> QED BY <1>8, <1>15, <2>1, <2>3
<1> QED BY <1>5, <1>6, <1>7, <1>9, <1>10, <1>11, <1>12, <1>13, <1>14, <1>15 DEF SNext

LEMMA SnapNext == SnapInv /\ [SNext]_svars => SnapInv'
<1> SUFFICES ASSUME SnapInv, [SNext]_svars PROVE SnapInv'
  OBVIOUS
<1>1. RecoveryInv'
  BY RecoveryNext DEF SnapInv
<1>2. CoreInv'
  BY CoreNext
<1>3. /\ HistInv' /\ (\A e \in 0..epoch : hist'[e] = hist[e])
      /\ UNCHANGED <<epoch, hist>> \/ Grows
  BY <1>2, HistNext
<1>4. FilesInv'
  BY <1>3, FilesNext
<1>5. CopiesInv'
  BY <1>3, CopiesNext
<1> QED BY <1>1, <1>2, <1>3, <1>4, <1>5 DEF SnapInv

LEMMA SnapInvAlways == SSpec => []SnapInv
BY SnapInit, SnapNext, PTL DEF SSpec

\* The dump is never torn: it holds the live keys of the dictionary after one
\* change, and its header counts them, for any number of children, of crashes
\* and of orders in which the writers install.
THEOREM DumpNeverTorn == SSpec => []DumpIsSnapshot
<1>1. SnapInv => DumpIsSnapshot
  BY DEF SnapInv, FilesInv, IsSnapshot, DumpIsSnapshot
<1> QED BY <1>1, SnapInvAlways, PTL

\* A start without a memory limit brings back every live key of the dump,
\* whole, and cannot fail if the dump is within the reader's limits; under any limit what comes back is of the dump, of
\* its type, and with its deadline rounded up to whole seconds at most.
THEOREM RestartFaithful == SSpec => RestoredFaithfully
<1> DEFINE Back ==
       /\ refused' # "unlimited"
       /\ proc = "down" /\ proc' = "up" =>
         /\ Linked(core') \subseteq Live(dump.entries, now)
         /\ \A k \in Linked(core') :
               LET old == dump.entries[k]
                   new == Content(core')[k]
               IN  /\ new[1] = old[1] /\ new[2] <= old[2]
                   /\ old[3] <= new[3] /\ new[3] < old[3] + Second
                   /\ new[3] = 0 <=> old[3] = 0
         /\ core'.maxmemory = 0 =>
               /\ Linked(core') = Live(dump.entries, now)
               /\ \A k \in Linked(core') : core'.payload[k] = dump.entries[k][2]
<1>1. ASSUME SnapInv, [SNext]_svars, SnapInv' PROVE Back
  <2>1. refused' # "unlimited"
    BY <1>1 DEF SnapInv, CoreInv
  <2>2. ASSUME proc = "down", proc' = "up"
        PROVE /\ Linked(core') \subseteq Live(dump.entries, now)
              /\ \A k \in Linked(core') : Like(core', k, dump.entries[k])
              /\ core'.maxmemory = 0 =>
                    \A k \in Live(dump.entries, now) :
                       k \in Linked(core') /\ core'.payload[k] = dump.entries[k][2]
    <3>1. Start
      BY <1>1, <2>2 DEF SNext, Write, Expiry, Clock, SaveWrite, SaveInstall, SaveFails, Poll,
            Bgsave, Crash, Shutdown, Kid, KidWrites, KidInstalls, KidFails, OrphanGone, svars
    <3>2. PICK m \in MaxMemories : \E o \in Load(dump, [core EXCEPT !.maxmemory = m]) :
             \/ o.ok /\ core' = [o.core EXCEPT !.touched = {}]
             \/ ~ o.ok /\ proc' = proc
      BY <3>1 DEF Start
    <3>3. PICK o \in Load(dump, [core EXCEPT !.maxmemory = m]) :
             o.ok /\ core' = [o.core EXCEPT !.touched = {}]
      BY <2>2, <3>2
    <3>4. LET d == [o.core EXCEPT !.touched = {}] IN
          /\ d.maxmemory = m
          /\ \A k \in Linked(d) :
                k \in Live(dump.entries, now) /\ Like(d, k, dump.entries[k])
          /\ m = 0 => \A k \in Live(dump.entries, now) :
                k \in Linked(d) /\ d.payload[k] = dump.entries[k][2]
      BY <1>1, <2>2, <3>3, StartOutcome
    <3>5. /\ core'.maxmemory = m
          /\ \A k \in Linked(core') :
                k \in Live(dump.entries, now) /\ Like(core', k, dump.entries[k])
          /\ m = 0 => \A k \in Live(dump.entries, now) :
                k \in Linked(core') /\ core'.payload[k] = dump.entries[k][2]
      BY <3>3, <3>4
    <3> QED BY <3>5
  <2>3. ASSUME NEW k \in Linked(core'), Like(core', k, dump.entries[k])
        PROVE  LET old == dump.entries[k]
                   new == Content(core')[k]
               IN  /\ new[1] = old[1] /\ new[2] <= old[2]
                   /\ old[3] <= new[3] /\ new[3] < old[3] + Second
                   /\ new[3] = 0 <=> old[3] = 0
    <3>1. Content(core')[k] = <<core'.type[k], core'.payload[k], core'.expire_at[k]>>
      BY ContentFields
    <3> QED BY <2>3, <3>1 DEF Like
  <2>4. proc = "down" /\ proc' = "up" /\ core'.maxmemory = 0 =>
              /\ Linked(core') = Live(dump.entries, now)
              /\ \A k \in Linked(core') : core'.payload[k] = dump.entries[k][2]
    BY <2>2
  <2> QED BY <2>1, <2>2, <2>3, <2>4
<1>2. SnapInv /\ SnapInv' /\ [SNext]_svars => [Back]_svars
  BY <1>1
<1>3. SSpec => [][Back]_svars
  BY <1>2, SnapInvAlways, PTL DEF SSpec
<1> QED BY <1>3 DEF RestoredFaithfully
===============================================================================
