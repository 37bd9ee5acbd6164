------------------------------ MODULE LoopProofs ------------------------------
(***************************************************************************)
(* TLAPS proofs about ServerLoop, for any number of clients, slots and     *)
(* commands, any scripts and any size of the sockets.                      *)
(***************************************************************************)
EXTENDS ServerLoop, SequenceTheorems, Induction

-----------------------------------------------------------------------------
(* Types.                                                                  *)

Kinds == {"ok", "error", "noauth", "protocol", "message", "subscribe", "unsubscribe"}

\* Among the first n commands of client x is an AUTH with the right password.
Authed(x, n) ==
    \E j \in 1..n : Script[x][j].op = "auth" /\ Script[x][j].arg = "right"

\* A message of a client that is authenticated where one has to be.
Vouched(t) == RequirePass => Authed(t[1], t[2] - 1)

Replies == {r \in [kind : Kinds, of : Clients \X Nat] : r.kind = "message" => Vouched(r.of)}

Pieces == Clients \X Nat \X {0, 1}

ConnType ==
    [in_use : BOOLEAN, peer : Clients \cup {NoOne}, rbuf : Seq(Pieces),
     wbuf : Seq(Replies), should_close : BOOLEAN, want_write : BOOLEAN,
     authenticated : BOOLEAN, subs : BOOLEAN]

Fates == {"new", "backlog", "open"} \cup Reasons

SrvType ==
    [conns : [Slots -> ConnType], sock : [Clients -> Seq(Replies)],
     ready : SUBSET Clients, quit : BOOLEAN, told : [Clients -> Seq(Replies)],
     fate : [Clients -> Fates], lost : [Clients -> BOOLEAN]]

-----------------------------------------------------------------------------
(* The inductive invariant.                                                *)

\* The history h ends inside a subscription; its messages all are inside one.
Subscribed(h) ==
    \E q \in 1..Len(h) : /\ h[q].kind = "subscribe"
                         /\ \A o \in q..Len(h) : h[o].kind # "unsubscribe"

Messages(h) ==
    \A p \in 1..Len(h) : h[p].kind = "message" =>
        \E q \in 1..(p - 1) : /\ h[q].kind = "subscribe"
                              /\ \A o \in q..p : h[o].kind # "unsubscribe"

\* The answers among the first p replies, and that they are in order.
Count(h, p) == Cardinality({q \in 1..p : IsAnswer(h[q])})

InOrder(x, h) == \A p \in 1..Len(h) : IsAnswer(h[p]) => h[p].of = <<x, Count(h, p)>>

Causes == {"eof", "err", "kill", "idle", "deadline"}

\* A slot is blank, or serves one open connection.  k is the kernel's side:
\* k.received[x] pieces of client x have been read, k.waiting wait for accept.
\* n pieces of those in the read buffer have been executed: the buffer continues
\* the stream of the client's pieces, every command executed has one answer, and
\* the slot is authenticated by one of them.  What the client was told and has
\* not been given is in the write buffer.
SlotInv(v, k, n, s) ==
    LET c == v.conns[s]
        x == c.peer
        b == k.received[x] - Len(c.rbuf)
    IN  IF c.in_use
        THEN /\ x \in Clients /\ v.fate[x] = "open"
             /\ b \in Nat
             /\ \A i \in 1..Len(c.rbuf) : c.rbuf[i] = Piece(x, b + i)
             /\ 2 * Count(v.told[x], Len(v.told[x])) = b + n
             /\ RequirePass /\ c.authenticated => Authed(x, Count(v.told[x], Len(v.told[x])))
             /\ (got[x] \o v.sock[x]) \o c.wbuf = v.told[x]
             /\ c.subs => Subscribed(v.told[x])
        ELSE c = FreeConn

ClientInv(v, k, x) ==
    /\ Len(v.sock[x]) <= Cap
    /\ IsPrefix(got[x] \o v.sock[x], v.told[x])
    /\ Messages(v.told[x]) /\ InOrder(x, v.told[x])
    /\ v.lost[x] => v.fate[x] \in Causes
    /\ v.fate[x] = "open" => \E s \in Slots : v.conns[s].in_use /\ v.conns[s].peer = x
    /\ x \in v.ready => v.fate[x] = "open"
    /\ x \in k.waiting => v.fate[x] = "backlog"
    /\ v.fate[x] \in {"new", "backlog"} =>
          k.received[x] = 0 /\ got[x] = <<>> /\ v.sock[x] = <<>> /\ v.told[x] = <<>>

InUse(v) == {s \in Slots : v.conns[s].in_use}

\* The server's record, between two steps (n = 0) or while slot s executes.
SrvInv(v, k, n, s) ==
    /\ v \in SrvType /\ got \in [Clients -> Seq(Replies)]
    /\ \A r \in Slots : SlotInv(v, k, IF r = s THEN n ELSE 0, r)
    /\ \A x \in Clients : ClientInv(v, k, x)
    /\ \A r, t \in InUse(v) : v.conns[r].peer = v.conns[t].peer => r = t
    /\ Cardinality(InUse(v)) <= MaxClients

Received == [x \in Clients |-> sent[x] - Len(inbox[x])]

Kernel == [received |-> Received, waiting |-> {backlog[i] : i \in 1..Len(backlog)}]

StreamsInv ==
    /\ sent \in [Clients -> Nat] /\ inbox \in [Clients -> Seq(Pieces)]
    /\ Received \in [Clients -> Nat]
    /\ \A x \in Clients : \A i \in 1..Len(inbox[x]) :
          inbox[x][i] = Piece(x, Received[x] + i)

QueueInv ==
    /\ backlog \in Seq(Clients)
    /\ \A i, j \in 1..Len(backlog) : backlog[i] = backlog[j] => i = j

ControlInv ==
    /\ \A e \in batch : e.slot \in Slots \cup {Listener}
    /\ pc \in {"top", "batch", "drain", "drained", "down"} /\ draining \in BOOLEAN

LoopInv == SrvInv(srv, Kernel, 0, Listener) /\ StreamsInv /\ QueueInv /\ ControlInv

-----------------------------------------------------------------------------
(* Histories and streams.                                                  *)

LEMMA PrefixOfConcat ==
    ASSUME NEW a \in Seq(Replies), NEW b \in Seq(Replies)
    PROVE  IsPrefix(a, a \o b)
<1>1. Len(a \o b) = Len(a) + Len(b) /\ Len(a) \in Nat /\ Len(b) \in Nat
  BY ConcatProperties, LenProperties
<1>2. SubSeq(a \o b, 1, Len(a)) = SubSeq(a, 1, Len(a))
  <2>1. CASE Len(a) = 0
    BY <2>1, SubSeqEmpty
  <2>2. CASE Len(a) # 0
    <3>1. 1 \in 1..Len(a) /\ Len(a) \in 1..Len(a)
      BY <1>1, <2>2
    <3> QED BY <3>1, SubSeqOfConcat1
  <2> QED BY <2>1, <2>2
<1> QED BY <1>1, <1>2 DEF IsPrefix

\* The answers in a history are counted by a number; one more reply adds one,
\* or none.
LEMMA CountOne ==
    ASSUME NEW h \in Seq(Replies), NEW r \in Replies
    PROVE  /\ \A p \in 0..Len(h) : Count(h, p) \in Nat /\ Count(Append(h, r), p) = Count(h, p)
           /\ Count(Append(h, r), Len(h) + 1) =
                 IF IsAnswer(r) THEN Count(h, Len(h)) + 1 ELSE Count(h, Len(h))
<1> DEFINE k == Append(h, r)
           n == Len(h)
           A(f, p) == {q \in 1..p : IsAnswer(f[q])}
<1>1. /\ Len(k) = n + 1 /\ n \in Nat
      /\ \A i \in 1..n : k[i] = h[i]
      /\ k[n + 1] = r
  BY AppendProperties, LenProperties
<1> HIDE DEF k, n
<1>2. ASSUME NEW p \in 0..n
      PROVE  IsFiniteSet(A(h, p)) /\ Cardinality(A(h, p)) \in Nat /\ A(k, p) = A(h, p)
  <2>1. p \in Nat /\ 1..p \subseteq 1..n
    BY <1>1
  <2>2. IsFiniteSet(1..p)
    BY <2>1, FS_Interval
  <2>3. IsFiniteSet(A(h, p))
    BY <2>2, FS_Subset
  <2> QED BY <1>1, <2>1, <2>3, FS_CardinalityType
<1>3. A(k, n + 1) = IF IsAnswer(r) THEN A(h, n) \cup {n + 1} ELSE A(h, n)
  BY <1>1
<1>4. n \in 0..n /\ n + 1 \notin A(h, n)
  BY <1>1
<1>5. Cardinality(A(h, n) \cup {n + 1}) = Cardinality(A(h, n)) + 1
  <2> HIDE DEF A
  <2> QED BY <1>2, <1>4, FS_AddElement
<1> QED BY <1>2, <1>3, <1>4, <1>5 DEF Count, k, n

\* One more reply at the end of a history.
LEMMA TellOne ==
    ASSUME NEW h \in Seq(Replies), NEW r \in Replies, NEW x
    PROVE  /\ Append(h, r) \in Seq(Replies)
           /\ Messages(h) /\ (r.kind = "message" => Subscribed(h)) =>
                 Messages(Append(h, r))
           /\ Subscribed(h) /\ r.kind # "unsubscribe" => Subscribed(Append(h, r))
           /\ r.kind = "subscribe" => Subscribed(Append(h, r))
           /\ InOrder(x, h) /\ (IsAnswer(r) => r.of = <<x, Count(h, Len(h)) + 1>>) =>
                 InOrder(x, Append(h, r))
<1> DEFINE k == Append(h, r)
           n == Len(h)
<1>1. /\ k \in Seq(Replies) /\ Len(k) = n + 1 /\ n \in Nat
      /\ \A i \in 1..n : k[i] = h[i]
      /\ k[n + 1] = r
  BY AppendProperties, LenProperties
<1>0. /\ \A p \in 0..n : Count(k, p) = Count(h, p)
      /\ IsAnswer(r) => Count(k, n + 1) = Count(h, n) + 1
  BY CountOne
<1> HIDE DEF k, n
<1>2. ASSUME Messages(h), r.kind = "message" => Subscribed(h) PROVE Messages(k)
  <2> SUFFICES ASSUME NEW p \in 1..(n + 1), k[p].kind = "message"
               PROVE  \E q \in 1..(p - 1) : /\ k[q].kind = "subscribe"
                                            /\ \A o \in q..p : k[o].kind # "unsubscribe"
    BY <1>1 DEF Messages
  <2>1. CASE p \in 1..n
    <3>1. h[p].kind = "message"
      BY <1>1, <2>1
    <3>2. PICK q \in 1..(p - 1) : /\ h[q].kind = "subscribe"
                                  /\ \A o \in q..p : h[o].kind # "unsubscribe"
      BY <1>2, <2>1, <3>1 DEF Messages, n
    <3>3. q \in 1..n /\ \A o \in q..p : o \in 1..n
      BY <1>1, <2>1
    <3> QED BY <1>1, <3>2, <3>3
  <2>2. CASE p = n + 1
    <3>1. PICK q \in 1..n : /\ h[q].kind = "subscribe"
                            /\ \A o \in q..n : h[o].kind # "unsubscribe"
      BY <1>1, <1>2, <2>2 DEF Subscribed, n
    <3>2. ASSUME NEW o \in q..p PROVE k[o].kind # "unsubscribe"
      <4>1. CASE o = n + 1
        BY <1>1, <2>2, <4>1
      <4>2. CASE o # n + 1
        <5>1. o \in 1..n /\ o \in q..n
          BY <1>1, <2>2, <4>2
        <5> QED BY <1>1, <3>1, <5>1
      <4> QED BY <4>1, <4>2
    <3>3. q \in 1..(p - 1) /\ k[q].kind = "subscribe"
      BY <1>1, <2>2, <3>1
    <3> QED BY <3>2, <3>3
  <2> QED BY <1>1, <2>1, <2>2
<1>3. ASSUME Subscribed(h), r.kind # "unsubscribe" PROVE Subscribed(k)
  <2>1. PICK q \in 1..n : /\ h[q].kind = "subscribe"
                          /\ \A o \in q..n : h[o].kind # "unsubscribe"
    BY <1>3 DEF Subscribed, n
  <2>2. ASSUME NEW o \in q..(n + 1) PROVE k[o].kind # "unsubscribe"
    <3>1. CASE o = n + 1
      BY <1>1, <1>3, <3>1
    <3>2. CASE o # n + 1
      <4>1. o \in 1..n /\ o \in q..n
        BY <1>1, <3>2
      <4> QED BY <1>1, <2>1, <4>1
    <3> QED BY <3>1, <3>2
  <2>3. q \in 1..(n + 1) /\ k[q].kind = "subscribe"
    BY <1>1, <2>1
  <2> QED BY <1>1, <2>2, <2>3 DEF Subscribed
<1>4. ASSUME r.kind = "subscribe" PROVE Subscribed(k)
  <2>1. n + 1 \in 1..(n + 1) /\ \A o \in (n + 1)..(n + 1) : o = n + 1
    BY <1>1
  <2> QED BY <1>1, <1>4, <2>1 DEF Subscribed
<1>5. ASSUME InOrder(x, h), IsAnswer(r) => r.of = <<x, Count(h, n) + 1>>
      PROVE  InOrder(x, k)
  <2> SUFFICES ASSUME NEW p \in 1..(n + 1), IsAnswer(k[p])
               PROVE  k[p].of = <<x, Count(k, p)>>
    BY <1>1 DEF InOrder
  <2>1. CASE p \in 1..n
    <3>1. k[p] = h[p] /\ Count(k, p) = Count(h, p)
      BY <1>0, <1>1, <2>1
    <3> QED BY <1>5, <2>1, <3>1 DEF InOrder, n
  <2>2. CASE p = n + 1
    BY <1>0, <1>1, <1>5, <2>2
  <2> QED BY <1>1, <2>1, <2>2
<1> QED BY <1>1, <1>2, <1>3, <1>4, <1>5 DEF k, n

-----------------------------------------------------------------------------
(* Steps that change one slot.                                             *)

\* Slot s keeps its connection, and nothing changes for the others.
Elsewhere(v, w, s) ==
    LET x == v.conns[s].peer
    IN  /\ w.conns[s].in_use /\ w.conns[s].peer = x
        /\ \A r \in Slots \ {s} : w.conns[r] = v.conns[r]
        /\ \A y \in Clients \ {x} : w.sock[y] = v.sock[y] /\ w.told[y] = v.told[y]
        /\ w.fate = v.fate /\ w.lost = v.lost
        /\ w.ready \subseteq v.ready \cup {x}

LEMMA SlotChange ==
    ASSUME NEW v, NEW w \in SrvType, NEW k, NEW n, NEW m, NEW a, NEW s \in Slots,
           NEW x, x = v.conns[s].peer,
           SrvInv(v, k, n, a), v.conns[s].in_use, Elsewhere(v, w, s),
           m = n \/ s = a,
           SlotInv(w, k, IF s = a THEN m ELSE 0, s),
           Len(w.sock[x]) <= Cap, Messages(w.told[x]), InOrder(x, w.told[x])
    PROVE  SrvInv(w, k, m, a)
<1>1. /\ v \in SrvType /\ got \in [Clients -> Seq(Replies)]
      /\ \A r \in Slots : SlotInv(v, k, IF r = a THEN n ELSE 0, r)
      /\ \A y \in Clients : ClientInv(v, k, y)
      /\ \A r, t \in InUse(v) : v.conns[r].peer = v.conns[t].peer => r = t
      /\ Cardinality(InUse(v)) <= MaxClients
  BY DEF SrvInv
<1>2. /\ w.conns[s].in_use /\ w.conns[s].peer = x
      /\ \A r \in Slots \ {s} : w.conns[r] = v.conns[r]
      /\ \A y \in Clients \ {x} : w.sock[y] = v.sock[y] /\ w.told[y] = v.told[y]
      /\ w.fate = v.fate /\ w.lost = v.lost
      /\ w.ready \subseteq v.ready \cup {x}
  BY DEF Elsewhere
<1>3. /\ x \in Clients /\ v.fate[x] = "open" /\ w.fate[x] = "open"
      /\ (got[x] \o w.sock[x]) \o w.conns[s].wbuf = w.told[x]
  <2>1. x \in Clients /\ v.fate[x] = "open"
    BY <1>1 DEF SlotInv
  <2>2. (got[x] \o w.sock[x]) \o w.conns[s].wbuf = w.told[x]
    BY <1>2 DEF SlotInv
  <2> QED BY <1>2, <2>1, <2>2
<1>4. InUse(w) = InUse(v) /\ \A r \in Slots : w.conns[r].peer = v.conns[r].peer
  BY <1>2 DEF InUse
<1>5. ASSUME NEW r \in Slots PROVE SlotInv(w, k, IF r = a THEN m ELSE 0, r)
  <2>1. CASE r = s
    BY <2>1
  <2>2. CASE r # s
    <3>1. SlotInv(v, k, IF r = a THEN m ELSE 0, r) /\ w.conns[r] = v.conns[r]
      BY <1>1, <1>2, <2>2
    <3>2. CASE v.conns[r].in_use
      <4>1. v.conns[r].peer \in Clients \ {x}
        <5>1. v.conns[r].peer \in Clients
          BY <3>1, <3>2 DEF SlotInv
        <5>2. r \in InUse(v) /\ s \in InUse(v)
          BY <3>2 DEF InUse
        <5> QED BY <1>1, <2>2, <5>1, <5>2
      <4> DEFINE y == v.conns[r].peer
      <4>2. w.sock[y] = v.sock[y] /\ w.told[y] = v.told[y] /\ w.fate[y] = v.fate[y]
        BY <1>2, <4>1
      <4> QED BY <3>1, <4>2 DEF SlotInv
    <3>3. CASE ~ v.conns[r].in_use
      BY <3>1, <3>3 DEF SlotInv
    <3> QED BY <3>2, <3>3
  <2> QED BY <2>1, <2>2
<1>6. ASSUME NEW y \in Clients PROVE ClientInv(w, k, y)
  <2>0. ClientInv(v, k, y)
    BY <1>1
  <2>1. CASE y = x
    <3>1. got[x] \o w.sock[x] \in Seq(Replies) /\ w.conns[s].wbuf \in Seq(Replies)
      <4>1. got[x] \in Seq(Replies) /\ w.sock[x] \in Seq(Replies)
        BY <1>1, <1>3 DEF SrvType
      <4>2. w.conns[s].wbuf \in Seq(Replies)
        BY DEF SrvType, ConnType
      <4> QED BY <4>1, <4>2, ConcatProperties
    <3>2. IsPrefix(got[x] \o w.sock[x], w.told[x])
      BY <1>3, <3>1, PrefixOfConcat
    <3>3. w.lost[x] => w.fate[x] \in Causes
      BY <1>2, <2>0, <2>1 DEF ClientInv
    <3>4. x \notin k.waiting
      BY <1>3, <2>0, <2>1 DEF ClientInv
    <3> QED BY <1>2, <1>3, <2>1, <3>2, <3>3, <3>4 DEF ClientInv
  <2>2. CASE y # x
    <3>1. /\ w.sock[y] = v.sock[y] /\ w.told[y] = v.told[y]
          /\ w.fate[y] = v.fate[y] /\ w.lost[y] = v.lost[y]
          /\ y \in w.ready => y \in v.ready
      BY <1>2, <2>2
    <3>2. \A r \in Slots : v.conns[r].in_use <=> w.conns[r].in_use
      BY <1>2
    <3> QED BY <1>4, <2>0, <3>1, <3>2 DEF ClientInv
  <2> QED BY <2>1, <2>2
<1>7. \A r, t \in InUse(w) : w.conns[r].peer = w.conns[t].peer => r = t
  BY <1>1, <1>4 DEF InUse
<1>8. Cardinality(InUse(w)) <= MaxClients
  BY <1>1, <1>4
<1> QED BY <1>1, <1>5, <1>6, <1>7, <1>8 DEF SrvInv

\* The invariant still holds, and only slot s has changed.
Still(v, w, k, n, a, s) ==
    SrvInv(w, k, n, a) /\ \A r \in Slots \ {s} : w.conns[r] = v.conns[r]

\* conn_close: replies may be lost only for a cause.
LEMMA CloseInv ==
    ASSUME NEW v, NEW k, NEW n, NEW a, NEW s \in Slots, NEW why \in Reasons,
           SrvInv(v, k, n, a), v.conns[s].in_use,
           v.conns[s].wbuf # <<>> => why \in Causes
    PROVE  Still(v, ConnClose(v, s, why), k, n, a, s)
<1> DEFINE w == ConnClose(v, s, why)
           x == v.conns[s].peer
           b == v.conns[s].wbuf # <<>>
<1>1. /\ v \in SrvType /\ got \in [Clients -> Seq(Replies)]
      /\ \A r \in Slots : SlotInv(v, k, IF r = a THEN n ELSE 0, r)
      /\ \A y \in Clients : ClientInv(v, k, y)
      /\ \A r, t \in InUse(v) : v.conns[r].peer = v.conns[t].peer => r = t
      /\ Cardinality(InUse(v)) <= MaxClients
  BY DEF SrvInv
<1>2. x \in Clients /\ v.fate[x] = "open"
  BY <1>1 DEF SlotInv
<1>3. w = [v EXCEPT !.conns[s] = FreeConn, !.ready = @ \ {x}, !.fate[x] = why, !.lost[x] = b]
  BY DEF ConnClose, ConnReset
<1>4. b \in BOOLEAN /\ (b => why \in Causes)
  OBVIOUS
<1> HIDE DEF b, w, x
<1>5. /\ w.conns = [v.conns EXCEPT ![s] = FreeConn] /\ w.sock = v.sock
      /\ w.ready = v.ready \ {x} /\ w.quit = v.quit /\ w.told = v.told
      /\ w.fate = [v.fate EXCEPT ![x] = why] /\ w.lost = [v.lost EXCEPT ![x] = b]
  BY <1>1, <1>3 DEF SrvType
<1>6. FreeConn \in ConnType
  BY EmptySeq DEF FreeConn, ConnType
<1>7. w \in SrvType
  <2>0. /\ v.conns \in [Slots -> ConnType] /\ v.sock \in [Clients -> Seq(Replies)]
        /\ v.ready \in SUBSET Clients /\ v.quit \in BOOLEAN
        /\ v.told \in [Clients -> Seq(Replies)]
        /\ v.fate \in [Clients -> Fates] /\ v.lost \in [Clients -> BOOLEAN]
        /\ why \in Fates
    BY <1>1 DEF SrvType, Fates
  <2>1. /\ w.conns \in [Slots -> ConnType] /\ w.sock \in [Clients -> Seq(Replies)]
        /\ w.ready \in SUBSET Clients /\ w.quit \in BOOLEAN
        /\ w.told \in [Clients -> Seq(Replies)]
        /\ w.fate \in [Clients -> Fates] /\ w.lost \in [Clients -> BOOLEAN]
    <3>1. w.conns \in [Slots -> ConnType]
      <4>1. w.conns = [v.conns EXCEPT ![s] = FreeConn] /\ v.conns \in [Slots -> ConnType]
        BY <1>5, <2>0
      <4> QED BY <1>6, <4>1, Zenon
    <3>2. w.fate \in [Clients -> Fates]
      <4>1. w.fate = [v.fate EXCEPT ![x] = why] /\ v.fate \in [Clients -> Fates]
        BY <1>5, <2>0
      <4> QED BY <2>0, <4>1, Zenon
    <3>3. w.lost \in [Clients -> BOOLEAN]
      BY <1>4, <1>5, <2>0
    <3>4. w.ready \in SUBSET Clients
      BY <1>5, <2>0
    <3> QED BY <1>5, <2>0, <3>1, <3>2, <3>3, <3>4
  <2>2. w = [conns |-> w.conns, sock |-> w.sock, ready |-> w.ready, quit |-> w.quit,
             told |-> w.told, fate |-> w.fate, lost |-> w.lost]
    BY <1>1, <1>3 DEF SrvType
  <2> QED BY <2>1, <2>2 DEF SrvType
<1>8. /\ w.conns[s] = FreeConn /\ ~ w.conns[s].in_use
      /\ \A r \in Slots \ {s} : w.conns[r] = v.conns[r]
      /\ w.fate[x] = why /\ w.lost[x] = b
      /\ \A y \in Clients \ {x} : w.fate[y] = v.fate[y] /\ w.lost[y] = v.lost[y]
  BY <1>1, <1>2, <1>5 DEF SrvType, FreeConn
<1>9. \A r \in Slots \ {s} : v.conns[r].in_use => v.conns[r].peer \in Clients \ {x}
  <2> TAKE r \in Slots \ {s}
  <2> HAVE v.conns[r].in_use
  <2>1. r \in InUse(v) /\ s \in InUse(v)
    BY DEF InUse
  <2>2. v.conns[r].peer \in Clients
    BY <1>1 DEF SlotInv
  <2> QED BY <1>1, <2>1, <2>2 DEF x
<1>10. InUse(w) \subseteq InUse(v) /\ s \notin InUse(w)
  BY <1>8 DEF InUse
<1>11. ASSUME NEW r \in Slots PROVE SlotInv(w, k, IF r = a THEN n ELSE 0, r)
  <2>1. CASE r = s
    BY <1>8, <2>1 DEF SlotInv
  <2>2. CASE r # s
    <3>1. SlotInv(v, k, IF r = a THEN n ELSE 0, r) /\ w.conns[r] = v.conns[r]
      BY <1>1, <1>8, <2>2
    <3>2. v.conns[r].in_use => w.fate[v.conns[r].peer] = v.fate[v.conns[r].peer]
      BY <1>8, <1>9, <2>2
    <3> QED BY <1>5, <3>1, <3>2 DEF SlotInv
  <2> QED BY <2>1, <2>2
<1>12. ASSUME NEW y \in Clients PROVE ClientInv(w, k, y)
  <2>0. ClientInv(v, k, y)
    BY <1>1
  <2>1. CASE y = x
    <3>1. why \notin {"new", "backlog", "open"}
      BY DEF Reasons
    <3>2. x \notin k.waiting
      BY <1>2, <2>0, <2>1 DEF ClientInv
    <3> QED BY <1>4, <1>5, <1>8, <2>0, <2>1, <3>1, <3>2 DEF ClientInv
  <2>2. CASE y # x
    <3>1. \A r \in Slots : v.conns[r].in_use /\ v.conns[r].peer = y =>
             w.conns[r].in_use /\ w.conns[r].peer = y
      BY <1>8, <2>2 DEF x
    <3> QED BY <1>5, <1>8, <2>0, <2>2, <3>1 DEF ClientInv
  <2> QED BY <2>1, <2>2
<1>13. \A r, t \in InUse(w) : w.conns[r].peer = w.conns[t].peer => r = t
  BY <1>1, <1>8, <1>10 DEF InUse
<1>14. Cardinality(InUse(w)) <= MaxClients
  <2>1. IsFiniteSet(InUse(v))
    <3>1. IsFiniteSet(1..NSlots)
      BY LoopAssumption, FS_Interval
    <3> QED BY <3>1, FS_Subset DEF InUse, Slots
  <2>2. /\ Cardinality(InUse(w)) <= Cardinality(InUse(v))
        /\ Cardinality(InUse(v)) \in Nat /\ Cardinality(InUse(w)) \in Nat
    BY <1>10, <2>1, FS_Subset, FS_CardinalityType
  <2> QED BY <1>1, <2>2, LoopAssumption
<1>15. SrvInv(w, k, n, a)
  BY <1>1, <1>7, <1>11, <1>12, <1>13, <1>14 DEF SrvInv
<1> QED BY <1>8, <1>15 DEF w, Still

\* w is v with another connection record c in slot s, and other contents of
\* its client's socket and history.
Update(v, w, s, x, c, so, to) ==
    /\ w = [conns |-> w.conns, sock |-> w.sock, ready |-> w.ready, quit |-> w.quit,
            told |-> w.told, fate |-> w.fate, lost |-> w.lost]
    /\ w.conns = [v.conns EXCEPT ![s] = c]
    /\ w.sock = [v.sock EXCEPT ![x] = so] /\ w.told = [v.told EXCEPT ![x] = to]
    /\ w.ready \subseteq v.ready \cup {x} /\ w.quit \in BOOLEAN
    /\ w.fate = v.fate /\ w.lost = v.lost

Updated(v, w, s, x, c, so, to) ==
    /\ w \in SrvType
    /\ w.conns[s] = c /\ \A r \in Slots \ {s} : w.conns[r] = v.conns[r]
    /\ w.sock[x] = so /\ \A y \in Clients \ {x} : w.sock[y] = v.sock[y]
    /\ w.told[x] = to /\ \A y \in Clients \ {x} : w.told[y] = v.told[y]
    /\ w.fate = v.fate /\ w.lost = v.lost /\ w.ready \subseteq v.ready \cup {x}

LEMMA UpdateFacts ==
    ASSUME NEW v \in SrvType, NEW w, NEW s \in Slots, NEW x \in Clients,
           NEW c \in ConnType, NEW so \in Seq(Replies), NEW to \in Seq(Replies),
           Update(v, w, s, x, c, so, to)
    PROVE  Updated(v, w, s, x, c, so, to)
<1>1. /\ v.conns \in [Slots -> ConnType] /\ v.sock \in [Clients -> Seq(Replies)]
      /\ v.ready \in SUBSET Clients /\ v.told \in [Clients -> Seq(Replies)]
      /\ v.fate \in [Clients -> Fates] /\ v.lost \in [Clients -> BOOLEAN]
  BY DEF SrvType
<1>2. w.conns = [v.conns EXCEPT ![s] = c]
  BY DEF Update
<1>3. w.sock = [v.sock EXCEPT ![x] = so]
  BY DEF Update
<1>4. w.told = [v.told EXCEPT ![x] = to]
  BY DEF Update
<1>5. /\ w.ready \subseteq v.ready \cup {x} /\ w.quit \in BOOLEAN
      /\ w.fate = v.fate /\ w.lost = v.lost
      /\ w = [conns |-> w.conns, sock |-> w.sock, ready |-> w.ready, quit |-> w.quit,
              told |-> w.told, fate |-> w.fate, lost |-> w.lost]
  BY DEF Update
<1>6. /\ w.conns \in [Slots -> ConnType]
      /\ w.conns[s] = c /\ \A r \in Slots \ {s} : w.conns[r] = v.conns[r]
  <2>1. v.conns \in [Slots -> ConnType] /\ w.conns = [v.conns EXCEPT ![s] = c]
    BY <1>1, <1>2
  <2>2. w.conns \in [Slots -> ConnType]
    BY <2>1, Zenon
  <2> QED BY <2>1, <2>2
<1>7. /\ w.sock \in [Clients -> Seq(Replies)]
      /\ w.sock[x] = so /\ \A y \in Clients \ {x} : w.sock[y] = v.sock[y]
  <2>1. v.sock \in [Clients -> Seq(Replies)] /\ w.sock = [v.sock EXCEPT ![x] = so]
    BY <1>1, <1>3
  <2>2. w.sock \in [Clients -> Seq(Replies)]
    BY <2>1, Zenon
  <2> QED BY <2>1, <2>2
<1>8. /\ w.told \in [Clients -> Seq(Replies)]
      /\ w.told[x] = to /\ \A y \in Clients \ {x} : w.told[y] = v.told[y]
  <2>1. v.told \in [Clients -> Seq(Replies)] /\ w.told = [v.told EXCEPT ![x] = to]
    BY <1>1, <1>4
  <2>2. w.told \in [Clients -> Seq(Replies)]
    BY <2>1, Zenon
  <2> QED BY <2>1, <2>2
<1>9. w \in SrvType
  BY <1>1, <1>5, <1>6, <1>7, <1>8 DEF SrvType
<1> QED BY <1>5, <1>6, <1>7, <1>8, <1>9 DEF Updated

\* The invariant holds of w, in which slot s has changed to c and no other has.
Kept(v, w, k, m, a, s, c) ==
    /\ SrvInv(w, k, m, a) /\ w.conns[s] = c
    /\ \A r \in Slots \ {s} : w.conns[r] = v.conns[r]

\* What the invariant says of the connection c of client x, of whose read buffer
\* j pieces have been executed, with so in its socket and the history to.
Fits(k, j, x, c, so, to) ==
    LET b == k.received[x] - Len(c.rbuf)
        N == Count(to, Len(to))
    IN  /\ c.in_use /\ c.peer = x /\ b \in Nat
        /\ \A i \in 1..Len(c.rbuf) : c.rbuf[i] = Piece(x, b + i)
        /\ 2 * N = b + j
        /\ RequirePass /\ c.authenticated => Authed(x, N)
        /\ (got[x] \o so) \o c.wbuf = to
        /\ c.subs => Subscribed(to)
        /\ Len(so) <= Cap /\ Messages(to) /\ InOrder(x, to)

Typed(x, c, so, to) ==
    /\ x \in Clients /\ c \in ConnType /\ so \in Seq(Replies) /\ to \in Seq(Replies)
    /\ got[x] \in Seq(Replies) /\ c.wbuf \in Seq(Replies) /\ c.rbuf \in Seq(Pieces)

LEMMA SlotFacts ==
    ASSUME NEW v, NEW k, NEW n, NEW a, NEW s \in Slots, NEW x,
           SrvInv(v, k, n, a), v.conns[s].in_use, x = v.conns[s].peer
    PROVE  /\ v \in SrvType /\ x \in Clients /\ v.fate[x] = "open"
           /\ Typed(x, v.conns[s], v.sock[x], v.told[x])
           /\ Fits(k, IF s = a THEN n ELSE 0, x, v.conns[s], v.sock[x], v.told[x])
<1>1. /\ v \in SrvType /\ got \in [Clients -> Seq(Replies)]
      /\ SlotInv(v, k, IF s = a THEN n ELSE 0, s)
      /\ \A y \in Clients : ClientInv(v, k, y)
  BY DEF SrvInv
<1>2. x \in Clients /\ v.fate[x] = "open"
  BY <1>1 DEF SlotInv
<1>3. Len(v.sock[x]) <= Cap /\ Messages(v.told[x]) /\ InOrder(x, v.told[x])
  BY <1>1, <1>2 DEF ClientInv
<1>4. /\ v.conns[s] \in ConnType /\ got[x] \in Seq(Replies)
      /\ v.sock[x] \in Seq(Replies) /\ v.told[x] \in Seq(Replies)
  BY <1>1, <1>2 DEF SrvType
<1>5. v.conns[s].wbuf \in Seq(Replies) /\ v.conns[s].rbuf \in Seq(Pieces)
  BY <1>4 DEF ConnType
<1>6. Fits(k, IF s = a THEN n ELSE 0, x, v.conns[s], v.sock[x], v.told[x])
  BY <1>1, <1>3 DEF SlotInv, Fits
<1> QED BY <1>1, <1>2, <1>4, <1>5, <1>6 DEF Typed

LEMMA UpdateInv ==
    ASSUME NEW v, NEW w, NEW k, NEW n, NEW m, NEW a, NEW s \in Slots, NEW x,
           NEW c, NEW so, NEW to,
           SrvInv(v, k, n, a), v.conns[s].in_use, x = v.conns[s].peer,
           Update(v, w, s, x, c, so, to), Typed(x, c, so, to),
           m = n \/ s = a, Fits(k, IF s = a THEN m ELSE 0, x, c, so, to)
    PROVE  Kept(v, w, k, m, a, s, c)
<1>1. v \in SrvType /\ v.fate[x] = "open"
  BY SlotFacts
<1>2. x \in Clients /\ c \in ConnType /\ so \in Seq(Replies) /\ to \in Seq(Replies)
  BY DEF Typed
<1>3. /\ w \in SrvType
      /\ w.conns[s] = c /\ \A r \in Slots \ {s} : w.conns[r] = v.conns[r]
      /\ w.sock[x] = so /\ \A y \in Clients \ {x} : w.sock[y] = v.sock[y]
      /\ w.told[x] = to /\ \A y \in Clients \ {x} : w.told[y] = v.told[y]
      /\ w.fate = v.fate /\ w.lost = v.lost /\ w.ready \subseteq v.ready \cup {x}
  <2>1. Updated(v, w, s, x, c, so, to)
    BY <1>1, <1>2, UpdateFacts, Zenon
  <2> QED BY <2>1 DEF Updated
<1>4. c.in_use /\ c.peer = x /\ Len(so) <= Cap /\ Messages(to) /\ InOrder(x, to)
  BY DEF Fits
<1>5. Elsewhere(v, w, s)
  BY <1>3, <1>4 DEF Elsewhere
<1>6. SlotInv(w, k, IF s = a THEN m ELSE 0, s)
  <2>1. w.fate[x] = "open"
    BY <1>1, <1>3
  <2> QED BY <1>2, <1>3, <2>1 DEF SlotInv, Fits
<1>7. SrvInv(w, k, m, a)
  <2>1. Len(w.sock[x]) <= Cap /\ Messages(w.told[x]) /\ InOrder(x, w.told[x])
    BY <1>3, <1>4
  <2> QED BY <1>3, <1>5, <1>6, <2>1, SlotChange
<1> QED BY <1>3, <1>7 DEF Kept

\* One more reply for the client of a connection: c becomes d.
Tells(x, c, d, to, r) ==
    /\ d.in_use /\ d.peer = x /\ d.rbuf = c.rbuf /\ d.wbuf = Append(c.wbuf, r)
    /\ IsAnswer(r) => r.of = <<x, Count(to, Len(to)) + 1>>
    /\ r.kind = "message" => c.subs
    /\ d.subs => (c.subs /\ r.kind # "unsubscribe") \/ r.kind = "subscribe"
    /\ RequirePass /\ d.authenticated =>
          c.authenticated \/ (IsAnswer(r) /\ Authed(x, r.of[2]))

LEMMA TellFits ==
    ASSUME NEW k, NEW j \in Nat, NEW x, NEW c, NEW d \in ConnType, NEW so, NEW to,
           NEW r \in Replies,
           Typed(x, c, so, to), Fits(k, j, x, c, so, to), Tells(x, c, d, to, r)
    PROVE  /\ Typed(x, d, so, Append(to, r))
           /\ Fits(k, IF IsAnswer(r) THEN j + 2 ELSE j, x, d, so, Append(to, r))
<1> DEFINE tn == Append(to, r)
           N == Count(to, Len(to))
           M == Count(tn, Len(tn))
           b == k.received[x] - Len(c.rbuf)
<1>1. /\ x \in Clients /\ got[x] \in Seq(Replies) /\ so \in Seq(Replies)
      /\ to \in Seq(Replies) /\ c.wbuf \in Seq(Replies)
  BY DEF Typed
<1>2. tn \in Seq(Replies) /\ Len(tn) = Len(to) + 1 /\ Len(to) \in Nat
  BY <1>1, AppendProperties, LenProperties
<1>3. N \in Nat /\ M = IF IsAnswer(r) THEN N + 1 ELSE N
  <2>1. Len(to) \in 0..Len(to)
    BY <1>2
  <2> QED BY <1>1, <1>2, <2>1, CountOne
<1>4. Typed(x, d, so, tn)
  BY <1>1, <1>2 DEF Typed, ConnType
<1>5. Messages(tn) /\ InOrder(x, tn) /\ (d.subs => Subscribed(tn))
  <2>1. /\ Messages(to) /\ (r.kind = "message" => Subscribed(to)) => Messages(tn)
        /\ Subscribed(to) /\ r.kind # "unsubscribe" => Subscribed(tn)
        /\ r.kind = "subscribe" => Subscribed(tn)
        /\ InOrder(x, to) /\ (IsAnswer(r) => r.of = <<x, N + 1>>) => InOrder(x, tn)
    BY <1>1, TellOne
  <2>2. Messages(to) /\ InOrder(x, to) /\ (c.subs => Subscribed(to))
    BY DEF Fits
  <2>3. /\ IsAnswer(r) => r.of = <<x, N + 1>>
        /\ r.kind = "message" => c.subs
        /\ d.subs => (c.subs /\ r.kind # "unsubscribe") \/ r.kind = "subscribe"
    BY DEF Tells
  <2> HIDE DEF tn, N
  <2> QED BY <2>1, <2>2, <2>3
<1>6. (got[x] \o so) \o d.wbuf = tn
  <2> DEFINE h == got[x] \o so
             wb == c.wbuf
  <2>1. h \in Seq(Replies) /\ wb \in Seq(Replies)
    BY <1>1, ConcatProperties
  <2>2. h \o wb = to /\ d.wbuf = Append(wb, r)
    BY DEF Fits, Tells
  <2> HIDE DEF h, wb
  <2>3. <<r>> \in Seq(Replies) /\ h \o wb \in Seq(Replies)
    BY <1>1, <2>2
  <2>4. Append(wb, r) = wb \o <<r>> /\ tn = (h \o wb) \o <<r>>
    BY <2>1, <2>2, <2>3, AppendIsConcat
  <2>5. h \o (wb \o <<r>>) = (h \o wb) \o <<r>>
    BY <2>1, <2>3, ConcatAssociative
  <2> QED BY <2>2, <2>4, <2>5 DEF h
<1>7. RequirePass /\ d.authenticated => Authed(x, M)
  <2> HAVE RequirePass /\ d.authenticated
  <2>0. /\ c.authenticated => Authed(x, N)
        /\ c.authenticated \/ (IsAnswer(r) /\ Authed(x, r.of[2]))
        /\ IsAnswer(r) => r.of = <<x, N + 1>>
    BY DEF Fits, Tells
  <2> HIDE DEF N, M
  <2>1. CASE c.authenticated
    <3>2. 1..N \subseteq 1..M
      BY <1>3
    <3> QED BY <2>0, <2>1, <3>2 DEF Authed
  <2>2. CASE ~ c.authenticated
    <3>1. IsAnswer(r) /\ Authed(x, r.of[2]) /\ r.of[2] = N + 1
      BY <2>0, <2>2
    <3> QED BY <1>3, <3>1
  <2> QED BY <2>1, <2>2
<1>8. /\ d.in_use /\ d.peer = x /\ d.rbuf = c.rbuf /\ b \in Nat
      /\ \A i \in 1..Len(c.rbuf) : c.rbuf[i] = Piece(x, b + i)
      /\ 2 * N = b + j /\ Len(so) <= Cap
  BY DEF Fits, Tells
<1>9. 2 * M = b + (IF IsAnswer(r) THEN j + 2 ELSE j)
  <2> HIDE DEF N, M, b
  <2> QED BY <1>3, <1>8
<1>10. Fits(k, IF IsAnswer(r) THEN j + 2 ELSE j, x, d, so, tn)
  <2> HIDE DEF tn
  <2> QED BY <1>5, <1>6, <1>7, <1>8, <1>9 DEF Fits
<1> QED BY <1>4, <1>10

-----------------------------------------------------------------------------
(* Replies.                                                                *)

\* A record u that differs from v in the flags of slot s and in quit.
LEMMA FlagUpdate ==
    ASSUME NEW v \in SrvType, NEW s \in Slots, NEW x \in Clients, NEW d, NEW q \in BOOLEAN,
           NEW u, u = [v EXCEPT !.conns[s] = d, !.quit = q]
    PROVE  Update(v, u, s, x, d, v.sock[x], v.told[x])
<1>1. v = [conns |-> v.conns, sock |-> v.sock, ready |-> v.ready, quit |-> v.quit,
           told |-> v.told, fate |-> v.fate, lost |-> v.lost]
  BY DEF SrvType
<1>2. /\ u.conns = [v.conns EXCEPT ![s] = d] /\ u.sock = v.sock /\ u.ready = v.ready
      /\ u.quit = q /\ u.told = v.told /\ u.fate = v.fate /\ u.lost = v.lost
      /\ u = [conns |-> u.conns, sock |-> u.sock, ready |-> u.ready, quit |-> u.quit,
              told |-> u.told, fate |-> u.fate, lost |-> u.lost]
  BY <1>1
<1>3. v.sock \in [Clients -> Seq(Replies)] /\ v.told \in [Clients -> Seq(Replies)]
  BY DEF SrvType
<1>4. v.sock = [v.sock EXCEPT ![x] = v.sock[x]] /\ v.told = [v.told EXCEPT ![x] = v.told[x]]
  BY <1>3
<1> QED BY <1>2, <1>4 DEF Update

\* The flags of d allow a reply to command t on connection c.
Readies(x, c, d, t, kind) ==
    /\ d.in_use /\ d.peer = x /\ d.rbuf = c.rbuf /\ d.wbuf = c.wbuf
    /\ d.subs => (c.subs /\ kind # "unsubscribe") \/ kind = "subscribe"
    /\ RequirePass /\ d.authenticated =>
          c.authenticated \/ (kind # "protocol" /\ Authed(x, t[2]))

\* Command t is the next one of the connection in slot s.
NextOf(v, s, t) ==
    LET x == v.conns[s].peer
    IN  t = <<x, Count(v.told[x], Len(v.told[x])) + 1>>

\* After a step for slot s, which keeps its connection and its read buffer.
Executed(v, w, k, m, s) ==
    /\ SrvInv(w, k, m, s)
    /\ w.conns[s].in_use /\ w.conns[s].peer = v.conns[s].peer
    /\ w.conns[s].rbuf = v.conns[s].rbuf

LEMMA CountNat ==
    ASSUME NEW h \in Seq(Replies)
    PROVE  Count(h, Len(h)) \in Nat
<1>1. Len(h) \in Nat
  BY LenProperties
<1>2. IsFiniteSet(1..Len(h))
  BY <1>1, FS_Interval
<1>3. IsFiniteSet({q \in 1..Len(h) : IsAnswer(h[q])})
  BY <1>2, FS_Subset
<1> QED BY <1>3, FS_CardinalityType DEF Count

LEMMA ReplyInv ==
    ASSUME NEW v, NEW u, NEW k, NEW n \in Nat, NEW s \in Slots, NEW x, NEW t,
           NEW d \in ConnType, NEW kind \in Kinds \ {"message"},
           SrvInv(v, k, n, s), v.conns[s].in_use, x = v.conns[s].peer,
           NextOf(v, s, t) \/ (kind = "protocol" /\ t \in Clients \X Nat /\ t[1] = x),
           Update(v, u, s, x, d, v.sock[x], v.told[x]),
           Readies(x, v.conns[s], d, t, kind)
    PROVE  /\ Executed(v, Reply(u, s, t, kind), k, IF kind = "protocol" THEN n ELSE n + 2, s)
           /\ Reply(u, s, t, kind).conns[s].should_close = d.should_close
<1> DEFINE r == [kind |-> kind, of |-> t]
           w == Reply(u, s, t, kind)
           c == [d EXCEPT !.wbuf = Append(@, r)]
           to == v.told[x]
           so == v.sock[x]
           m == IF kind = "protocol" THEN n ELSE n + 2
<1>1. /\ v \in SrvType /\ x \in Clients
      /\ Typed(x, v.conns[s], so, to) /\ Fits(k, n, x, v.conns[s], so, to)
  BY SlotFacts
<1>2. so \in Seq(Replies) /\ to \in Seq(Replies)
  BY <1>1 DEF Typed
<1>3. t \in Clients \X Nat /\ t[1] = x /\ (kind # "protocol" => t = <<x, Count(to, Len(to)) + 1>>)
  <2>1. Count(to, Len(to)) \in Nat
    BY <1>2, CountNat
  <2>2. CASE NextOf(v, s, t)
    <3>1. t = <<x, Count(to, Len(to)) + 1>>
      BY <2>2 DEF NextOf
    <3> HIDE DEF to
    <3>2. Count(to, Len(to)) + 1 \in Nat
      BY <2>1
    <3> QED BY <1>1, <3>1, <3>2
  <2>3. CASE kind = "protocol" /\ t \in Clients \X Nat /\ t[1] = x
    BY <2>3
  <2> QED BY <2>2, <2>3
<1>4. r \in Replies /\ r.kind = kind /\ r.of = t
  BY <1>3 DEF Replies
<1>5. IsAnswer(r) <=> kind # "protocol"
  BY <1>4 DEF IsAnswer
<1>6. /\ c \in ConnType /\ c.in_use = d.in_use /\ c.peer = d.peer /\ c.rbuf = d.rbuf
      /\ c.wbuf = Append(d.wbuf, r) /\ c.subs = d.subs
      /\ c.authenticated = d.authenticated /\ c.should_close = d.should_close
  <2>1. d.wbuf \in Seq(Replies)
    BY DEF ConnType
  <2>2. Append(d.wbuf, r) \in Seq(Replies)
    BY <1>4, <2>1, AppendProperties
  <2> HIDE DEF r
  <2> QED BY <2>2 DEF ConnType
<1>7. Updated(v, u, s, x, d, so, to)
  BY <1>1, <1>2, UpdateFacts
<1>8. /\ u \in SrvType /\ u.conns[s] = d /\ u.sock[x] = so /\ u.told[x] = to
  BY <1>7 DEF Updated
<1>9. /\ u.conns = [v.conns EXCEPT ![s] = d]
      /\ u.sock = [v.sock EXCEPT ![x] = so] /\ u.told = [v.told EXCEPT ![x] = to]
      /\ u.ready \subseteq v.ready \cup {x} /\ u.quit \in BOOLEAN
      /\ u.fate = v.fate /\ u.lost = v.lost
  BY DEF Update
<1>10. w = [u EXCEPT !.conns[s].wbuf = Append(@, r), !.told[x] = Append(@, r)]
  BY <1>3 DEF Reply
<1> HIDE DEF r, w, c, to, so
<1>11. /\ w.conns = [u.conns EXCEPT ![s] = c] /\ w.told = [u.told EXCEPT ![x] = Append(to, r)]
       /\ w.sock = u.sock /\ w.ready = u.ready /\ w.quit = u.quit
       /\ w.fate = u.fate /\ w.lost = u.lost
       /\ w = [conns |-> w.conns, sock |-> w.sock, ready |-> w.ready, quit |-> w.quit,
               told |-> w.told, fate |-> w.fate, lost |-> w.lost]
  BY <1>8, <1>10 DEF c, SrvType
<1>12. Update(v, w, s, x, c, so, Append(to, r))
  <2>1. w.conns = [v.conns EXCEPT ![s] = c]
    BY <1>9, <1>11
  <2>2. w.told = [v.told EXCEPT ![x] = Append(to, r)]
    BY <1>9, <1>11
  <2> QED BY <1>9, <1>11, <2>1, <2>2 DEF Update
<1>13. Tells(x, v.conns[s], c, to, r)
  BY <1>3, <1>4, <1>5, <1>6 DEF Tells, Readies
<1>14. /\ Typed(x, c, so, Append(to, r))
       /\ Fits(k, IF IsAnswer(r) THEN n + 2 ELSE n, x, c, so, Append(to, r))
  BY <1>1, <1>4, <1>6, <1>13, TellFits
<1>15. Fits(k, IF s = s THEN m ELSE 0, x, c, so, Append(to, r))
  BY <1>5, <1>14
<1>16. Kept(v, w, k, m, s, s, c)
  <2> HIDE DEF m
  <2> QED BY <1>12, <1>14, <1>15, UpdateInv
<1>17. Executed(v, w, k, m, s) /\ w.conns[s].should_close = d.should_close
  BY <1>6, <1>16 DEF Kept, Executed, Readies
<1> QED BY <1>17 DEF w

-----------------------------------------------------------------------------
(* Writes.                                                                 *)

LEMMA MinOfTwo ==
    ASSUME NEW i \in Nat, NEW j \in Nat
    PROVE  Min({i, j}) \in {i, j} /\ Min({i, j}) <= i /\ Min({i, j}) <= j
<1>1. \E y \in {i, j} : \A z \in {i, j} : y <= z
  <2>1. CASE i <= j
    BY <2>1
  <2>2. CASE ~ (i <= j)
    BY <2>2
  <2> QED BY <2>1, <2>2
<1> QED BY <1>1 DEF Min

LEMMA Associative ==
    ASSUME NEW R, NEW f \in Seq(R), NEW g \in Seq(R), NEW h \in Seq(R)
    PROVE  (f \o g) \o h = f \o (g \o h)
  BY ConcatAssociative

\* What is given to the socket and what stays are the whole.
Cut(g, so, wb, i) ==
    /\ so \o SubSeq(wb, 1, i) \in Seq(Replies)
    /\ SubSeq(wb, i + 1, Len(wb)) \in Seq(Replies)
    /\ Len(so \o SubSeq(wb, 1, i)) = Len(so) + i
    /\ (g \o (so \o SubSeq(wb, 1, i))) \o SubSeq(wb, i + 1, Len(wb)) = (g \o so) \o wb
    /\ i = Len(wb) => SubSeq(wb, i + 1, Len(wb)) = <<>>

LEMMA CutInTwo ==
    ASSUME NEW g \in Seq(Replies), NEW so \in Seq(Replies), NEW wb \in Seq(Replies),
           NEW i \in 0..Len(wb)
    PROVE  Cut(g, so, wb, i)
<1>1. Len(wb) \in Nat /\ Len(so) \in Nat /\ i \in Nat
  BY LenProperties
<1> DEFINE p == SubSeq(wb, 1, i)
           q == SubSeq(wb, i + 1, Len(wb))
<1>2. p \in Seq(Replies) /\ Len(p) = i
  <2>1. 1 \in 1..(Len(wb) + 1) /\ i \in 0..Len(wb)
    BY <1>1
  <2> QED BY <1>1, <2>1, SubSeqProperties
<1>3. q \in Seq(Replies)
  <2>1. i + 1 \in 1..(Len(wb) + 1) /\ Len(wb) \in 0..Len(wb)
    BY <1>1
  <2> QED BY <1>1, <2>1, SubSeqProperties
<1>4. p \o q = wb
  <2>1. i \in (1 - 1)..Len(wb) /\ Len(wb) \in i..Len(wb) /\ 1 \in 1..(Len(wb) + 1)
    BY <1>1
  <2>2. p \o q = SubSeq(wb, 1, Len(wb))
    BY <2>1, ConcatAdjacentSubSeq, Zenon
  <2> QED BY <2>2, SubSeqFull
<1>5. i = Len(wb) => q = <<>>
  BY <1>1, SubSeqEmpty
<1> HIDE DEF p, q
<1>6. Len(so \o p) = Len(so) + i /\ so \o p \in Seq(Replies) /\ g \o so \in Seq(Replies)
  BY <1>2, ConcatProperties
<1>7. (g \o so) \o p = g \o (so \o p)
  BY <1>2, Associative
<1>8. ((g \o so) \o p) \o q = (g \o so) \o (p \o q)
  <2> DEFINE h == g \o so
  <2>1. h \in Seq(Replies) /\ p \in Seq(Replies) /\ q \in Seq(Replies)
    BY <1>2, <1>3, <1>6
  <2> HIDE DEF h
  <2>2. (h \o p) \o q = h \o (p \o q)
    BY <2>1, Associative, SMTT(30)
  <2> QED BY <2>2 DEF h
<1> QED BY <1>3, <1>4, <1>5, <1>6, <1>7, <1>8 DEF p, q, Cut

\* flush_writes keeps the invariant, and closes only with nothing left.
LEMMA FlushInv ==
    ASSUME NEW v, NEW k, NEW n, NEW a, NEW s \in Slots,
           SrvInv(v, k, n, a), v.conns[s].in_use
    PROVE  Still(v, FlushWrites(v, s), k, n, a, s)
<1> DEFINE c == v.conns[s]
           x == c.peer
           i == Min({Len(c.wbuf), Cap - Len(v.sock[x])})
           p == SubSeq(c.wbuf, 1, i)
           q == SubSeq(c.wbuf, i + 1, Len(c.wbuf))
           less == i < Len(c.wbuf)
           d == [c EXCEPT !.wbuf = q, !.want_write = less]
           so == v.sock[x] \o p
           to == v.told[x]
           j == IF s = a THEN n ELSE 0
           w == [v EXCEPT !.sock[x] = @ \o p, !.conns[s].wbuf = SubSeq(@, i + 1, Len(@)),
                          !.conns[s].want_write = less]
<1>1. /\ v \in SrvType /\ x \in Clients
      /\ Typed(x, c, v.sock[x], to) /\ Fits(k, j, x, c, v.sock[x], to)
  BY SlotFacts
<1>2. /\ c \in ConnType /\ v.sock[x] \in Seq(Replies) /\ to \in Seq(Replies)
      /\ got[x] \in Seq(Replies) /\ c.wbuf \in Seq(Replies) /\ c.rbuf \in Seq(Pieces)
  BY <1>1 DEF Typed
<1>3. Len(c.wbuf) \in Nat /\ Len(v.sock[x]) \in Nat /\ Cap \in Nat /\ Len(v.sock[x]) <= Cap
  BY <1>1, <1>2, LenProperties, LoopAssumption DEF Fits
<1>4. i \in 0..Len(c.wbuf) /\ Len(v.sock[x]) + i <= Cap
  <2> DEFINE f == Len(c.wbuf)
             g == Cap - Len(v.sock[x])
  <2>1. f \in Nat /\ g \in Nat
    BY <1>3
  <2> HIDE DEF f, g
  <2>2. Min({f, g}) \in {f, g} /\ Min({f, g}) <= f /\ Min({f, g}) <= g
    BY <2>1, MinOfTwo
  <2>3. Min({f, g}) \in 0..f /\ Min({f, g}) <= g
    BY <2>1, <2>2
  <2> QED BY <1>3, <2>3 DEF f, g
<1> HIDE DEF i
<1>5. /\ so \in Seq(Replies) /\ q \in Seq(Replies) /\ Len(so) = Len(v.sock[x]) + i
      /\ (got[x] \o so) \o q = (got[x] \o v.sock[x]) \o c.wbuf
      /\ i = Len(c.wbuf) => q = <<>>
  <2>1. Cut(got[x], v.sock[x], c.wbuf, i)
    BY <1>2, <1>4, CutInTwo, Zenon
  <2> QED BY <2>1 DEF Cut
<1>6. less \in BOOLEAN
  OBVIOUS
<1>7. w = [v EXCEPT !.sock[x] = so, !.conns[s] = d]
  BY <1>1 DEF SrvType
<1>8. FlushWrites(v, s) = IF i = Len(c.wbuf) /\ c.should_close THEN ConnClose(w, s, "quit") ELSE w
  BY DEF FlushWrites, i
<1> HIDE DEF p, q, less, w, so
<1>9. /\ d \in ConnType /\ d.in_use = c.in_use /\ d.peer = x /\ d.rbuf = c.rbuf
      /\ d.wbuf = q /\ d.subs = c.subs /\ d.authenticated = c.authenticated
  <2> HIDE DEF c
  <2> QED BY <1>2, <1>5, <1>6 DEF ConnType, x
<1> HIDE DEF d
<1>10. /\ w.conns = [v.conns EXCEPT ![s] = d] /\ w.sock = [v.sock EXCEPT ![x] = so]
       /\ w.told = v.told /\ w.ready = v.ready /\ w.quit = v.quit
       /\ w.fate = v.fate /\ w.lost = v.lost
       /\ w = [conns |-> w.conns, sock |-> w.sock, ready |-> w.ready, quit |-> w.quit,
               told |-> w.told, fate |-> w.fate, lost |-> w.lost]
  BY <1>1, <1>7 DEF SrvType
<1>11. Update(v, w, s, x, d, so, to)
  <2>1. v.told \in [Clients -> Seq(Replies)] /\ v.quit \in BOOLEAN
    BY <1>1 DEF SrvType
  <2>2. v.told = [v.told EXCEPT ![x] = to]
    BY <2>1
  <2> QED BY <1>10, <2>1, <2>2 DEF Update
<1>12. Typed(x, d, so, to)
  BY <1>1, <1>2, <1>5, <1>9 DEF Typed
<1>13. Fits(k, j, x, d, so, to)
  <2> HIDE DEF c, x, to, j
  <2>1. Len(so) <= Cap
    BY <1>4, <1>5
  <2>2. (got[x] \o so) \o d.wbuf = to
    BY <1>1, <1>5, <1>9 DEF Fits
  <2> QED BY <1>1, <1>9, <2>1, <2>2 DEF Fits
<1>14. Kept(v, w, k, n, a, s, d)
  BY <1>11, <1>12, <1>13, UpdateInv
<1>15. /\ SrvInv(w, k, n, a) /\ w.conns[s] = d
       /\ \A r \in Slots \ {s} : w.conns[r] = v.conns[r]
  BY <1>14 DEF Kept
<1>16. CASE i = Len(c.wbuf) /\ c.should_close
  <2>1. "quit" \in Reasons /\ w.conns[s].in_use /\ w.conns[s].wbuf = <<>>
    BY <1>5, <1>9, <1>15, <1>16 DEF Reasons
  <2>2. Still(w, ConnClose(w, s, "quit"), k, n, a, s)
    BY <1>15, <2>1, CloseInv
  <2> QED BY <1>8, <1>15, <1>16, <2>2 DEF Still
<1>17. CASE ~ (i = Len(c.wbuf) /\ c.should_close)
  BY <1>8, <1>15, <1>17 DEF Still
<1> QED BY <1>16, <1>17

LEMMA FlushOrCloseInv ==
    ASSUME NEW v, NEW k, NEW n, NEW a, NEW s \in Slots,
           SrvInv(v, k, n, a), v.conns[s].in_use
    PROVE  Still(v, FlushOrClose(v, s), k, n, a, s)
<1>1. CASE FlushFails(v, s)
  <2>1. "err" \in Reasons /\ "err" \in Causes
    BY DEF Reasons, Causes
  <2>2. Still(v, ConnClose(v, s, "err"), k, n, a, s)
    BY <2>1, CloseInv
  <2> QED BY <1>1, <2>2 DEF FlushOrClose
<1>2. CASE ~ FlushFails(v, s)
  BY <1>2, FlushInv DEF FlushOrClose
<1> QED BY <1>1, <1>2

\* publish_local, one subscriber.
LEMMA DeliverInv ==
    ASSUME NEW v, NEW k, NEW n \in Nat, NEW a, NEW s \in Slots, NEW t \in Clients \X Nat,
           SrvInv(v, k, n, a), v.conns[s].in_use, v.conns[s].subs, Vouched(t)
    PROVE  Still(v, Deliver(v, s, t), k, n, a, s)
<1> DEFINE r == [kind |-> "message", of |-> t]
           c == v.conns[s]
           x == c.peer
           d == [c EXCEPT !.wbuf = Append(@, r)]
           so == v.sock[x]
           to == v.told[x]
           j == IF s = a THEN n ELSE 0
           w == [v EXCEPT !.conns[s].wbuf = Append(@, r), !.told[x] = Append(@, r)]
           u == [w EXCEPT !.conns[s].want_write = TRUE, !.ready = @ \cup {x}]
<1>1. /\ v \in SrvType /\ x \in Clients
      /\ Typed(x, c, so, to) /\ Fits(k, j, x, c, so, to)
  BY SlotFacts
<1>2. c \in ConnType /\ so \in Seq(Replies) /\ to \in Seq(Replies) /\ c.wbuf \in Seq(Replies)
  BY <1>1 DEF Typed
<1>3. r \in Replies /\ r.kind = "message" /\ ~ IsAnswer(r)
  BY DEF Replies, Kinds, IsAnswer
<1>4. Deliver(v, s, t) = IF FlushFails(w, s) THEN u ELSE FlushWrites(w, s)
  BY DEF Deliver
<1>0. /\ w = [v EXCEPT !.conns[s].wbuf = Append(@, r), !.told[x] = Append(@, r)]
      /\ u = [w EXCEPT !.conns[s].want_write = TRUE, !.ready = @ \cup {x}]
  OBVIOUS
<1> HIDE DEF r, u, w
<1>5. Append(c.wbuf, r) \in Seq(Replies) /\ Append(to, r) \in Seq(Replies)
  BY <1>2, <1>3, AppendProperties
<1>6. /\ w.conns = [v.conns EXCEPT ![s] = d] /\ w.sock = v.sock
      /\ w.told = [v.told EXCEPT ![x] = Append(to, r)]
      /\ w.ready = v.ready /\ w.quit = v.quit /\ w.fate = v.fate /\ w.lost = v.lost
      /\ w = [conns |-> w.conns, sock |-> w.sock, ready |-> w.ready, quit |-> w.quit,
              told |-> w.told, fate |-> w.fate, lost |-> w.lost]
  <2> HIDE DEF x
  <2> QED BY <1>0, <1>1 DEF SrvType
<1>7. /\ d \in ConnType /\ d.in_use = c.in_use /\ d.peer = x /\ d.rbuf = c.rbuf
      /\ d.wbuf = Append(c.wbuf, r) /\ d.subs = c.subs /\ d.authenticated = c.authenticated
  <2> HIDE DEF c
  <2> QED BY <1>2, <1>5 DEF ConnType, x
<1> HIDE DEF d
<1>8. Update(v, w, s, x, d, so, Append(to, r))
  <2>1. v.sock \in [Clients -> Seq(Replies)] /\ v.quit \in BOOLEAN
    BY <1>1 DEF SrvType
  <2>2. v.sock = [v.sock EXCEPT ![x] = so]
    BY <2>1
  <2> QED BY <1>6, <2>1, <2>2 DEF Update
<1>9. Tells(x, c, d, to, r)
  BY <1>3, <1>7 DEF Tells
<1>10. j \in Nat
  OBVIOUS
<1>11. /\ Typed(x, d, so, Append(to, r))
       /\ Fits(k, IF IsAnswer(r) THEN j + 2 ELSE j, x, d, so, Append(to, r))
  <2> HIDE DEF j
  <2> QED BY <1>1, <1>3, <1>7, <1>9, <1>10, TellFits
<1>12. Fits(k, j, x, d, so, Append(to, r))
  BY <1>3, <1>11
<1>13. Kept(v, w, k, n, a, s, d)
  BY <1>8, <1>11, <1>12, UpdateInv
<1>14. /\ SrvInv(w, k, n, a) /\ w.conns[s] = d
       /\ \A q \in Slots \ {s} : w.conns[q] = v.conns[q]
  BY <1>13 DEF Kept
<1>15. w.conns[s].in_use /\ w.conns[s].peer = x
  BY <1>7, <1>14
<1>16. CASE FlushFails(w, s)
  <2> DEFINE e == [d EXCEPT !.want_write = TRUE]
  <2>1. /\ w \in SrvType
        /\ Typed(x, d, w.sock[x], w.told[x]) /\ Fits(k, j, x, d, w.sock[x], w.told[x])
    <3>1. /\ w \in SrvType
          /\ Typed(x, w.conns[s], w.sock[x], w.told[x])
          /\ Fits(k, IF s = a THEN n ELSE 0, x, w.conns[s], w.sock[x], w.told[x])
      <4> HIDE DEF x, d
      <4>1. SrvInv(w, k, n, a) /\ w.conns[s].in_use /\ x = w.conns[s].peer
        BY <1>14, <1>15
      <4> QED BY <4>1, SlotFacts
    <3> QED BY <1>14, <3>1
  <2>2. /\ u.conns = [w.conns EXCEPT ![s] = e] /\ u.sock = w.sock /\ u.told = w.told
        /\ u.ready = w.ready \cup {x} /\ u.quit = w.quit
        /\ u.fate = w.fate /\ u.lost = w.lost
        /\ u = [conns |-> u.conns, sock |-> u.sock, ready |-> u.ready, quit |-> u.quit,
                told |-> u.told, fate |-> u.fate, lost |-> u.lost]
    <3> HIDE DEF x
    <3> QED BY <1>0, <1>14, <2>1 DEF SrvType
  <2>3. Update(w, u, s, x, e, w.sock[x], w.told[x])
    <3>1. /\ w.sock \in [Clients -> Seq(Replies)] /\ w.told \in [Clients -> Seq(Replies)]
          /\ w.quit \in BOOLEAN
      BY <2>1 DEF SrvType
    <3>2. w.sock = [w.sock EXCEPT ![x] = w.sock[x]] /\ w.told = [w.told EXCEPT ![x] = w.told[x]]
      BY <3>1
    <3> QED BY <2>2, <3>1, <3>2 DEF Update
  <2>4. /\ e \in ConnType /\ e.in_use = d.in_use /\ e.peer = d.peer /\ e.rbuf = d.rbuf
        /\ e.wbuf = d.wbuf /\ e.subs = d.subs /\ e.authenticated = d.authenticated
    BY <1>7 DEF ConnType
  <2> HIDE DEF e
  <2>5. Typed(x, e, w.sock[x], w.told[x])
    BY <2>1, <2>4 DEF Typed
  <2>6. Fits(k, j, x, e, w.sock[x], w.told[x])
    <3> HIDE DEF j, x
    <3> QED BY <2>1, <2>4 DEF Fits
  <2>7. Kept(w, u, k, n, a, s, e)
    BY <1>14, <1>15, <2>3, <2>5, <2>6, UpdateInv
  <2> QED BY <1>4, <1>14, <1>16, <2>7 DEF Kept, Still
<1>17. CASE ~ FlushFails(w, s)
  <2>1. Still(w, FlushWrites(w, s), k, n, a, s)
    BY <1>14, <1>15, FlushInv
  <2> QED BY <1>4, <1>14, <1>17, <2>1 DEF Still
<1> QED BY <1>16, <1>17

-----------------------------------------------------------------------------
(* The loops over slots, commands and the backlog: their folds exist and   *)
(* go turn by turn.                                                        *)

Turn(job, w, i) ==
    CASE job.does = "publish" ->
            IF i \in Subscribers(w) THEN Deliver(w, i, job.of) ELSE w
      [] job.does = "read"     -> ProcessCommand(w, job.slot, job.of, i)
      [] job.does = "accept"   -> Accept(w, job.of[i])
      [] job.does = "drain"    ->
            IF w.conns[i].wbuf # <<>> THEN FlushOrClose(w, i) ELSE ConnClose(w, i, "drain")
      [] job.does = "deadline" -> ConnClose(w, i, "deadline")

Turns(job, base, D, g) ==
    g = [s \in D |-> IF s = {} THEN base ELSE Turn(job, g[s \ {Max(s)}], Max(s))]

LEMMA TurnsExist ==
    ASSUME NEW job, NEW base, NEW n \in Nat
    PROVE  \E g : Turns(job, base, SUBSET (1..n), g)
<1> DEFINE S == 1..n
           T == {m \in Nat : \E g : Turns(job, base, Upto(S, m), g)}
<1>0. IsFiniteSet(S) /\ \A s \in SUBSET S : Cardinality(s) \in Nat
  <2>1. IsFiniteSet(S)
    BY FS_Interval
  <2> HIDE DEF S
  <2> QED BY <2>1, TakenOut
<1>1. 0 \in T
  <2> DEFINE g == [s \in Upto(S, 0) |-> base]
  <2>1. \A s \in Upto(S, 0) : s = {}
    <3> TAKE s \in Upto(S, 0)
    <3>1. Cardinality(s) = 0 /\ s \in SUBSET S
      BY <1>0 DEF Upto
    <3> QED BY <1>0, <3>1, TakenOut
  <2>2. Turns(job, base, Upto(S, 0), g)
    BY <2>1 DEF Turns
  <2> QED BY <2>2
<1>2. ASSUME NEW m \in T PROVE m + 1 \in T
  <2>1. PICK g : Turns(job, base, Upto(S, m), g)
    OBVIOUS
  <2> DEFINE D == Upto(S, m + 1)
             h == [s \in D |-> IF s = {} THEN base ELSE Turn(job, g[s \ {Max(s)}], Max(s))]
  <2>2. \A s \in Upto(S, m) :
           g[s] = IF s = {} THEN base ELSE Turn(job, g[s \ {Max(s)}], Max(s))
    BY <2>1 DEF Turns
  <2>3. ASSUME NEW s \in D
        PROVE  h[s] = IF s = {} THEN base ELSE Turn(job, h[s \ {Max(s)}], Max(s))
    <3>1. CASE s = {}
      BY <3>1
    <3>2. CASE s # {}
      <4> DEFINE r == s \ {Max(s)}
      <4>1. s \in SUBSET S /\ Cardinality(s) <= m + 1
        BY DEF Upto
      <4>2. Max(s) \in s
        BY <3>2, <4>1, MaxOfPart
      <4>3. Cardinality(s) \in Nat /\ Cardinality(r) = Cardinality(s) - 1
        BY <1>0, <4>1, <4>2, TakenOut
      <4>4. r \in Upto(S, m) /\ r \in D
        <5>0. m \in Nat /\ r \in SUBSET S
          BY <4>1
        <5> HIDE DEF r, S, T
        <5>1. Cardinality(r) <= m /\ Cardinality(r) <= m + 1
          BY <4>1, <4>3, <5>0
        <5> QED BY <5>0, <5>1 DEF Upto
      <4>5. h[r] = g[r]
        BY <2>2, <4>4
      <4>6. h[s] = Turn(job, g[r], Max(s))
        BY <3>2
      <4> HIDE DEF h, r
      <4> QED BY <3>2, <4>5, <4>6 DEF r
    <3> QED BY <3>1, <3>2
  <2>4. h = [s \in D |-> h[s]]
    OBVIOUS
  <2> HIDE DEF h
  <2>5. Turns(job, base, Upto(S, m + 1), h)
    BY <2>3, <2>4 DEF Turns
  <2> QED BY <2>5
<1> HIDE DEF T
<1>3. T = Nat
  BY <1>1, <1>2, NatInduct DEF T
<1>4. Cardinality(S) \in T
  BY <1>0, <1>3
<1>5. Upto(S, Cardinality(S)) = SUBSET S
  BY <1>0, FS_Subset DEF Upto
<1> QED BY <1>4, <1>5 DEF T

InTurn(job, base, n, g) ==
    g[1..0] = base /\ \A i \in 1..n : g[1..i] = Turn(job, g[1..(i - 1)], i)

LEMMA TurnByTurn ==
    ASSUME NEW job, NEW base, NEW n \in Nat, NEW g, Turns(job, base, SUBSET (1..n), g)
    PROVE  InTurn(job, base, n, g)
<1>1. \A s \in SUBSET (1..n) :
         g[s] = IF s = {} THEN base ELSE Turn(job, g[s \ {Max(s)}], Max(s))
  BY DEF Turns
<1>2. g[1..0] = base
  <2>1. 1..0 = {} /\ {} \in SUBSET (1..n)
    OBVIOUS
  <2> QED BY <1>1, <2>1
<1>3. ASSUME NEW i \in 1..n PROVE g[1..i] = Turn(job, g[1..(i - 1)], i)
  <2>1. 1..i \in SUBSET (1..n) /\ 1..i # {}
    OBVIOUS
  <2>2. Max(1..i) = i /\ (1..i) \ {i} = 1..(i - 1)
    BY MaxOfSegment
  <2>3. g[1..i] = Turn(job, g[(1..i) \ {Max(1..i)}], Max(1..i))
    BY <1>1, <2>1
  <2> QED BY <2>2, <2>3
<1> QED BY <1>2, <1>3 DEF InTurn

LEMMA PublishTurns ==
    ASSUME NEW v, NEW t
    PROVE  \E g : /\ g[1..0] = v /\ g[1..NSlots] = PublishLocal(v, t)
                  /\ \A i \in Slots : g[1..i] = IF i \in Subscribers(g[1..(i - 1)])
                                                THEN Deliver(g[1..(i - 1)], i, t)
                                                ELSE g[1..(i - 1)]
<1> DEFINE q == [s \in Slots |-> s]
           job == [does |-> "publish", of |-> t]
           Raw(h) == h = [s \in SUBSET DOMAIN q |->
                            IF s = {} THEN v
                            ELSE IF q[Max(s)] \in Subscribers(h[s \ {Max(s)}])
                                 THEN Deliver(h[s \ {Max(s)}], q[Max(s)], t)
                                 ELSE h[s \ {Max(s)}]]
           H == CHOOSE h : Raw(h)
<1>0. NSlots \in Nat /\ Slots = 1..NSlots
  BY LoopAssumption DEF Slots
<1>1. PublishLocal(v, t) = H[DOMAIN q]
  BY DEF PublishLocal, FoldLeft, MapThenFoldSet
<1>2. \A w, i : Turn(job, w, i) = IF i \in Subscribers(w) THEN Deliver(w, i, t) ELSE w
  BY DEF Turn
<1>3. \A s \in SUBSET Slots : s # {} => Max(s) \in Slots
  BY <1>0, MaxOfPart
<1> HIDE DEF job
<1>4. \A h : Raw(h) <=> Turns(job, v, SUBSET (1..NSlots), h)
  <2> TAKE h
  <2>1. DOMAIN q = 1..NSlots /\ \A i \in Slots : q[i] = i
    BY <1>0
  <2> HIDE DEF q
  <2>2. \A s \in SUBSET Slots :
           (IF s = {} THEN v
            ELSE IF q[Max(s)] \in Subscribers(h[s \ {Max(s)}])
                 THEN Deliver(h[s \ {Max(s)}], q[Max(s)], t)
                 ELSE h[s \ {Max(s)}])
           = IF s = {} THEN v ELSE Turn(job, h[s \ {Max(s)}], Max(s))
    BY <1>2, <1>3, <2>1
  <2> QED BY <1>0, <2>1, <2>2 DEF Turns
<1>5. \E h : Raw(h)
  <2>1. PICK g : Turns(job, v, SUBSET (1..NSlots), g)
    BY <1>0, TurnsExist
  <2>2. Raw(g)
    BY <1>4, <2>1
  <2> HIDE DEF Raw
  <2> QED BY <2>2
<1>6. Raw(H)
  BY <1>5
<1> HIDE DEF H
<1>7. Turns(job, v, SUBSET (1..NSlots), H)
  BY <1>4, <1>6
<1>8. InTurn(job, v, NSlots, H)
  BY <1>0, <1>7, TurnByTurn
<1>9. H[1..NSlots] = PublishLocal(v, t)
  BY <1>0, <1>1
<1> QED BY <1>0, <1>2, <1>8, <1>9 DEF InTurn

DrainAll(v) ==
    FoldLeft(LAMBDA w, s : IF w.conns[s].wbuf # <<>> THEN FlushOrClose(w, s)
                           ELSE ConnClose(w, s, "drain"),
             v, [s \in Slots |-> s])

LEMMA DrainTurns ==
    ASSUME NEW v
    PROVE  \E g : /\ g[1..0] = v /\ g[1..NSlots] = DrainAll(v)
                  /\ \A i \in Slots : g[1..i] = IF g[1..(i - 1)].conns[i].wbuf # <<>>
                                                THEN FlushOrClose(g[1..(i - 1)], i)
                                                ELSE ConnClose(g[1..(i - 1)], i, "drain")
<1> DEFINE q == [s \in Slots |-> s]
           job == [does |-> "drain"]
           Raw(h) == h = [s \in SUBSET DOMAIN q |->
                            IF s = {} THEN v
                            ELSE IF h[s \ {Max(s)}].conns[q[Max(s)]].wbuf # <<>>
                                 THEN FlushOrClose(h[s \ {Max(s)}], q[Max(s)])
                                 ELSE ConnClose(h[s \ {Max(s)}], q[Max(s)], "drain")]
           H == CHOOSE h : Raw(h)
<1>0. NSlots \in Nat /\ Slots = 1..NSlots
  BY LoopAssumption DEF Slots
<1>1. DrainAll(v) = H[DOMAIN q]
  BY DEF DrainAll, FoldLeft, MapThenFoldSet
<1>2. \A w, i : Turn(job, w, i) = IF w.conns[i].wbuf # <<>> THEN FlushOrClose(w, i)
                                  ELSE ConnClose(w, i, "drain")
  BY DEF Turn
<1>3. \A s \in SUBSET Slots : s # {} => Max(s) \in Slots
  BY <1>0, MaxOfPart
<1> HIDE DEF job
<1>4. \A h : Raw(h) <=> Turns(job, v, SUBSET (1..NSlots), h)
  <2> TAKE h
  <2>1. DOMAIN q = 1..NSlots /\ \A i \in Slots : q[i] = i
    BY <1>0
  <2> HIDE DEF q
  <2>2. \A s \in SUBSET Slots :
           (IF s = {} THEN v
            ELSE IF h[s \ {Max(s)}].conns[q[Max(s)]].wbuf # <<>>
                 THEN FlushOrClose(h[s \ {Max(s)}], q[Max(s)])
                 ELSE ConnClose(h[s \ {Max(s)}], q[Max(s)], "drain"))
           = IF s = {} THEN v ELSE Turn(job, h[s \ {Max(s)}], Max(s))
    BY <1>2, <1>3, <2>1
  <2> QED BY <1>0, <2>1, <2>2 DEF Turns
<1>5. \E h : Raw(h)
  <2>1. PICK g : Turns(job, v, SUBSET (1..NSlots), g)
    BY <1>0, TurnsExist
  <2>2. Raw(g)
    BY <1>4, <2>1
  <2> HIDE DEF Raw
  <2> QED BY <2>2
<1>6. Raw(H)
  BY <1>5
<1> HIDE DEF H
<1>7. Turns(job, v, SUBSET (1..NSlots), H)
  BY <1>4, <1>6
<1>8. InTurn(job, v, NSlots, H)
  BY <1>0, <1>7, TurnByTurn
<1>9. H[1..NSlots] = H[DOMAIN q]
  BY <1>0
<1> QED BY <1>0, <1>1, <1>2, <1>8, <1>9 DEF InTurn

CloseAll(v) == FoldLeft(LAMBDA w, s : ConnClose(w, s, "deadline"), v, [s \in Slots |-> s])

LEMMA DeadlineTurns ==
    ASSUME NEW v
    PROVE  \E g : /\ g[1..0] = v /\ g[1..NSlots] = CloseAll(v)
                  /\ \A i \in Slots : g[1..i] = ConnClose(g[1..(i - 1)], i, "deadline")
<1> DEFINE q == [s \in Slots |-> s]
           job == [does |-> "deadline"]
           Raw(h) == h = [s \in SUBSET DOMAIN q |->
                            IF s = {} THEN v
                            ELSE ConnClose(h[s \ {Max(s)}], q[Max(s)], "deadline")]
           H == CHOOSE h : Raw(h)
<1>0. NSlots \in Nat /\ Slots = 1..NSlots
  BY LoopAssumption DEF Slots
<1>1. CloseAll(v) = H[DOMAIN q]
  BY DEF CloseAll, FoldLeft, MapThenFoldSet
<1>2. \A w, i : Turn(job, w, i) = ConnClose(w, i, "deadline")
  BY DEF Turn
<1>3. \A s \in SUBSET Slots : s # {} => Max(s) \in Slots
  BY <1>0, MaxOfPart
<1> HIDE DEF job
<1>4. \A h : Raw(h) <=> Turns(job, v, SUBSET (1..NSlots), h)
  <2> TAKE h
  <2>1. DOMAIN q = 1..NSlots /\ \A i \in Slots : q[i] = i
    BY <1>0
  <2> HIDE DEF q
  <2>2. \A s \in SUBSET Slots :
           (IF s = {} THEN v ELSE ConnClose(h[s \ {Max(s)}], q[Max(s)], "deadline"))
           = IF s = {} THEN v ELSE Turn(job, h[s \ {Max(s)}], Max(s))
    BY <1>2, <1>3, <2>1
  <2> QED BY <1>0, <2>1, <2>2 DEF Turns
<1>5. \E h : Raw(h)
  <2>1. PICK g : Turns(job, v, SUBSET (1..NSlots), g)
    BY <1>0, TurnsExist
  <2>2. Raw(g)
    BY <1>4, <2>1
  <2> HIDE DEF Raw
  <2> QED BY <2>2
<1>6. Raw(H)
  BY <1>5
<1> HIDE DEF H
<1>7. Turns(job, v, SUBSET (1..NSlots), H)
  BY <1>4, <1>6
<1>8. InTurn(job, v, NSlots, H)
  BY <1>0, <1>7, TurnByTurn
<1>9. H[1..NSlots] = H[DOMAIN q]
  BY <1>0
<1> QED BY <1>0, <1>1, <1>2, <1>8, <1>9 DEF InTurn

\* The commands in a read buffer.
ProcessAll(base, s, rbuf) ==
    FoldLeft(LAMBDA acc, i : ProcessCommand(acc, s, rbuf, i), base, [i \in DOMAIN rbuf |-> i])

LEMMA ReadTurns ==
    ASSUME NEW base, NEW s, NEW rbuf \in Seq(Pieces)
    PROVE  \E g : /\ g[1..0] = base /\ g[1..Len(rbuf)] = ProcessAll(base, s, rbuf)
                  /\ \A i \in 1..Len(rbuf) :
                        g[1..i] = ProcessCommand(g[1..(i - 1)], s, rbuf, i)
<1> DEFINE n == Len(rbuf)
           q == [i \in DOMAIN rbuf |-> i]
           job == [does |-> "read", slot |-> s, of |-> rbuf]
           Raw(h) == h = [e \in SUBSET DOMAIN q |->
                            IF e = {} THEN base
                            ELSE ProcessCommand(h[e \ {Max(e)}], s, rbuf, q[Max(e)])]
           H == CHOOSE h : Raw(h)
<1>0. n \in Nat /\ DOMAIN rbuf = 1..n
  BY LenProperties
<1>1. ProcessAll(base, s, rbuf) = H[DOMAIN q]
  BY DEF ProcessAll, FoldLeft, MapThenFoldSet
<1>2. \A w, i : Turn(job, w, i) = ProcessCommand(w, s, rbuf, i)
  BY DEF Turn
<1> HIDE DEF job, n
<1>3. \A e \in SUBSET (1..n) : e # {} => Max(e) \in 1..n
  BY <1>0, MaxOfPart
<1>4. \A h : Raw(h) <=> Turns(job, base, SUBSET (1..n), h)
  <2> TAKE h
  <2>1. DOMAIN q = 1..n /\ \A i \in 1..n : q[i] = i
    BY <1>0
  <2> HIDE DEF q
  <2>2. \A e \in SUBSET (1..n) :
           (IF e = {} THEN base ELSE ProcessCommand(h[e \ {Max(e)}], s, rbuf, q[Max(e)]))
           = IF e = {} THEN base ELSE Turn(job, h[e \ {Max(e)}], Max(e))
    BY <1>2, <1>3, <2>1
  <2> QED BY <2>1, <2>2 DEF Turns
<1>5. \E h : Raw(h)
  <2>1. PICK g : Turns(job, base, SUBSET (1..n), g)
    BY <1>0, TurnsExist
  <2>2. Raw(g)
    BY <1>4, <2>1
  <2> HIDE DEF Raw
  <2> QED BY <2>2
<1>6. Raw(H)
  BY <1>5
<1> HIDE DEF H
<1>7. Turns(job, base, SUBSET (1..n), H)
  BY <1>4, <1>6
<1>8. InTurn(job, base, n, H)
  BY <1>0, <1>7, TurnByTurn
<1>9. H[1..n] = H[DOMAIN q]
  BY <1>0
<1> QED BY <1>0, <1>1, <1>2, <1>8, <1>9 DEF InTurn, n

AcceptAll(base, queue) == FoldLeft(Accept, base, queue)

LEMMA AcceptTurns ==
    ASSUME NEW base, NEW queue \in Seq(Clients)
    PROVE  \E g : /\ g[1..0] = base /\ g[1..Len(queue)] = AcceptAll(base, queue)
                  /\ \A i \in 1..Len(queue) : g[1..i] = Accept(g[1..(i - 1)], queue[i])
<1> DEFINE n == Len(queue)
           job == [does |-> "accept", of |-> queue]
           Raw(h) == h = [e \in SUBSET DOMAIN queue |->
                            IF e = {} THEN base
                            ELSE Accept(h[e \ {Max(e)}], queue[Max(e)])]
           H == CHOOSE h : Raw(h)
<1>0. n \in Nat /\ DOMAIN queue = 1..n
  BY LenProperties
<1>1. AcceptAll(base, queue) = H[DOMAIN queue]
  BY DEF AcceptAll, FoldLeft, MapThenFoldSet
<1>2. \A w, i : Turn(job, w, i) = Accept(w, queue[i])
  BY DEF Turn
<1> HIDE DEF job, n
<1>4. \A h : Raw(h) <=> Turns(job, base, SUBSET (1..n), h)
  BY <1>0, <1>2 DEF Turns
<1>5. \E h : Raw(h)
  <2>1. PICK g : Turns(job, base, SUBSET (1..n), g)
    BY <1>0, TurnsExist
  <2>2. Raw(g)
    BY <1>4, <2>1
  <2> HIDE DEF Raw
  <2> QED BY <2>2
<1>6. Raw(H)
  BY <1>5
<1> HIDE DEF H
<1>7. Turns(job, base, SUBSET (1..n), H)
  BY <1>4, <1>6
<1>8. InTurn(job, base, n, H)
  BY <1>0, <1>7, TurnByTurn
<1> QED BY <1>0, <1>1, <1>2, <1>8 DEF InTurn, n

-----------------------------------------------------------------------------
(* Commands.                                                               *)

\* What other slots do does not change which command is next in slot s.
LEMMA NextSame ==
    ASSUME NEW v, NEW w, NEW k, NEW n, NEW s \in Slots, NEW t,
           SrvInv(v, k, n, s), SrvInv(w, k, n, s), v.conns[s].in_use,
           w.conns[s] = v.conns[s], NextOf(v, s, t)
    PROVE  NextOf(w, s, t)
<1> DEFINE x == v.conns[s].peer
           N(h) == Count(h, Len(h))
           b == k.received[x] - Len(v.conns[s].rbuf)
<1>1. Typed(x, v.conns[s], v.sock[x], v.told[x]) /\ Fits(k, n, x, v.conns[s], v.sock[x], v.told[x])
  BY SlotFacts
<1>2. Typed(x, v.conns[s], w.sock[x], w.told[x]) /\ Fits(k, n, x, v.conns[s], w.sock[x], w.told[x])
  <2>1. w.conns[s].in_use /\ x = w.conns[s].peer
    OBVIOUS
  <2> HIDE DEF x
  <2>2. Typed(x, w.conns[s], w.sock[x], w.told[x]) /\ Fits(k, n, x, w.conns[s], w.sock[x], w.told[x])
    BY <2>1, SlotFacts
  <2> QED BY <2>2
<1>3. N(v.told[x]) \in Nat /\ N(w.told[x]) \in Nat
  BY <1>1, <1>2, CountNat DEF Typed
<1>4. 2 * N(v.told[x]) = b + n /\ 2 * N(w.told[x]) = b + n
  BY <1>1, <1>2 DEF Fits
<1>5. N(v.told[x]) = N(w.told[x])
  <2> HIDE DEF N, b
  <2> QED BY <1>3, <1>4
<1>6. t = <<x, N(v.told[x]) + 1>>
  BY DEF NextOf
<1>7. t = <<x, N(w.told[x]) + 1>>
  BY <1>5, <1>6
<1> QED BY <1>7 DEF NextOf

\* A reply with no other change.
LEMMA PlainReply ==
    ASSUME NEW v, NEW k, NEW n \in Nat, NEW s \in Slots, NEW t,
           NEW kind \in Kinds \ {"message", "protocol", "subscribe", "unsubscribe"},
           SrvInv(v, k, n, s), v.conns[s].in_use, NextOf(v, s, t)
    PROVE  Executed(v, Reply(v, s, t, kind), k, n + 2, s)
<1> DEFINE x == v.conns[s].peer
           d == v.conns[s]
<1>1. v \in SrvType /\ x \in Clients /\ d \in ConnType
  BY SlotFacts DEF Typed
<1>2. Update(v, v, s, x, d, v.sock[x], v.told[x])
  <2>1. v.quit \in BOOLEAN /\ v.conns \in [Slots -> ConnType]
    BY <1>1 DEF SrvType
  <2>2. v.conns = [v.conns EXCEPT ![s] = d]
    BY <2>1
  <2>3. v = [v EXCEPT !.conns[s] = d, !.quit = v.quit]
    BY <1>1, <2>2 DEF SrvType
  <2> QED BY <1>1, <2>1, <2>3, FlagUpdate
<1>3. Readies(x, v.conns[s], d, t, kind)
  BY DEF Readies
<1>4. kind \in Kinds \ {"message"} /\ kind # "protocol"
  OBVIOUS
<1> QED BY <1>1, <1>2, <1>3, <1>4, ReplyInv

\* publish_local keeps the publisher's own slot as it is.
LEMMA PublishLocalInv ==
    ASSUME NEW v, NEW k, NEW n \in Nat, NEW s \in Slots, NEW t \in Clients \X Nat,
           SrvInv(v, k, n, s), ~ v.conns[s].subs, Vouched(t)
    PROVE  /\ SrvInv(PublishLocal(v, t), k, n, s)
           /\ PublishLocal(v, t).conns[s] = v.conns[s]
<1>1. PICK g : /\ g[1..0] = v /\ g[1..NSlots] = PublishLocal(v, t)
               /\ \A i \in Slots : g[1..i] = IF i \in Subscribers(g[1..(i - 1)])
                                             THEN Deliver(g[1..(i - 1)], i, t)
                                             ELSE g[1..(i - 1)]
  BY PublishTurns
<1> DEFINE Good(w) == SrvInv(w, k, n, s) /\ w.conns[s] = v.conns[s]
           T == {i \in Nat : i <= NSlots => Good(g[1..i])}
<1>2. NSlots \in Nat /\ Slots = 1..NSlots
  BY LoopAssumption DEF Slots
<1>3. 0 \in T
  BY <1>1
<1>4. ASSUME NEW i \in T PROVE i + 1 \in T
  <2> SUFFICES ASSUME i + 1 <= NSlots PROVE Good(g[1..(i + 1)])
    OBVIOUS
  <2> DEFINE w == g[1..i]
             r == i + 1
  <2>1. i \in Nat /\ Good(w) /\ r \in Slots
    BY <1>2
  <2>2. (i + 1) - 1 = i
    BY <2>1
  <2>3. g[1..r] = IF r \in Subscribers(w) THEN Deliver(w, r, t) ELSE w
    BY <1>1, <2>1, <2>2
  <2>4. CASE r \in Subscribers(w)
    <3>1. w.conns[r].in_use /\ w.conns[r].subs /\ r # s
      BY <2>1, <2>4 DEF Subscribers
    <3> HIDE DEF w, r
    <3>2. Still(w, Deliver(w, r, t), k, n, s, r)
      BY <2>1, <3>1, DeliverInv
    <3>3. Good(Deliver(w, r, t))
      BY <2>1, <3>1, <3>2 DEF Still
    <3>4. Good(g[1..r])
      BY <2>3, <2>4, <3>3
    <3> QED BY <3>4 DEF r
  <2>5. CASE r \notin Subscribers(w)
    BY <2>1, <2>3, <2>5
  <2> QED BY <2>4, <2>5
<1> HIDE DEF T
<1>5. T = Nat
  BY <1>3, <1>4, NatInduct DEF T
<1>6. Good(g[1..NSlots])
  BY <1>2, <1>5 DEF T
<1> QED BY <1>1, <1>6

\* A reply with a change of the flags of slot s, or of quit.
LEMMA FlagReply ==
    ASSUME NEW v, NEW u, NEW k, NEW n \in Nat, NEW s \in Slots, NEW t, NEW d \in ConnType,
           NEW q \in BOOLEAN, NEW kind \in Kinds \ {"message", "protocol"},
           SrvInv(v, k, n, s), v.conns[s].in_use, NextOf(v, s, t),
           u = [v EXCEPT !.conns[s] = d, !.quit = q],
           Readies(v.conns[s].peer, v.conns[s], d, t, kind)
    PROVE  Executed(v, Reply(u, s, t, kind), k, n + 2, s)
<1> DEFINE x == v.conns[s].peer
<1>1. v \in SrvType /\ x \in Clients
  BY SlotFacts
<1>2. Update(v, u, s, x, d, v.sock[x], v.told[x])
  BY <1>1, FlagUpdate
<1>3. kind \in Kinds \ {"message"} /\ kind # "protocol"
  OBVIOUS
<1> QED BY <1>1, <1>2, <1>3, ReplyInv

LEMMA KillInv ==
    ASSUME NEW v, NEW k, NEW n \in Nat, NEW s \in Slots, NEW t, NEW y,
           SrvInv(v, k, n, s), v.conns[s].in_use, NextOf(v, s, t)
    PROVE  Executed(v, Kill(v, s, t, y), k, n + 2, s)
<1> DEFINE found == {r \in Slots : v.conns[r].in_use /\ v.conns[r].peer = y}
           r == Min(found)
<1>1. CASE found = {}
  <2>1. "error" \in Kinds \ {"message", "protocol", "subscribe", "unsubscribe"}
    BY DEF Kinds
  <2>2. Executed(v, Reply(v, s, t, "error"), k, n + 2, s)
    BY <2>1, PlainReply
  <2> QED BY <1>1, <2>2 DEF Kill
<1>2. ASSUME found # {} PROVE r \in Slots /\ v.conns[r].in_use
  <2>1. NSlots \in Nat /\ found \in SUBSET (1..NSlots)
    BY LoopAssumption DEF Slots
  <2> HIDE DEF found
  <2>2. r \in found
    BY <1>2, <2>1, MinOfPart
  <2> QED BY <2>2 DEF found
<1>3. CASE found # {} /\ r = s
  <2> DEFINE d == [v.conns[s] EXCEPT !.should_close = TRUE]
             u == [v EXCEPT !.conns[s].should_close = TRUE]
  <2>1. v \in SrvType /\ v.conns[s] \in ConnType
    BY SlotFacts DEF Typed
  <2>2. v.quit \in BOOLEAN /\ u = [v EXCEPT !.conns[s] = d, !.quit = v.quit]
    BY <2>1 DEF SrvType
  <2>3. d \in ConnType /\ Readies(v.conns[s].peer, v.conns[s], d, t, "ok")
    BY <2>1 DEF ConnType, Readies
  <2>4. "ok" \in Kinds \ {"message", "protocol"}
    BY DEF Kinds
  <2>5. Kill(v, s, t, y) = Reply(u, s, t, "ok")
    BY <1>3 DEF Kill
  <2> HIDE DEF d, u
  <2>6. Executed(v, Reply(u, s, t, "ok"), k, n + 2, s)
    BY <2>2, <2>3, <2>4, FlagReply
  <2> QED BY <2>5, <2>6
<1>4. CASE found # {} /\ r # s
  <2> DEFINE w == ConnClose(v, r, "kill")
  <2>1. Kill(v, s, t, y) = Reply(w, s, t, "ok")
    BY <1>4 DEF Kill
  <2>2. r \in Slots /\ v.conns[r].in_use /\ r # s
    BY <1>2, <1>4
  <2> HIDE DEF r
  <2>3. "kill" \in Reasons /\ "kill" \in Causes
    BY DEF Reasons, Causes
  <2>4. Still(v, w, k, n, s, r)
    BY <2>2, <2>3, CloseInv
  <2>5. SrvInv(w, k, n, s) /\ w.conns[s] = v.conns[s]
    BY <2>2, <2>4 DEF Still
  <2> HIDE DEF w
  <2>6. NextOf(w, s, t)
    BY <2>5, NextSame
  <2>7. "ok" \in Kinds \ {"message", "protocol", "subscribe", "unsubscribe"}
    BY DEF Kinds
  <2>8. Executed(w, Reply(w, s, t, "ok"), k, n + 2, s)
    BY <2>5, <2>6, <2>7, PlainReply
  <2> QED BY <2>1, <2>5, <2>8 DEF Executed
<1> QED BY <1>1, <1>3, <1>4

LEMMA PublishInv ==
    ASSUME NEW v, NEW k, NEW n \in Nat, NEW s \in Slots, NEW t,
           SrvInv(v, k, n, s), v.conns[s].in_use, NextOf(v, s, t),
           ~ v.conns[s].subs, RequirePass => v.conns[s].authenticated
    PROVE  Executed(v, Publish(v, s, t), k, n + 2, s)
<1> DEFINE x == v.conns[s].peer
           N == Count(v.told[x], Len(v.told[x]))
           w == PublishLocal(v, t)
<1>1. /\ x \in Clients
      /\ Typed(x, v.conns[s], v.sock[x], v.told[x])
      /\ Fits(k, n, x, v.conns[s], v.sock[x], v.told[x])
  BY SlotFacts
<1>2. N \in Nat
  BY <1>1, CountNat DEF Typed
<1>3. t = <<x, N + 1>>
  BY DEF NextOf
<1>4. RequirePass => Authed(x, N)
  BY <1>1 DEF Fits
<1>5. t \in Clients \X Nat /\ Vouched(t)
  <2> HIDE DEF N, x
  <2>1. t[1] = x /\ t[2] - 1 = N /\ N + 1 \in Nat
    BY <1>2, <1>3
  <2> QED BY <1>1, <1>3, <1>4, <2>1 DEF Vouched
<1>6. SrvInv(w, k, n, s) /\ w.conns[s] = v.conns[s]
  BY <1>5, PublishLocalInv
<1> HIDE DEF w
<1>7. NextOf(w, s, t)
  BY <1>6, NextSame
<1>8. "ok" \in Kinds \ {"message", "protocol", "subscribe", "unsubscribe"}
  BY DEF Kinds
<1>9. Executed(w, Reply(w, s, t, "ok"), k, n + 2, s)
  BY <1>6, <1>7, <1>8, PlainReply
<1> QED BY <1>6, <1>9 DEF Executed, Publish, w

LEMMA AuthenticateInv ==
    ASSUME NEW v, NEW k, NEW n \in Nat, NEW s \in Slots, NEW t,
           SrvInv(v, k, n, s), v.conns[s].in_use, NextOf(v, s, t),
           Script[t[1]][t[2]].op = "auth"
    PROVE  Executed(v, Authenticate(v, s, t), k, n + 2, s)
<1>1. CASE RequirePass /\ Script[t[1]][t[2]].arg = "right"
  <2> DEFINE x == v.conns[s].peer
             N == Count(v.told[x], Len(v.told[x]))
             d == [v.conns[s] EXCEPT !.authenticated = TRUE]
             u == [v EXCEPT !.conns[s].authenticated = TRUE]
  <2>1. v \in SrvType /\ v.conns[s] \in ConnType /\ v.told[x] \in Seq(Replies)
    BY SlotFacts DEF Typed
  <2>2. v.quit \in BOOLEAN /\ u = [v EXCEPT !.conns[s] = d, !.quit = v.quit]
    BY <2>1 DEF SrvType
  <2>3. N \in Nat
    BY <2>1, CountNat
  <2>4. t = <<x, N + 1>>
    BY DEF NextOf
  <2>5. Authed(x, t[2])
    <3> HIDE DEF N, x
    <3>1. t[2] \in 1..t[2] /\ t[1] = x
      BY <2>3, <2>4
    <3> QED BY <1>1, <3>1 DEF Authed
  <2>6. d \in ConnType /\ Readies(x, v.conns[s], d, t, "ok")
    BY <2>1, <2>5 DEF ConnType, Readies
  <2>7. "ok" \in Kinds \ {"message", "protocol"}
    BY DEF Kinds
  <2>8. Authenticate(v, s, t) = Reply(u, s, t, "ok")
    BY <1>1 DEF Authenticate
  <2> HIDE DEF d, u
  <2>9. Executed(v, Reply(u, s, t, "ok"), k, n + 2, s)
    BY <2>2, <2>6, <2>7, FlagReply
  <2> QED BY <2>8, <2>9
<1>2. CASE ~ (RequirePass /\ Script[t[1]][t[2]].arg = "right")
  <2>1. "error" \in Kinds \ {"message", "protocol", "subscribe", "unsubscribe"}
    BY DEF Kinds
  <2>2. Executed(v, Reply(v, s, t, "error"), k, n + 2, s)
    BY <2>1, PlainReply
  <2> QED BY <1>2, <2>2 DEF Authenticate
<1> QED BY <1>1, <1>2

\* SUBSCRIBE, UNSUBSCRIBE, QUIT and SHUTDOWN.
LEMMA FlagCommands ==
    ASSUME NEW v, NEW k, NEW n \in Nat, NEW s \in Slots, NEW t,
           SrvInv(v, k, n, s), v.conns[s].in_use, NextOf(v, s, t)
    PROVE  /\ Executed(v, Subscribe(v, s, t), k, n + 2, s)
           /\ Executed(v, Unsubscribe(v, s, t), k, n + 2, s)
           /\ Executed(v, Quit(v, s, t), k, n + 2, s)
           /\ Executed(v, Shutdown(v, s, t), k, n + 2, s)
<1> DEFINE x == v.conns[s].peer
           c == v.conns[s]
           d1 == [c EXCEPT !.subs = TRUE]
           d2 == [c EXCEPT !.subs = FALSE]
           d3 == [c EXCEPT !.should_close = TRUE]
           u1 == [v EXCEPT !.conns[s].subs = TRUE]
           u2 == [v EXCEPT !.conns[s].subs = FALSE]
           u3 == [v EXCEPT !.conns[s].should_close = TRUE]
           u4 == [v EXCEPT !.conns[s].should_close = TRUE, !.quit = TRUE]
<1>1. v \in SrvType /\ c \in ConnType
  BY SlotFacts DEF Typed
<1>2. /\ v.quit \in BOOLEAN
      /\ u1 = [v EXCEPT !.conns[s] = d1, !.quit = v.quit]
      /\ u2 = [v EXCEPT !.conns[s] = d2, !.quit = v.quit]
      /\ u3 = [v EXCEPT !.conns[s] = d3, !.quit = v.quit]
      /\ u4 = [v EXCEPT !.conns[s] = d3, !.quit = TRUE]
  BY <1>1 DEF SrvType
<1>3. d1 \in ConnType /\ Readies(x, c, d1, t, "subscribe")
  BY <1>1 DEF ConnType, Readies
<1>4. d2 \in ConnType /\ Readies(x, c, d2, t, "unsubscribe")
  BY <1>1 DEF ConnType, Readies
<1>5. d3 \in ConnType /\ Readies(x, c, d3, t, "ok")
  BY <1>1 DEF ConnType, Readies
<1>6. {"ok", "subscribe", "unsubscribe"} \subseteq Kinds \ {"message", "protocol"}
  BY DEF Kinds
<1> HIDE DEF d1, d2, d3, u1, u2, u3, u4
<1>7. Executed(v, Reply(u1, s, t, "subscribe"), k, n + 2, s)
  BY <1>2, <1>3, <1>6, FlagReply
<1>8. Executed(v, Reply(u2, s, t, "unsubscribe"), k, n + 2, s)
  BY <1>2, <1>4, <1>6, FlagReply
<1>9. Executed(v, Reply(u3, s, t, "ok"), k, n + 2, s)
  BY <1>2, <1>5, <1>6, FlagReply
<1>10. TRUE \in BOOLEAN
  OBVIOUS
<1>11. Executed(v, Reply(u4, s, t, "ok"), k, n + 2, s)
  BY <1>2, <1>5, <1>6, <1>10, FlagReply
<1> QED
  BY <1>7, <1>8, <1>9, <1>11 DEF Subscribe, Unsubscribe, Quit, Shutdown, u1, u2, u3, u4

LEMMA DispatchInv ==
    ASSUME NEW v, NEW k, NEW n \in Nat, NEW s \in Slots, NEW t,
           SrvInv(v, k, n, s), v.conns[s].in_use, NextOf(v, s, t)
    PROVE  Executed(v, Dispatch(v, s, t), k, n + 2, s)
<1> DEFINE c == v.conns[s]
           m == Script[t[1]][t[2]]
           w == Dispatch(v, s, t)
           e(kind) == Reply(v, s, t, kind)
<1> SUFFICES Executed(v, w, k, n + 2, s)
  OBVIOUS
<1>1. /\ Executed(v, e("ok"), k, n + 2, s)
      /\ Executed(v, e("error"), k, n + 2, s)
      /\ Executed(v, e("noauth"), k, n + 2, s)
  <2>1. /\ "ok" \in Kinds \ {"message", "protocol", "subscribe", "unsubscribe"}
        /\ "error" \in Kinds \ {"message", "protocol", "subscribe", "unsubscribe"}
        /\ "noauth" \in Kinds \ {"message", "protocol", "subscribe", "unsubscribe"}
    BY DEF Kinds
  <2> QED BY <2>1, PlainReply
<1>2. /\ Executed(v, Subscribe(v, s, t), k, n + 2, s)
      /\ Executed(v, Unsubscribe(v, s, t), k, n + 2, s)
      /\ Executed(v, Quit(v, s, t), k, n + 2, s)
      /\ Executed(v, Shutdown(v, s, t), k, n + 2, s)
  BY FlagCommands
<1>3. Executed(v, Kill(v, s, t, m.arg), k, n + 2, s)
  BY KillInv
<1>4. m.op = "auth" => Executed(v, Authenticate(v, s, t), k, n + 2, s)
  BY AuthenticateInv
<1>5. m.op = "publish" /\ ~ c.subs /\ (RequirePass => c.authenticated) =>
         Executed(v, Publish(v, s, t), k, n + 2, s)
  BY PublishInv
<1>6. CASE RequirePass /\ ~ c.authenticated /\ m.op \notin AllowedUnauth
  <2>1. w = e("noauth")
    BY <1>6 DEF Dispatch
  <2> HIDE DEF w
  <2> QED BY <1>1, <2>1
<1>7. CASE ~ (RequirePass /\ ~ c.authenticated /\ m.op \notin AllowedUnauth)
           /\ c.subs /\ m.op \notin AllowedSubscribed
  <2>1. w = e("error")
    BY <1>7 DEF Dispatch
  <2> HIDE DEF w
  <2> QED BY <1>1, <2>1
<1>8. CASE /\ ~ (RequirePass /\ ~ c.authenticated /\ m.op \notin AllowedUnauth)
           /\ ~ (c.subs /\ m.op \notin AllowedSubscribed)
  <2>1. m.op = "publish" => ~ c.subs /\ (RequirePass => c.authenticated)
    BY <1>8 DEF AllowedUnauth, AllowedSubscribed
  <2>2. CASE m.op = "auth"
    <3>1. w = Authenticate(v, s, t)
      BY <1>8, <2>2 DEF Dispatch
    <3> HIDE DEF w
    <3> QED BY <1>4, <2>2, <3>1
  <2>3. CASE m.op = "subscribe"
    <3>1. w = Subscribe(v, s, t)
      BY <1>8, <2>3 DEF Dispatch
    <3> HIDE DEF w
    <3> QED BY <1>2, <2>3, <3>1
  <2>4. CASE m.op = "unsubscribe"
    <3>1. w = Unsubscribe(v, s, t)
      BY <1>8, <2>4 DEF Dispatch
    <3> HIDE DEF w
    <3> QED BY <1>2, <2>4, <3>1
  <2>5. CASE m.op = "publish"
    <3>1. w = Publish(v, s, t)
      BY <1>8, <2>5 DEF Dispatch
    <3> HIDE DEF w
    <3> QED BY <1>5, <2>1, <2>5, <3>1
  <2>6. CASE m.op = "kill"
    <3>1. w = Kill(v, s, t, m.arg)
      BY <1>8, <2>6 DEF Dispatch
    <3> HIDE DEF w
    <3> QED BY <1>3, <2>6, <3>1
  <2>7. CASE m.op = "quit"
    <3>1. w = Quit(v, s, t)
      BY <1>8, <2>7 DEF Dispatch
    <3> HIDE DEF w
    <3> QED BY <1>2, <2>7, <3>1
  <2>8. CASE m.op = "shutdown"
    <3>1. w = Shutdown(v, s, t)
      BY <1>8, <2>8 DEF Dispatch
    <3> HIDE DEF w
    <3> QED BY <1>2, <2>8, <3>1
  <2>9. CASE m.op \notin {"auth", "subscribe", "unsubscribe", "publish", "kill", "quit",
                         "shutdown"}
    <3>1. w = e("ok")
      BY <1>8, <2>9 DEF Dispatch
    <3> HIDE DEF w
    <3> QED BY <1>1, <3>1
  <2> QED BY <2>2, <2>3, <2>4, <2>5, <2>6, <2>7, <2>8, <2>9
<1> QED BY <1>6, <1>7, <1>8


-----------------------------------------------------------------------------
(* Reads.                                                                  *)

LEMMA PieceParts ==
    ASSUME NEW x, NEW N \in Nat
    PROVE  Piece(x, 2 * N + 1) = <<x, N + 1, 0>> /\ Piece(x, 2 * N + 2) = <<x, N + 1, 1>>
<1>1. /\ ((2 * N + 1) - 1) \div 2 = N /\ ((2 * N + 1) - 1) % 2 = 0
      /\ ((2 * N + 2) - 1) \div 2 = N /\ ((2 * N + 2) - 1) % 2 = 1
  OBVIOUS
<1> QED BY <1>1 DEF Piece

\* After i pieces of the read buffer: r.pos of them are executed commands, and
\* at most the first half of one comes behind them, unless the loop has stopped.
Reads(x, k, s, rbuf, i, r) ==
    /\ r.pos \in 0..i /\ (~ r.stop => i <= r.pos + 1)
    /\ SrvInv(r.v, k, r.pos, s)
    /\ r.v.conns[s].in_use /\ r.v.conns[s].peer = x /\ r.v.conns[s].rbuf = rbuf

LEMMA ProcessCommandInv ==
    ASSUME NEW k, NEW s \in Slots, NEW x, NEW rbuf, NEW i \in Nat, NEW r,
           i + 1 <= Len(rbuf), Reads(x, k, s, rbuf, i, r)
    PROVE  Reads(x, k, s, rbuf, i + 1, ProcessCommand(r, s, rbuf, i + 1))
<1> DEFINE v == r.v
           c == v.conns[s]
           n == r.pos
           b == k.received[x] - Len(rbuf)
           N == Count(v.told[x], Len(v.told[x]))
           p == rbuf[i + 1]
           t == <<p[1], p[2]>>
           new == ProcessCommand(r, s, rbuf, i + 1)
<1>1. /\ n \in 0..i /\ (~ r.stop => i <= n + 1) /\ n \in Nat
      /\ SrvInv(v, k, n, s) /\ c.in_use /\ c.peer = x /\ c.rbuf = rbuf
  BY DEF Reads
<1>2. /\ x \in Clients /\ v \in SrvType
      /\ Typed(x, c, v.sock[x], v.told[x]) /\ Fits(k, n, x, c, v.sock[x], v.told[x])
  <2> HIDE DEF v, n
  <2>1. /\ v \in SrvType /\ x \in Clients
        /\ Typed(x, c, v.sock[x], v.told[x])
        /\ Fits(k, IF s = s THEN n ELSE 0, x, c, v.sock[x], v.told[x])
    BY <1>1, SlotFacts
  <2> QED BY <2>1
<1>3. N \in Nat /\ c \in ConnType /\ rbuf \in Seq(Pieces)
  BY <1>1, <1>2, CountNat DEF Typed
<1>4. /\ b \in Nat /\ 2 * N = b + n
      /\ \A j \in 1..Len(rbuf) : rbuf[j] = Piece(x, b + j)
  <2> HIDE DEF N, c
  <2> QED BY <1>1, <1>2 DEF Fits, N, c
<1>5. p = Piece(x, b + (i + 1)) /\ Len(rbuf) \in Nat
  BY <1>3, <1>4, LenProperties
<1> HIDE DEF p, N, b
<1>6. CASE r.stop
  <2>1. new = r
    BY <1>6 DEF ProcessCommand
  <2>2. n \in 0..(i + 1)
    BY <1>1
  <2> QED BY <1>1, <1>6, <2>1, <2>2 DEF Reads
<1>7. CASE ~ r.stop /\ i = n
  <2>1. p = <<x, N + 1, 0>>
    <3>1. b + (i + 1) = 2 * N + 1
      BY <1>1, <1>3, <1>4, <1>7
    <3> QED BY <1>3, <1>5, <3>1, PieceParts
  <2>2. new = r
    BY <2>1 DEF ProcessCommand, p
  <2>3. n \in 0..(i + 1) /\ i + 1 <= n + 1
    BY <1>1, <1>7
  <2> QED BY <1>1, <2>2, <2>3 DEF Reads
<1>8. CASE ~ r.stop /\ i = n + 1
  <2>1. p = <<x, N + 1, 1>> /\ t = <<x, N + 1>>
    <3>1. b + (i + 1) = 2 * N + 2
      <4>1. N \in Nat /\ b \in Nat /\ n \in Nat /\ 2 * N = b + n /\ i = n + 1
        BY <1>1, <1>3, <1>4, <1>8
      <4> HIDE DEF n
      <4> QED BY <4>1
    <3> QED BY <1>3, <1>5, <3>1, PieceParts
  <2>2. NextOf(v, s, t)
    BY <1>1, <2>1 DEF NextOf, N
  <2>3. CASE Script[t[1]][t[2]].op = "garbage"
    <3> DEFINE d == [c EXCEPT !.should_close = TRUE]
               u == [v EXCEPT !.conns[s].should_close = TRUE]
               w == Reply(u, s, t, "protocol")
    <3>1. new = [pos |-> n, stop |-> TRUE, v |-> w]
      BY <1>8, <2>1, <2>3 DEF ProcessCommand, p
    <3>2. v.quit \in BOOLEAN /\ u = [v EXCEPT !.conns[s] = d, !.quit = v.quit]
      BY <1>2 DEF SrvType
    <3>3. d \in ConnType /\ Readies(x, c, d, t, "protocol")
      <4> HIDE DEF c
      <4> QED BY <1>1, <1>3 DEF ConnType, Readies
    <3>4. "protocol" \in Kinds \ {"message"}
      BY DEF Kinds
    <3> HIDE DEF d, u, t, n, v
    <3>5. Update(v, u, s, x, d, v.sock[x], v.told[x])
      BY <1>2, <3>2, FlagUpdate
    <3>6. Executed(v, w, k, n, s)
      <4>1. Executed(v, w, k, IF "protocol" = "protocol" THEN n ELSE n + 2, s)
        BY <1>1, <2>2, <3>3, <3>4, <3>5, ReplyInv
      <4> QED BY <4>1
    <3>7. n \in 0..(i + 1)
      BY <1>1
    <3> HIDE DEF w
    <3>8. new.pos = n /\ new.stop = TRUE /\ new.v = w
      BY <3>1
    <3> QED BY <1>1, <3>6, <3>7, <3>8 DEF Executed, Reads
  <2>4. CASE Script[t[1]][t[2]].op # "garbage"
    <3> DEFINE w == Dispatch(v, s, t)
    <3>1. new = [pos |-> i + 1, stop |-> w.conns[s].should_close, v |-> w]
      BY <1>8, <2>1, <2>4 DEF ProcessCommand, p
    <3> HIDE DEF t, n, v
    <3>2. Executed(v, w, k, n + 2, s)
      BY <1>1, <2>2, DispatchInv
    <3> HIDE DEF w
    <3>3. new.pos = n + 2 /\ new.pos = i + 1 /\ new.v = w /\ i + 1 \in 0..(i + 1)
      BY <1>1, <1>8, <3>1
    <3>4. i + 1 <= (i + 1) + 1
      OBVIOUS
    <3> QED BY <1>1, <3>2, <3>3, <3>4 DEF Executed, Reads
  <2> QED BY <2>3, <2>4
<1> QED BY <1>1, <1>6, <1>7, <1>8


\* Between two steps it does not matter which slot is the one that executes.
LEMMA NobodyExecutes ==
    ASSUME NEW v, NEW k, NEW a, NEW s, SrvInv(v, k, 0, a)
    PROVE  SrvInv(v, k, 0, s)
<1>1. \A r : (IF r = a THEN 0 ELSE 0) = 0 /\ (IF r = s THEN 0 ELSE 0) = 0
  OBVIOUS
<1> QED BY <1>1 DEF SrvInv

\* What is left of a read buffer behind n executed pieces.
LEMMA RestOfPieces ==
    ASSUME NEW rbuf \in Seq(Pieces), NEW n \in 0..Len(rbuf)
    PROVE  /\ SubSeq(rbuf, n + 1, Len(rbuf)) \in Seq(Pieces)
           /\ Len(SubSeq(rbuf, n + 1, Len(rbuf))) = Len(rbuf) - n
           /\ \A i \in 1..(Len(rbuf) - n) : SubSeq(rbuf, n + 1, Len(rbuf))[i] = rbuf[n + i]
<1>1. Len(rbuf) \in Nat /\ n \in Nat
  BY LenProperties
<1>2. n + 1 \in 1..(Len(rbuf) + 1) /\ Len(rbuf) \in n..Len(rbuf)
  BY <1>1
<1>3. (n + 1) - 1 = n
  BY <1>1
<1> DEFINE q == SubSeq(rbuf, n + 1, Len(rbuf))
<1>4. /\ q \in Seq(Pieces)
      /\ Len(q) = IF n + 1 <= Len(rbuf) THEN Len(rbuf) - (n + 1) + 1 ELSE 0
      /\ \A i \in 1..(Len(rbuf) - (n + 1) + 1) : q[i] = rbuf[(n + 1) + i - 1]
  BY <1>1, <1>2, <1>3, SubSeqProperties
<1> HIDE DEF q
<1>5. Len(rbuf) - (n + 1) + 1 = Len(rbuf) - n
  BY <1>1
<1>6. Len(q) = Len(rbuf) - n
  BY <1>1, <1>2, <1>4
<1>7. \A i \in 1..(Len(rbuf) - n) : q[i] = rbuf[n + i]
  <2> TAKE i \in 1..(Len(rbuf) - n)
  <2>1. (n + 1) + i - 1 = n + i
    BY <1>1
  <2> QED BY <1>4, <1>5, <2>1
<1> QED BY <1>4, <1>6, <1>7 DEF q

\* The executed pieces leave the read buffer.
LEMMA TruncateInv ==
    ASSUME NEW v, NEW k, NEW n \in Nat, NEW s \in Slots,
           SrvInv(v, k, n, s), v.conns[s].in_use, n <= Len(v.conns[s].rbuf),
           k.received \in [Clients -> Nat]
    PROVE  /\ Still(v, [v EXCEPT !.conns[s].rbuf = SubSeq(@, n + 1, Len(@))], k, 0, s, s)
           /\ [v EXCEPT !.conns[s].rbuf = SubSeq(@, n + 1, Len(@))].conns[s].in_use
<1> DEFINE c == v.conns[s]
           x == c.peer
           rest == SubSeq(c.rbuf, n + 1, Len(c.rbuf))
           d == [c EXCEPT !.rbuf = rest]
           w == [v EXCEPT !.conns[s].rbuf = SubSeq(@, n + 1, Len(@))]
           so == v.sock[x]
           to == v.told[x]
           N == Count(to, Len(to))
           b == k.received[x] - Len(c.rbuf)
           e == k.received[x] - Len(rest)
<1>1. v \in SrvType /\ x \in Clients /\ Typed(x, c, so, to) /\ Fits(k, n, x, c, so, to)
  <2>1. SrvInv(v, k, n, s) /\ v.conns[s].in_use /\ x = v.conns[s].peer
    OBVIOUS
  <2> HIDE DEF x
  <2>2. /\ v \in SrvType /\ x \in Clients
        /\ Typed(x, v.conns[s], v.sock[x], v.told[x])
        /\ Fits(k, IF s = s THEN n ELSE 0, x, v.conns[s], v.sock[x], v.told[x])
    BY <2>1, SlotFacts
  <2> QED BY <2>2
<1>2. c \in ConnType /\ c.rbuf \in Seq(Pieces) /\ to \in Seq(Replies)
  BY <1>1 DEF Typed
<1>3. /\ rest \in Seq(Pieces) /\ Len(rest) = Len(c.rbuf) - n /\ Len(c.rbuf) \in Nat
      /\ \A i \in 1..(Len(c.rbuf) - n) : rest[i] = c.rbuf[n + i]
  <2> DEFINE f == c.rbuf
  <2>1. f \in Seq(Pieces) /\ Len(f) \in Nat /\ n \in 0..Len(f)
    BY <1>2, LenProperties
  <2> HIDE DEF f
  <2>2. /\ SubSeq(f, n + 1, Len(f)) \in Seq(Pieces)
        /\ Len(SubSeq(f, n + 1, Len(f))) = Len(f) - n
        /\ \A i \in 1..(Len(f) - n) : SubSeq(f, n + 1, Len(f))[i] = f[n + i]
    BY <2>1, RestOfPieces
  <2> QED BY <2>1, <2>2 DEF f
<1>4. v.quit \in BOOLEAN /\ w = [v EXCEPT !.conns[s] = d, !.quit = v.quit]
  BY <1>1 DEF SrvType
<1> HIDE DEF w, rest
<1>5. /\ d \in ConnType /\ d.in_use = c.in_use /\ d.peer = x /\ d.rbuf = rest
      /\ d.wbuf = c.wbuf /\ d.subs = c.subs /\ d.authenticated = c.authenticated
  <2> HIDE DEF c
  <2> QED BY <1>2, <1>3 DEF ConnType, x
<1> HIDE DEF d
<1>6. Update(v, w, s, x, d, so, to)
  BY <1>1, <1>4, FlagUpdate
<1>7. Typed(x, d, so, to)
  BY <1>1, <1>3, <1>5 DEF Typed
<1>8. /\ b \in Nat /\ 2 * N = b + n /\ N \in Nat
      /\ \A i \in 1..Len(c.rbuf) : c.rbuf[i] = Piece(x, b + i)
  <2>1. N \in Nat
    BY <1>2, CountNat
  <2> HIDE DEF N, c, x, to, so
  <2> QED BY <1>1, <2>1 DEF Fits, N
<1>9. e = b + n
  <2> DEFINE f == k.received[x]
             g == Len(c.rbuf)
             h == Len(rest)
  <2>1. f - g = b /\ h = g - n /\ g \in Nat /\ b \in Nat
    BY <1>3, <1>8
  <2>2. f - h = b + n
    <3>0. f \in Nat
      BY <1>1
    <3> HIDE DEF f, g, h, b
    <3> QED BY <2>1, <3>0
  <2> QED BY <2>2
<1> HIDE DEF e, N, b
<1>10. ASSUME NEW i \in 1..Len(rest) PROVE rest[i] = Piece(x, e + i)
  <2>1. i \in Nat /\ i \in 1..(Len(c.rbuf) - n) /\ n + i \in 1..Len(c.rbuf)
    BY <1>3
  <2>2. rest[i] = c.rbuf[n + i] /\ c.rbuf[n + i] = Piece(x, b + (n + i))
    BY <1>3, <1>8, <2>1
  <2>3. b + (n + i) = e + i
    BY <1>8, <1>9, <2>1
  <2> QED BY <2>2, <2>3
<1>11. e \in Nat /\ 2 * N = e + 0
  BY <1>8, <1>9
<1>12. Fits(k, 0, x, d, so, to)
  <2>0. c.in_use
    OBVIOUS
  <2> HIDE DEF c, x, so, to
  <2> QED BY <1>1, <1>5, <1>10, <1>11, <2>0 DEF Fits, N, e
<1>13. Kept(v, w, k, 0, s, s, d)
  <2>1. Fits(k, IF s = s THEN 0 ELSE 0, x, d, so, to)
    BY <1>12
  <2> QED BY <1>6, <1>7, <2>1, UpdateInv
<1> QED BY <1>5, <1>13 DEF Kept, Still, w

LEMMA ProcessReadsInv ==
    ASSUME NEW v, NEW k, NEW s \in Slots, SrvInv(v, k, 0, Listener), v.conns[s].in_use,
           k.received \in [Clients -> Nat]
    PROVE  SrvInv(ProcessReads(v, s), k, 0, Listener)
<1> DEFINE rbuf == v.conns[s].rbuf
           x == v.conns[s].peer
           n == Len(rbuf)
           base == [pos |-> 0, stop |-> FALSE, v |-> v]
           r == ProcessAll(base, s, rbuf)
           u == r.v
           w == [u EXCEPT !.conns[s].rbuf = SubSeq(@, r.pos + 1, Len(@))]
<1>1. ProcessReads(v, s) = FlushOrClose(w, s)
  BY DEF ProcessReads, ProcessAll
<1>2. SrvInv(v, k, 0, s)
  BY NobodyExecutes
<1>3. rbuf \in Seq(Pieces)
  BY SlotFacts DEF Typed
<1>4. PICK g : /\ g[1..0] = base /\ g[1..n] = r
               /\ \A i \in 1..n : g[1..i] = ProcessCommand(g[1..(i - 1)], s, rbuf, i)
  <2> HIDE DEF base, rbuf
  <2> QED BY <1>3, ReadTurns
<1>5. n \in Nat
  BY <1>3, LenProperties
<1>6. Reads(x, k, s, rbuf, 0, base)
  <2>1. base.pos = 0 /\ base.stop = FALSE /\ base.v = v
    OBVIOUS
  <2> HIDE DEF base
  <2> QED BY <1>2, <2>1 DEF Reads
<1> HIDE DEF r, base
<1> DEFINE T == {i \in Nat : i <= n => Reads(x, k, s, rbuf, i, g[1..i])}
<1>7. 0 \in T
  BY <1>4, <1>6
<1>8. ASSUME NEW i \in T PROVE i + 1 \in T
  <2> SUFFICES ASSUME i + 1 <= n PROVE Reads(x, k, s, rbuf, i + 1, g[1..(i + 1)])
    OBVIOUS
  <2>1. i \in Nat /\ i <= n /\ i + 1 \in 1..n /\ (i + 1) - 1 = i
    BY <1>5
  <2>2. Reads(x, k, s, rbuf, i, g[1..i])
    BY <2>1
  <2>3. g[1..(i + 1)] = ProcessCommand(g[1..i], s, rbuf, i + 1)
    BY <1>4, <2>1
  <2> HIDE DEF T, x, rbuf
  <2>4. Reads(x, k, s, rbuf, i + 1, ProcessCommand(g[1..i], s, rbuf, i + 1))
    BY <2>1, <2>2, ProcessCommandInv
  <2> QED BY <2>3, <2>4
<1> HIDE DEF T
<1>9. T = Nat
  BY <1>7, <1>8, NatInduct DEF T
<1>10. Reads(x, k, s, rbuf, n, r)
  BY <1>4, <1>5, <1>9 DEF T
<1>11. /\ r.pos \in Nat /\ SrvInv(u, k, r.pos, s) /\ u.conns[s].in_use
       /\ r.pos <= Len(u.conns[s].rbuf)
  BY <1>5, <1>10 DEF Reads
<1>12. SrvInv(w, k, 0, s) /\ w.conns[s].in_use
  <2> DEFINE i == r.pos
  <2>1. i \in Nat /\ SrvInv(u, k, i, s) /\ u.conns[s].in_use /\ i <= Len(u.conns[s].rbuf)
    BY <1>11
  <2>2. w = [u EXCEPT !.conns[s].rbuf = SubSeq(@, i + 1, Len(@))]
    OBVIOUS
  <2> HIDE DEF u, i, w
  <2>3. Still(u, w, k, 0, s, s) /\ w.conns[s].in_use
    BY <2>1, <2>2, TruncateInv
  <2> QED BY <2>3 DEF Still
<1> HIDE DEF w
<1>13. Still(w, FlushOrClose(w, s), k, 0, s, s)
  BY <1>12, FlushOrCloseInv
<1>14. SrvInv(FlushOrClose(w, s), k, 0, s)
  BY <1>13 DEF Still
<1> QED BY <1>1, <1>14, NobodyExecutes


LEMMA SlotBetween ==
    ASSUME NEW v, NEW k, NEW a, NEW s \in Slots, NEW x,
           SrvInv(v, k, 0, a), v.conns[s].in_use, x = v.conns[s].peer
    PROVE  /\ v \in SrvType /\ x \in Clients /\ v.fate[x] = "open"
           /\ Typed(x, v.conns[s], v.sock[x], v.told[x])
           /\ Fits(k, 0, x, v.conns[s], v.sock[x], v.told[x])
<1>1. (IF s = a THEN 0 ELSE 0) = 0
  OBVIOUS
<1>2. /\ v \in SrvType /\ x \in Clients /\ v.fate[x] = "open"
      /\ Typed(x, v.conns[s], v.sock[x], v.told[x])
      /\ Fits(k, IF s = a THEN 0 ELSE 0, x, v.conns[s], v.sock[x], v.told[x])
  BY SlotFacts
<1> QED BY <1>1, <1>2

\* Nothing that concerns slot s changes.
Alike(v, w, k, l, s) ==
    LET x == v.conns[s].peer
    IN  /\ w.conns[s] = v.conns[s]
        /\ v.conns[s].in_use =>
              /\ w.sock[x] = v.sock[x] /\ w.told[x] = v.told[x] /\ w.fate[x] = v.fate[x]
              /\ l.received[x] = k.received[x]

LEMMA AlikeInv ==
    ASSUME NEW v, NEW w, NEW k, NEW l, NEW n, NEW s, SlotInv(v, k, n, s), Alike(v, w, k, l, s)
    PROVE  SlotInv(w, l, n, s)
<1>1. CASE v.conns[s].in_use
  <2> DEFINE x == v.conns[s].peer
  <2>1. /\ w.conns[s] = v.conns[s]
        /\ w.sock[x] = v.sock[x] /\ w.told[x] = v.told[x] /\ w.fate[x] = v.fate[x]
        /\ l.received[x] - Len(w.conns[s].rbuf) = k.received[x] - Len(v.conns[s].rbuf)
    BY <1>1 DEF Alike
  <2> QED BY <1>1, <2>1 DEF SlotInv
<1>2. CASE ~ v.conns[s].in_use
  BY <1>2 DEF SlotInv, Alike
<1> QED BY <1>1, <1>2

\* Nothing that concerns client y changes, except that it may become less ready
\* and leave the queue.
Unchanged(v, w, k, l, y) ==
    /\ w.sock[y] = v.sock[y] /\ w.told[y] = v.told[y]
    /\ w.fate[y] = v.fate[y] /\ w.lost[y] = v.lost[y]
    /\ \A r \in Slots : v.conns[r].in_use /\ v.conns[r].peer = y =>
          w.conns[r].in_use /\ w.conns[r].peer = y
    /\ y \in w.ready => y \in v.ready \/ v.fate[y] = "open"
    /\ y \in l.waiting => y \in k.waiting
    /\ v.fate[y] # "open" => l.received[y] = k.received[y]

LEMMA UnchangedInv ==
    ASSUME NEW v, NEW w, NEW k, NEW l, NEW y, ClientInv(v, k, y), Unchanged(v, w, k, l, y)
    PROVE  ClientInv(w, l, y)
  BY DEF ClientInv, Unchanged

\* More of client x's pieces arrive in the read buffer of its slot.
Arrive(v, w, k, l, s, x, more) ==
    /\ k.received \in [Clients -> Nat] /\ l.waiting = k.waiting
    /\ l.received = [k.received EXCEPT ![x] = @ + Len(more)]
    /\ \A i \in 1..Len(more) : more[i] = Piece(x, k.received[x] + i)
    /\ w = [v EXCEPT !.conns[s].rbuf = @ \o more]

LEMMA ReceiveInv ==
    ASSUME NEW v, NEW w, NEW k, NEW l, NEW s \in Slots, NEW x, NEW more \in Seq(Pieces),
           SrvInv(v, k, 0, Listener), v.conns[s].in_use, x = v.conns[s].peer,
           Arrive(v, w, k, l, s, x, more)
    PROVE  SrvInv(w, l, 0, Listener) /\ w.conns[s].in_use
<1> DEFINE c == v.conns[s]
           rbuf == c.rbuf
           d == [c EXCEPT !.rbuf = rbuf \o more]
           so == v.sock[x]
           to == v.told[x]
           N == Count(to, Len(to))
           b == k.received[x] - Len(rbuf)
           e == l.received[x] - Len(rbuf \o more)
<1>1. v \in SrvType /\ x \in Clients /\ Typed(x, c, so, to) /\ Fits(k, 0, x, c, so, to)
  BY SlotBetween
<1>2. /\ c \in ConnType /\ rbuf \in Seq(Pieces) /\ so \in Seq(Replies) /\ to \in Seq(Replies)
      /\ got[x] \in Seq(Replies) /\ c.wbuf \in Seq(Replies)
  BY <1>1 DEF Typed
<1>3. /\ rbuf \o more \in Seq(Pieces) /\ Len(rbuf \o more) = Len(rbuf) + Len(more)
      /\ Len(rbuf) \in Nat /\ Len(more) \in Nat
      /\ \A i \in 1..(Len(rbuf) + Len(more)) :
            (rbuf \o more)[i] = IF i <= Len(rbuf) THEN rbuf[i] ELSE more[i - Len(rbuf)]
  <2> HIDE DEF rbuf
  <2> QED BY <1>2, ConcatProperties, LenProperties
<1>4. v.quit \in BOOLEAN /\ w = [v EXCEPT !.conns[s] = d, !.quit = v.quit]
  BY <1>1 DEF SrvType, Arrive
<1> DEFINE all == rbuf \o more
<1> HIDE DEF all
<1>5. /\ d \in ConnType /\ d.in_use = c.in_use /\ d.peer = x /\ d.rbuf = all
      /\ d.wbuf = c.wbuf /\ d.subs = c.subs /\ d.authenticated = c.authenticated
  <2>1. c.peer = x /\ d = [c EXCEPT !.rbuf = all] /\ all \in Seq(Pieces)
    BY <1>3 DEF all
  <2> HIDE DEF c, d
  <2> QED BY <1>2, <2>1 DEF ConnType
<1> HIDE DEF d
<1>6. Updated(v, w, s, x, d, so, to)
  <2>1. Update(v, w, s, x, d, so, to)
    BY <1>1, <1>4, FlagUpdate
  <2> QED BY <1>1, <1>2, <1>5, <2>1, UpdateFacts
<1>7. /\ w \in SrvType
      /\ w.conns[s] = d /\ \A r \in Slots \ {s} : w.conns[r] = v.conns[r]
      /\ w.sock[x] = so /\ \A y \in Clients \ {x} : w.sock[y] = v.sock[y]
      /\ w.told[x] = to /\ \A y \in Clients \ {x} : w.told[y] = v.told[y]
      /\ w.fate = v.fate /\ w.lost = v.lost
  BY <1>6 DEF Updated
<1>8. w.ready = v.ready
  BY <1>1 DEF SrvType, Arrive
<1>9. /\ got \in [Clients -> Seq(Replies)]
      /\ \A r \in Slots : SlotInv(v, k, 0, r)
      /\ \A y \in Clients : ClientInv(v, k, y)
      /\ \A r, t \in InUse(v) : v.conns[r].peer = v.conns[t].peer => r = t
      /\ Cardinality(InUse(v)) <= MaxClients
  <2>1. \A r : (IF r = Listener THEN 0 ELSE 0) = 0
    OBVIOUS
  <2> QED BY <2>1 DEF SrvInv
<1>10. /\ l.received[x] = k.received[x] + Len(more) /\ k.received[x] \in Nat
       /\ \A y \in Clients \ {x} : l.received[y] = k.received[y]
       /\ l.waiting = k.waiting
       /\ \A i \in 1..Len(more) : more[i] = Piece(x, k.received[x] + i)
  BY <1>1 DEF Arrive
<1>11. /\ b \in Nat /\ 2 * N = b + 0
       /\ \A i \in 1..Len(rbuf) : rbuf[i] = Piece(x, b + i)
  <2> HIDE DEF N, c, so, to
  <2> QED BY <1>1 DEF Fits, N
<1>12. e = b /\ Len(all) = Len(rbuf) + Len(more)
  <2> DEFINE f == k.received[x]
             g == Len(rbuf)
             h == Len(more)
  <2>1. f \in Nat /\ g \in Nat /\ h \in Nat
    BY <1>3, <1>10
  <2>2. e = (f + h) - (g + h)
    BY <1>3, <1>10
  <2> HIDE DEF f, g, h, e
  <2>3. e = f - g
    BY <2>1, <2>2
  <2> QED BY <1>3, <2>3 DEF f, g, all
<1>13. ASSUME NEW i \in 1..Len(all) PROVE all[i] = Piece(x, b + i)
  <2> HIDE DEF b
  <2>1. CASE i <= Len(rbuf)
    BY <1>3, <1>11, <1>12, <2>1 DEF all
  <2>2. CASE i > Len(rbuf)
    <3> DEFINE j == i - Len(rbuf)
    <3>1. j \in 1..Len(more) /\ all[i] = more[j]
      <4> DEFINE g == Len(rbuf)
                 h == Len(more)
      <4>1. g \in Nat /\ h \in Nat /\ i \in 1..(g + h) /\ i > g /\ j = i - g
        BY <1>3, <1>12, <2>2
      <4>2. i \in 1..(g + h) => all[i] = IF i <= g THEN rbuf[i] ELSE more[i - g]
        BY <1>3 DEF all
      <4> HIDE DEF g, h, j, all
      <4>3. j \in 1..h /\ ~ (i <= g)
        BY <4>1
      <4>4. all[i] = more[j]
        BY <4>1, <4>2, <4>3
      <4> QED BY <4>3, <4>4 DEF h
    <3>2. k.received[x] + j = b + i
      BY <1>3, <1>10, <2>2 DEF b
    <3> QED BY <1>10, <3>1, <3>2
  <2> QED BY <1>3, <2>1, <2>2
<1>14. SlotInv(w, l, 0, s)
  <2>1. v.fate[x] = "open"
    BY <1>9 DEF SlotInv
  <2>2. l.received[x] - Len(all) = b
    BY <1>12 DEF all
  <2>3. /\ RequirePass /\ c.authenticated => Authed(x, N)
        /\ (got[x] \o so) \o c.wbuf = to
        /\ c.subs => Subscribed(to)
    <3> HIDE DEF c, so, to, N
    <3> QED BY <1>1 DEF Fits, N
  <2> HIDE DEF N, b, so, to
  <2>4. d.in_use
    BY <1>5
  <2>5. /\ x \in Clients /\ w.fate[x] = "open" /\ b \in Nat
        /\ \A i \in 1..Len(d.rbuf) : d.rbuf[i] = Piece(x, b + i)
        /\ 2 * Count(w.told[x], Len(w.told[x])) = b + 0
        /\ RequirePass /\ d.authenticated => Authed(x, Count(w.told[x], Len(w.told[x])))
        /\ (got[x] \o w.sock[x]) \o d.wbuf = w.told[x]
        /\ d.subs => Subscribed(w.told[x])
        /\ l.received[x] - Len(d.rbuf) = b
    BY <1>1, <1>5, <1>7, <1>11, <1>13, <2>1, <2>2, <2>3 DEF N
  <2> QED BY <1>5, <1>7, <2>4, <2>5 DEF SlotInv
<1>15. ASSUME NEW r \in Slots \ {s} PROVE SlotInv(w, l, 0, r)
  <2> DEFINE y == v.conns[r].peer
  <2>1. SlotInv(v, k, 0, r) /\ w.conns[r] = v.conns[r]
    BY <1>7, <1>9
  <2>2. v.conns[r].in_use => y \in Clients \ {x}
    <3> HAVE v.conns[r].in_use
    <3>1. y \in Clients
      BY <2>1 DEF SlotInv
    <3>2. r \in InUse(v) /\ s \in InUse(v)
      BY DEF InUse
    <3> QED BY <1>9, <3>1, <3>2
  <2>3. Alike(v, w, k, l, r)
    BY <1>7, <1>10, <2>1, <2>2 DEF Alike
  <2> QED BY <2>1, <2>3, AlikeInv
<1>16. /\ \A r \in Slots : w.conns[r].in_use = v.conns[r].in_use
       /\ \A r \in Slots : w.conns[r].peer = v.conns[r].peer
  BY <1>5, <1>7
<1>17. ASSUME NEW y \in Clients PROVE ClientInv(w, l, y)
  <2>1. ClientInv(v, k, y)
    BY <1>9
  <2>2. w.sock[y] = v.sock[y] /\ w.told[y] = v.told[y]
    BY <1>7
  <2>3. v.fate[x] = "open"
    BY <1>9 DEF SlotInv
  <2>4. v.fate[y] # "open" => l.received[y] = k.received[y]
    BY <1>10, <2>3
  <2>5. Unchanged(v, w, k, l, y)
    BY <1>7, <1>8, <1>10, <1>16, <2>2, <2>4 DEF Unchanged
  <2> QED BY <2>1, <2>5, UnchangedInv
<1>18. InUse(w) = InUse(v)
  BY <1>16 DEF InUse
<1>19. \A r \in Slots : SlotInv(w, l, IF r = Listener THEN 0 ELSE 0, r)
  BY <1>14, <1>15
<1>20. \A r, t \in InUse(w) : w.conns[r].peer = w.conns[t].peer => r = t
  BY <1>9, <1>16, <1>18 DEF InUse
<1>21. SrvInv(w, l, 0, Listener)
  BY <1>7, <1>9, <1>17, <1>18, <1>19, <1>20 DEF SrvInv
<1> QED BY <1>16, <1>21


-----------------------------------------------------------------------------
(* Accept.                                                                 *)

\* Slots and clients other than s and x are as they were.
LEMMA OthersAlike ==
    ASSUME NEW v, NEW w, NEW k, NEW l, NEW x \in Clients, NEW s,
           SrvInv(v, k, 0, Listener), v.fate[x] # "open",
           \A r \in Slots \ {s} : w.conns[r] = v.conns[r],
           s \in Slots => ~ v.conns[s].in_use,
           w.sock = v.sock, w.told = v.told, w.lost = v.lost,
           \A y \in Clients \ {x} : w.fate[y] = v.fate[y],
           w.ready \subseteq v.ready \cup {x},
           l.received = k.received, l.waiting \subseteq k.waiting
    PROVE  /\ \A r \in Slots \ {s} : SlotInv(w, l, 0, r)
           /\ \A y \in Clients \ {x} : ClientInv(w, l, y)
<1>1. /\ \A r \in Slots : SlotInv(v, k, 0, r)
      /\ \A y \in Clients : ClientInv(v, k, y)
  <2>1. \A r : (IF r = Listener THEN 0 ELSE 0) = 0
    OBVIOUS
  <2> QED BY <2>1 DEF SrvInv
<1>2. ASSUME NEW r \in Slots \ {s} PROVE SlotInv(w, l, 0, r)
  <2>1. v.conns[r].in_use => v.conns[r].peer \in Clients \ {x}
    BY <1>1 DEF SlotInv
  <2>2. Alike(v, w, k, l, r)
    BY <2>1 DEF Alike
  <2> QED BY <1>1, <2>2, AlikeInv
<1>3. ASSUME NEW y \in Clients \ {x} PROVE ClientInv(w, l, y)
  <2>1. \A r \in Slots : v.conns[r].in_use => w.conns[r] = v.conns[r]
    OBVIOUS
  <2>2. Unchanged(v, w, k, l, y)
    BY <2>1 DEF Unchanged
  <2> QED BY <1>1, <2>2, UnchangedInv
<1> QED BY <1>2, <1>3

LEMMA CountEmpty == Count(<<>>, 0) = 0
<1>1. {q \in 1..0 : IsAnswer(<<>>[q])} = {}
  OBVIOUS
<1> QED BY <1>1, FS_EmptySet DEF Count

LEMMA EmptyHistory ==
    /\ Messages(<<>>) /\ \A x : InOrder(x, <<>>) /\ IsPrefix(<<>>, <<>>)
    /\ Len(<<>>) = 0 /\ <<>> \in Seq(Replies) /\ <<>> \in Seq(Pieces) /\ <<>> \o <<>> = <<>>
<1>1. Len(<<>>) = 0 /\ <<>> \in Seq(Replies) /\ <<>> \in Seq(Pieces) /\ <<>> \o <<>> = <<>>
  OBVIOUS
<1>2. SubSeq(<<>>, 1, 0) = <<>>
  OBVIOUS
<1>3. IsPrefix(<<>>, <<>>)
  BY <1>1, <1>2 DEF IsPrefix
<1>4. Messages(<<>>) /\ \A x : InOrder(x, <<>>)
  BY <1>1 DEF Messages, InOrder
<1> QED BY <1>1, <1>3, <1>4

\* Client x leaves the queue of those waiting for accept.
Dequeue(k, l, x) ==
    x \in k.waiting /\ l.received = k.received /\ l.waiting = k.waiting \ {x}

LEMMA Waiting ==
    ASSUME NEW v, NEW k, NEW x \in Clients, SrvInv(v, k, 0, Listener), x \in k.waiting
    PROVE  /\ v \in SrvType /\ v.fate[x] = "backlog" /\ x \notin v.ready /\ ~ v.lost[x]
           /\ k.received[x] = 0 /\ got[x] = <<>> /\ v.sock[x] = <<>> /\ v.told[x] = <<>>
<1>1. ClientInv(v, k, x) /\ v \in SrvType
  BY DEF SrvInv
<1>2. v.fate[x] = "backlog"
  BY <1>1 DEF ClientInv
<1> QED BY <1>1, <1>2 DEF ClientInv, Causes

LEMMA RefuseInv ==
    ASSUME NEW v, NEW k, NEW l, NEW x \in Clients, NEW w, SrvInv(v, k, 0, Listener),
           Dequeue(k, l, x), w = [v EXCEPT !.fate[x] = "refused"]
    PROVE  SrvInv(w, l, 0, Listener)
<1>1. x \in k.waiting /\ l.received = k.received /\ l.waiting = k.waiting \ {x}
  BY DEF Dequeue
<1>2. /\ v \in SrvType /\ v.fate[x] = "backlog" /\ x \notin v.ready /\ ~ v.lost[x]
  BY <1>1, Waiting
<1>3. /\ w.conns = v.conns /\ w.sock = v.sock /\ w.told = v.told /\ w.lost = v.lost
      /\ w.ready = v.ready /\ w.quit = v.quit
      /\ w.fate = [v.fate EXCEPT ![x] = "refused"]
      /\ w = [conns |-> w.conns, sock |-> w.sock, ready |-> w.ready, quit |-> w.quit,
              told |-> w.told, fate |-> w.fate, lost |-> w.lost]
  BY <1>2 DEF SrvType
<1>4. v.fate \in [Clients -> Fates] /\ "refused" \in Fates
  BY <1>2 DEF SrvType, Fates, Reasons
<1>5. /\ w.fate \in [Clients -> Fates] /\ w.fate[x] = "refused"
      /\ \A y \in Clients \ {x} : w.fate[y] = v.fate[y]
  <2>1. w.fate = [v.fate EXCEPT ![x] = "refused"]
    BY <1>3
  <2>2. w.fate \in [Clients -> Fates]
    BY <1>4, <2>1, Zenon
  <2> QED BY <1>4, <2>1, <2>2
<1>6. w \in SrvType
  BY <1>2, <1>3, <1>5 DEF SrvType
<1>7. /\ \A r \in Slots \ {Listener} : SlotInv(w, l, 0, r)
      /\ \A y \in Clients \ {x} : ClientInv(w, l, y)
  <2>1. /\ \A r \in Slots \ {Listener} : w.conns[r] = v.conns[r]
        /\ Listener \notin Slots /\ v.fate[x] # "open"
        /\ w.ready \subseteq v.ready \cup {x} /\ l.waiting \subseteq k.waiting
    BY <1>1, <1>2, <1>3 DEF Listener, Slots
  <2> QED BY <1>1, <1>3, <1>5, <2>1, OthersAlike
<1>8. ClientInv(w, l, x)
  <2>1. ClientInv(v, k, x)
    BY DEF SrvInv
  <2> QED BY <1>1, <1>2, <1>3, <1>5, <2>1 DEF ClientInv
<1>9. \A r \in Slots : SlotInv(w, l, IF r = Listener THEN 0 ELSE 0, r)
  <2>1. Slots = Slots \ {Listener}
    BY DEF Slots, Listener
  <2> QED BY <1>7, <2>1
<1>10. InUse(w) = InUse(v)
  BY <1>3 DEF InUse
<1>11. /\ got \in [Clients -> Seq(Replies)]
       /\ \A r, t \in InUse(w) : w.conns[r].peer = w.conns[t].peer => r = t
       /\ Cardinality(InUse(w)) <= MaxClients
  <2>1. /\ got \in [Clients -> Seq(Replies)]
        /\ \A r, t \in InUse(v) : v.conns[r].peer = v.conns[t].peer => r = t
        /\ Cardinality(InUse(v)) <= MaxClients
    BY DEF SrvInv
  <2>2. w.conns = v.conns
    BY <1>3
  <2> QED BY <1>10, <2>1, <2>2
<1>12. \A y \in Clients : ClientInv(w, l, y)
  BY <1>7, <1>8
<1> QED BY <1>6, <1>9, <1>11, <1>12 DEF SrvInv

LEMMA AllocInv ==
    ASSUME NEW v, NEW k, NEW l, NEW x \in Clients, SrvInv(v, k, 0, Listener),
           Dequeue(k, l, x), Cardinality(InUse(v)) < MaxClients,
           \E s \in Slots : ~ v.conns[s].in_use
    PROVE  SrvInv(ConnAlloc(v, x), l, 0, Listener)
<1> DEFINE free == {t \in Slots : ~ v.conns[t].in_use}
           s == Min(free)
           flag == ~ RequirePass
           d == [FreeConn EXCEPT !.in_use = TRUE, !.peer = x, !.authenticated = flag]
           ready == IF inbox[x] # <<>> \/ gone[x] # "no" THEN v.ready \cup {x} ELSE v.ready
           w == ConnAlloc(v, x)
<1>1. x \in k.waiting /\ l.received = k.received /\ l.waiting = k.waiting \ {x}
  BY DEF Dequeue
<1>2. /\ v \in SrvType /\ v.fate[x] = "backlog" /\ x \notin v.ready /\ ~ v.lost[x]
      /\ k.received[x] = 0 /\ got[x] = <<>> /\ v.sock[x] = <<>> /\ v.told[x] = <<>>
  BY <1>1, Waiting
<1>3. s \in Slots /\ ~ v.conns[s].in_use
  <2>1. NSlots \in Nat /\ free \in SUBSET (1..NSlots) /\ free # {}
    BY LoopAssumption DEF Slots
  <2> HIDE DEF free
  <2>2. Min(free) \in free
    BY <2>1, MinOfPart
  <2> QED BY <2>2 DEF free
<1>4. w = [v EXCEPT !.conns[s] = d, !.fate[x] = "open", !.ready = ready]
  <2>1. (FreeConn.authenticated \/ ~ RequirePass) = flag
    BY DEF FreeConn
  <2> QED BY <2>1 DEF ConnAlloc, ConnReset, FreeConn
<1>5. ready \subseteq v.ready \cup {x} /\ v.ready \subseteq Clients
  BY <1>2 DEF SrvType
<1>6. flag \in BOOLEAN /\ (RequirePass => ~ flag)
  OBVIOUS
<1> HIDE DEF w, s, ready, flag
<1>7. /\ d \in ConnType /\ d.in_use /\ d.peer = x /\ d.rbuf = <<>> /\ d.wbuf = <<>>
      /\ ~ d.subs /\ d.authenticated = flag
  BY <1>6, EmptyHistory DEF FreeConn, ConnType
<1> HIDE DEF d
<1>8. /\ w.conns = [v.conns EXCEPT ![s] = d]
      /\ w.sock = v.sock /\ w.told = v.told /\ w.lost = v.lost
      /\ w.ready = ready /\ w.quit = v.quit
      /\ w.fate = [v.fate EXCEPT ![x] = "open"]
      /\ w = [conns |-> w.conns, sock |-> w.sock, ready |-> w.ready, quit |-> w.quit,
              told |-> w.told, fate |-> w.fate, lost |-> w.lost]
  BY <1>2, <1>4 DEF SrvType
<1>9. v.fate \in [Clients -> Fates] /\ v.conns \in [Slots -> ConnType] /\ "open" \in Fates
  BY <1>2 DEF SrvType, Fates
<1>10. /\ w.fate \in [Clients -> Fates] /\ w.fate[x] = "open"
       /\ \A y \in Clients \ {x} : w.fate[y] = v.fate[y]
  <2>1. w.fate = [v.fate EXCEPT ![x] = "open"]
    BY <1>8
  <2>2. w.fate \in [Clients -> Fates]
    BY <1>9, <2>1, Zenon
  <2> QED BY <1>9, <2>1, <2>2
<1>11. /\ w.conns \in [Slots -> ConnType] /\ w.conns[s] = d
       /\ \A r \in Slots \ {s} : w.conns[r] = v.conns[r]
  <2>1. w.conns = [v.conns EXCEPT ![s] = d]
    BY <1>8
  <2>2. w.conns \in [Slots -> ConnType]
    BY <1>7, <1>9, <2>1, Zenon
  <2> QED BY <1>3, <1>9, <2>1, <2>2
<1>12. w \in SrvType
  <2>1. w.ready \in SUBSET Clients
    BY <1>5, <1>8
  <2> QED BY <1>2, <1>8, <1>10, <1>11, <2>1 DEF SrvType
<1>13. /\ \A r \in Slots \ {s} : SlotInv(w, l, 0, r)
       /\ \A y \in Clients \ {x} : ClientInv(w, l, y)
  <2>1. /\ v.fate[x] # "open" /\ l.waiting \subseteq k.waiting
        /\ w.ready \subseteq v.ready \cup {x}
    BY <1>1, <1>2, <1>5, <1>8
  <2> QED BY <1>1, <1>3, <1>8, <1>10, <1>11, <2>1, OthersAlike
<1>14. SlotInv(w, l, 0, s)
  <2>1. /\ w.told[x] = <<>> /\ w.sock[x] = <<>> /\ l.received[x] = 0
        /\ got[x] = <<>> /\ (<<>> \o <<>>) \o <<>> = <<>>
    BY <1>1, <1>2, <1>8, EmptyHistory
  <2>2. Len(<<>>) = 0 /\ 0 - 0 = 0 /\ 0 \in Nat /\ 2 * 0 = 0 + 0 /\ 1..0 = {}
    OBVIOUS
  <2> QED BY <1>6, <1>7, <1>10, <1>11, <2>1, <2>2, CountEmpty DEF SlotInv
<1>15. ClientInv(w, l, x)
  <2>1. Cap \in Nat
    BY LoopAssumption
  <2>2. /\ w.told[x] = <<>> /\ w.sock[x] = <<>> /\ got[x] = <<>> /\ ~ w.lost[x]
        /\ x \notin l.waiting /\ w.fate[x] \notin {"new", "backlog"}
        /\ w.conns[s].in_use /\ w.conns[s].peer = x
    BY <1>1, <1>2, <1>7, <1>8, <1>10, <1>11
  <2>3. Len(w.sock[x]) <= Cap
    BY <2>1, <2>2, EmptyHistory
  <2>4. IsPrefix(got[x] \o w.sock[x], w.told[x]) /\ Messages(w.told[x]) /\ InOrder(x, w.told[x])
    BY <2>2, EmptyHistory
  <2> QED BY <1>3, <1>10, <2>2, <2>3, <2>4 DEF ClientInv
<1>16. \A r \in Slots : SlotInv(w, l, IF r = Listener THEN 0 ELSE 0, r)
  BY <1>13, <1>14
<1>17. \A y \in Clients : ClientInv(w, l, y)
  BY <1>13, <1>15
<1>18. InUse(w) = InUse(v) \cup {s} /\ s \notin InUse(v)
  BY <1>3, <1>7, <1>11 DEF InUse
<1>19. Cardinality(InUse(w)) <= MaxClients
  <2>1. IsFiniteSet(InUse(v))
    <3>1. IsFiniteSet(1..NSlots)
      BY LoopAssumption, FS_Interval
    <3> QED BY <3>1, FS_Subset DEF InUse, Slots
  <2>2. Cardinality(InUse(w)) = Cardinality(InUse(v)) + 1 /\ Cardinality(InUse(v)) \in Nat
    BY <1>18, <2>1, FS_AddElement, FS_CardinalityType
  <2> QED BY <2>2, LoopAssumption
<1>20. \A r, t \in InUse(w) : w.conns[r].peer = w.conns[t].peer => r = t
  <2>1. \A r \in InUse(v) : w.conns[r] = v.conns[r] /\ v.conns[r].peer # x
    <3> TAKE r \in InUse(v)
    <3>1. SlotInv(v, k, IF r = Listener THEN 0 ELSE 0, r) /\ v.conns[r].in_use /\ r \in Slots
      BY DEF SrvInv, InUse
    <3>2. v.fate[v.conns[r].peer] = "open"
      BY <3>1 DEF SlotInv
    <3> QED BY <1>2, <1>11, <1>18, <3>1, <3>2
  <2>2. \A r, t \in InUse(v) : v.conns[r].peer = v.conns[t].peer => r = t
    BY DEF SrvInv
  <2> QED BY <1>7, <1>11, <1>18, <2>1, <2>2
<1>21. got \in [Clients -> Seq(Replies)]
  BY DEF SrvInv
<1> QED BY <1>12, <1>16, <1>17, <1>19, <1>20, <1>21 DEF SrvInv, w

LEMMA AcceptInv ==
    ASSUME NEW v, NEW k, NEW l, NEW x \in Clients, SrvInv(v, k, 0, Listener), Dequeue(k, l, x)
    PROVE  SrvInv(Accept(v, x), l, 0, Listener)
<1> DEFINE w == [v EXCEPT !.fate[x] = "refused"]
<1>1. SrvInv(w, l, 0, Listener)
  BY RefuseInv
<1>2. Accept(v, x) = IF Cardinality(InUse(v)) >= MaxClients \/ \A s \in Slots : v.conns[s].in_use
                     THEN w ELSE ConnAlloc(v, x)
  BY DEF Accept, InUse
<1> HIDE DEF w
<1>3. CASE Cardinality(InUse(v)) >= MaxClients \/ \A s \in Slots : v.conns[s].in_use
  BY <1>1, <1>2, <1>3
<1>4. CASE ~ (Cardinality(InUse(v)) >= MaxClients \/ \A s \in Slots : v.conns[s].in_use)
  <2>1. Cardinality(InUse(v)) \in Nat
    <3>1. IsFiniteSet(1..NSlots)
      BY LoopAssumption, FS_Interval
    <3>2. IsFiniteSet(InUse(v))
      BY <3>1, FS_Subset DEF InUse, Slots
    <3> QED BY <3>2, FS_CardinalityType
  <2>2. Cardinality(InUse(v)) < MaxClients
    BY <1>4, <2>1, LoopAssumption
  <2>3. SrvInv(ConnAlloc(v, x), l, 0, Listener)
    BY <1>4, <2>2, AllocInv
  <2> QED BY <1>2, <1>4, <2>3
<1> QED BY <1>3, <1>4


LEMMA AcceptAllInv ==
    ASSUME NEW v, NEW R, NEW queue \in Seq(Clients), NEW new,
           \A i, j \in 1..Len(queue) : queue[i] = queue[j] => i = j,
           SrvInv(v, [received |-> R, waiting |-> {queue[i] : i \in 1..Len(queue)}], 0, Listener),
           new = AcceptAll(v, queue)
    PROVE  SrvInv(new, [received |-> R, waiting |-> {}], 0, Listener)
<1> DEFINE n == Len(queue)
           Behind(i) == {queue[j] : j \in (i + 1)..n}
           kern(i) == [received |-> R, waiting |-> Behind(i)]
<1>1. n \in Nat
  BY LenProperties
<1>2. PICK g : /\ g[1..0] = v /\ g[1..n] = new
               /\ \A i \in 1..n : g[1..i] = Accept(g[1..(i - 1)], queue[i])
  BY AcceptTurns
<1> DEFINE T == {i \in Nat : i <= n => SrvInv(g[1..i], kern(i), 0, Listener)}
<1>3. 0 \in T
  <2>1. Behind(0) = {queue[i] : i \in 1..n}
    OBVIOUS
  <2>2. SrvInv(v, kern(0), 0, Listener)
    BY <2>1
  <2> HIDE DEF kern
  <2> QED BY <1>2, <2>2
<1>4. ASSUME NEW i \in T PROVE i + 1 \in T
  <2> SUFFICES ASSUME i + 1 <= n PROVE SrvInv(g[1..(i + 1)], kern(i + 1), 0, Listener)
    OBVIOUS
  <2> DEFINE x == queue[i + 1]
  <2>1. i \in Nat /\ i <= n /\ i + 1 \in 1..n /\ (i + 1) - 1 = i
    BY <1>1
  <2>2. SrvInv(g[1..i], kern(i), 0, Listener)
    BY <2>1
  <2>3. x \in Clients
    BY <2>1, ElementOfSeq
  <2>4. Behind(i + 1) = Behind(i) \ {x} /\ x \in Behind(i)
    <3>1. (i + 1)..n = {i + 1} \cup ((i + 2)..n) /\ i + 1 \notin (i + 2)..n
      BY <1>1, <2>1
    <3>2. (i + 1) + 1 = i + 2 /\ (i + 1)..n \subseteq 1..n
      BY <2>1
    <3>3. \A j \in (i + 2)..n : queue[j] # x
      BY <2>1, <3>1, <3>2
    <3> QED BY <3>1, <3>2, <3>3
  <2>5. Dequeue(kern(i), kern(i + 1), x)
    <3> HIDE DEF Behind
    <3> QED BY <2>4 DEF Dequeue
  <2>6. g[1..(i + 1)] = Accept(g[1..i], x)
    BY <1>2, <2>1
  <2> HIDE DEF kern, x, T
  <2>7. SrvInv(Accept(g[1..i], x), kern(i + 1), 0, Listener)
    BY <2>2, <2>3, <2>5, AcceptInv
  <2> QED BY <2>6, <2>7
<1> HIDE DEF T
<1>5. T = Nat
  BY <1>3, <1>4, NatInduct DEF T
<1>6. SrvInv(new, kern(n), 0, Listener)
  <2> HIDE DEF kern
  <2> QED BY <1>1, <1>2, <1>5 DEF T
<1>7. Behind(n) = {}
  BY <1>1
<1> HIDE DEF Behind
<1> QED BY <1>6, <1>7

-----------------------------------------------------------------------------
(* The end.                                                                *)

LEMMA BlankSlot ==
    ASSUME NEW v, NEW k, NEW s \in Slots, SrvInv(v, k, 0, Listener), ~ v.conns[s].in_use
    PROVE  v.conns[s].wbuf = <<>> /\ \A why : ConnClose(v, s, why) = v
<1>1. SlotInv(v, k, IF s = Listener THEN 0 ELSE 0, s)
  BY DEF SrvInv
<1>2. v.conns[s] = FreeConn
  BY <1>1 DEF SlotInv
<1> QED BY <1>2 DEF FreeConn, ConnClose

\* conn_close at any time that is not a clean end of the connection.
LEMMA CutOffInv ==
    ASSUME NEW v, NEW k, NEW s \in Slots, NEW why \in Causes, SrvInv(v, k, 0, Listener)
    PROVE  SrvInv(ConnClose(v, s, why), k, 0, Listener)
<1>1. CASE v.conns[s].in_use
  <2>1. why \in Reasons
    BY DEF Causes, Reasons
  <2>2. Still(v, ConnClose(v, s, why), k, 0, Listener, s)
    BY <1>1, <2>1, CloseInv
  <2> QED BY <2>2 DEF Still
<1>2. CASE ~ v.conns[s].in_use
  <2>1. ConnClose(v, s, why) = v
    BY <1>2, BlankSlot
  <2> QED BY <2>1
<1> QED BY <1>1, <1>2

LEMMA CloseAllInv ==
    ASSUME NEW v, NEW k, NEW new, SrvInv(v, k, 0, Listener), new = CloseAll(v)
    PROVE  SrvInv(new, k, 0, Listener)
<1>1. PICK g : /\ g[1..0] = v /\ g[1..NSlots] = new
               /\ \A i \in Slots : g[1..i] = ConnClose(g[1..(i - 1)], i, "deadline")
  BY DeadlineTurns
<1>2. NSlots \in Nat /\ Slots = 1..NSlots
  BY LoopAssumption DEF Slots
<1> DEFINE T == {i \in Nat : i <= NSlots => SrvInv(g[1..i], k, 0, Listener)}
<1>3. 0 \in T
  BY <1>1
<1>4. ASSUME NEW i \in T PROVE i + 1 \in T
  <2> SUFFICES ASSUME i + 1 <= NSlots PROVE SrvInv(g[1..(i + 1)], k, 0, Listener)
    OBVIOUS
  <2>1. i \in Nat /\ i <= NSlots /\ i + 1 \in Slots /\ (i + 1) - 1 = i
    BY <1>2
  <2>2. SrvInv(g[1..i], k, 0, Listener)
    BY <2>1
  <2>3. "deadline" \in Causes
    BY DEF Causes
  <2>4. SrvInv(ConnClose(g[1..i], i + 1, "deadline"), k, 0, Listener)
    BY <2>1, <2>2, <2>3, CutOffInv
  <2> QED BY <1>1, <2>1, <2>4
<1> HIDE DEF T
<1>5. T = Nat
  BY <1>3, <1>4, NatInduct DEF T
<1> QED BY <1>1, <1>2, <1>5 DEF T

LEMMA DrainOneInv ==
    ASSUME NEW v, NEW k, NEW s \in Slots, SrvInv(v, k, 0, Listener)
    PROVE  SrvInv(IF v.conns[s].wbuf # <<>> THEN FlushOrClose(v, s) ELSE ConnClose(v, s, "drain"),
                  k, 0, Listener)
<1>1. CASE v.conns[s].wbuf # <<>>
  <2>1. v.conns[s].in_use
    BY <1>1, BlankSlot
  <2>2. Still(v, FlushOrClose(v, s), k, 0, Listener, s)
    BY <2>1, FlushOrCloseInv
  <2> QED BY <1>1, <2>2 DEF Still
<1>2. CASE v.conns[s].wbuf = <<>> /\ v.conns[s].in_use
  <2>1. "drain" \in Reasons
    BY DEF Reasons
  <2>2. Still(v, ConnClose(v, s, "drain"), k, 0, Listener, s)
    BY <1>2, <2>1, CloseInv
  <2> QED BY <1>2, <2>2 DEF Still
<1>3. CASE v.conns[s].wbuf = <<>> /\ ~ v.conns[s].in_use
  <2>1. ConnClose(v, s, "drain") = v
    BY <1>3, BlankSlot
  <2> QED BY <1>3, <2>1
<1> QED BY <1>1, <1>2, <1>3

LEMMA DrainAllInv ==
    ASSUME NEW v, NEW k, NEW new, SrvInv(v, k, 0, Listener), new = DrainAll(v)
    PROVE  SrvInv(new, k, 0, Listener)
<1>1. PICK g : /\ g[1..0] = v /\ g[1..NSlots] = new
               /\ \A i \in Slots : g[1..i] = IF g[1..(i - 1)].conns[i].wbuf # <<>>
                                             THEN FlushOrClose(g[1..(i - 1)], i)
                                             ELSE ConnClose(g[1..(i - 1)], i, "drain")
  BY DrainTurns
<1>2. NSlots \in Nat /\ Slots = 1..NSlots
  BY LoopAssumption DEF Slots
<1> DEFINE T == {i \in Nat : i <= NSlots => SrvInv(g[1..i], k, 0, Listener)}
<1>3. 0 \in T
  BY <1>1
<1>4. ASSUME NEW i \in T PROVE i + 1 \in T
  <2> SUFFICES ASSUME i + 1 <= NSlots PROVE SrvInv(g[1..(i + 1)], k, 0, Listener)
    OBVIOUS
  <2> DEFINE w == g[1..i]
             s == i + 1
  <2>1. i \in Nat /\ i <= NSlots /\ s \in Slots /\ s - 1 = i
    BY <1>2
  <2>2. SrvInv(w, k, 0, Listener)
    BY <2>1
  <2>3. g[1..s] = IF w.conns[s].wbuf # <<>> THEN FlushOrClose(w, s)
                  ELSE ConnClose(w, s, "drain")
    BY <1>1, <2>1
  <2> HIDE DEF w, s
  <2>4. SrvInv(g[1..s], k, 0, Listener)
    BY <2>1, <2>2, <2>3, DrainOneInv
  <2> QED BY <2>4 DEF s
<1> HIDE DEF T
<1>5. T = Nat
  BY <1>3, <1>4, NatInduct DEF T
<1> QED BY <1>1, <1>2, <1>5 DEF T


-----------------------------------------------------------------------------
(* The actions.                                                            *)

LEMMA NextInv ==
    ASSUME SrvInv(srv', Kernel', 0, Listener), got' = got
    PROVE  SrvInv(srv, Kernel, 0, Listener)'
  BY DEF SrvInv, SlotInv, ClientInv

\* A step of the server that reads and accepts nothing.
LEMMA Quiet ==
    ASSUME LoopInv, SrvInv(srv', Kernel, 0, Listener),
           UNCHANGED <<sent, inbox, backlog, got>>, ControlInv'
    PROVE  LoopInv'
<1>1. Received' = Received
  BY DEF Received
<1>2. Kernel' = Kernel
  BY <1>1 DEF Kernel
<1>3. SrvInv(srv, Kernel, 0, Listener)'
  BY <1>2, NextInv
<1>4. StreamsInv'
  BY <1>1 DEF LoopInv, StreamsInv
<1>5. QueueInv'
  BY DEF LoopInv, QueueInv
<1> QED BY <1>3, <1>4, <1>5 DEF LoopInv

\* The readiness of sockets, and quit.
LEMMA ReadyInv ==
    ASSUME NEW v, NEW w, NEW k, NEW R \in SUBSET Clients, NEW q \in BOOLEAN,
           SrvInv(v, k, 0, Listener), \A x \in R : x \in v.ready \/ v.fate[x] = "open",
           w = [v EXCEPT !.ready = R, !.quit = q]
    PROVE  SrvInv(w, k, 0, Listener)
<1>1. v \in SrvType /\ got \in [Clients -> Seq(Replies)]
  BY DEF SrvInv
<1>2. /\ w.conns = v.conns /\ w.sock = v.sock /\ w.told = v.told /\ w.fate = v.fate
      /\ w.lost = v.lost /\ w.ready = R /\ w.quit = q /\ w \in SrvType
  BY <1>1 DEF SrvType
<1>3. ASSUME NEW r \in Slots PROVE SlotInv(w, k, IF r = Listener THEN 0 ELSE 0, r)
  <2>1. SlotInv(v, k, IF r = Listener THEN 0 ELSE 0, r)
    BY DEF SrvInv
  <2>2. Alike(v, w, k, k, r)
    BY <1>2 DEF Alike
  <2> QED BY <2>1, <2>2, AlikeInv
<1>4. ASSUME NEW y \in Clients PROVE ClientInv(w, k, y)
  <2>1. ClientInv(v, k, y)
    BY DEF SrvInv
  <2>2. Unchanged(v, w, k, k, y)
    BY <1>2 DEF Unchanged
  <2> QED BY <2>1, <2>2, UnchangedInv
<1>5. InUse(w) = InUse(v)
  BY <1>2 DEF InUse
<1>6. /\ \A r, t \in InUse(v) : v.conns[r].peer = v.conns[t].peer => r = t
      /\ Cardinality(InUse(v)) <= MaxClients
  BY DEF SrvInv
<1>7. /\ \A r, t \in InUse(w) : w.conns[r].peer = w.conns[t].peer => r = t
      /\ Cardinality(InUse(w)) <= MaxClients
  BY <1>2, <1>5, <1>6
<1> QED BY <1>1, <1>2, <1>3, <1>4, <1>7 DEF SrvInv

LEMMA CloseIdleInv ==
    ASSUME LoopInv, NEW s \in Slots, CloseIdle(s)
    PROVE  LoopInv'
<1>1. "idle" \in Causes
  BY DEF Causes
<1>2. SrvInv(srv, Kernel, 0, Listener) /\ srv' = ConnClose(srv, s, "idle")
  BY DEF LoopInv, CloseIdle
<1>3. SrvInv(srv', Kernel, 0, Listener)
  BY <1>1, <1>2, CutOffInv
<1>4. ControlInv' /\ UNCHANGED <<sent, inbox, backlog, got>>
  BY DEF LoopInv, ControlInv, CloseIdle
<1> QED BY <1>3, <1>4, Quiet

LEMMA EpollWaitInv ==
    ASSUME LoopInv, EpollWait
    PROVE  LoopInv'
<1>1. SrvInv(srv, Kernel, 0, Listener) /\ ControlInv
  BY DEF LoopInv
<1>2. srv \in SrvType
  BY <1>1 DEF SrvInv
<1>3. srv' = [srv EXCEPT !.ready = {}, !.quit = srv.quit] /\ srv.quit \in BOOLEAN
  BY <1>2 DEF EpollWait, SrvType
<1>4. SrvInv(srv', Kernel, 0, Listener)
  <2>1. PICK none \in SUBSET Clients : none = {}
    OBVIOUS
  <2>2. \A x \in none : x \in srv.ready \/ srv.fate[x] = "open"
    BY <2>1
  <2>3. srv' = [srv EXCEPT !.ready = none, !.quit = srv.quit] /\ srv.quit \in BOOLEAN
    BY <1>3, <2>1
  <2> QED BY <1>1, <2>2, <2>3, ReadyInv
<1>5. ASSUME NEW x \in srv.ready PROVE EventOf(x).slot \in Slots
  <2>1. x \in Clients
    BY <1>2 DEF SrvType
  <2>2. ClientInv(srv, Kernel, x)
    BY <1>1, <2>1 DEF SrvInv
  <2>3. \E r \in Slots : srv.conns[r].in_use /\ srv.conns[r].peer = x
    BY <2>2 DEF ClientInv
  <2>4. (CHOOSE r \in Slots : srv.conns[r].in_use /\ srv.conns[r].peer = x) \in Slots
    BY <2>3
  <2> QED BY <2>4 DEF EventOf
<1>6. ListenEvent.slot = Listener
  BY DEF ListenEvent
<1>7. \A e \in batch' : e.slot \in Slots \cup {Listener}
  BY <1>5, <1>6 DEF EpollWait
<1>8. pc' \in {"batch", "drain"} /\ draining' = draining /\ UNCHANGED <<sent, inbox, backlog, got>>
  BY DEF EpollWait
<1>9. ControlInv'
  BY <1>1, <1>7, <1>8 DEF ControlInv
<1> QED BY <1>4, <1>8, <1>9, Quiet

LEMMA DrainPassInv ==
    ASSUME LoopInv, DrainPass
    PROVE  LoopInv'
<1>1. SrvInv(srv, Kernel, 0, Listener) /\ ControlInv
  BY DEF LoopInv
<1>2. srv' = DrainAll(srv)
  BY DEF DrainPass, DrainAll
<1>3. SrvInv(srv', Kernel, 0, Listener)
  BY <1>1, <1>2, DrainAllInv
<1>4. /\ pc' \in {"down", "drained"} /\ draining' = draining /\ batch' = batch
      /\ UNCHANGED <<sent, inbox, backlog, got>>
  BY DEF DrainPass
<1>5. ControlInv'
  BY <1>1, <1>4 DEF ControlInv
<1> QED BY <1>3, <1>4, <1>5, Quiet

LEMMA DrainDeadlineInv ==
    ASSUME LoopInv, DrainDeadline
    PROVE  LoopInv'
<1>1. SrvInv(srv, Kernel, 0, Listener) /\ ControlInv
  BY DEF LoopInv
<1>2. srv' = CloseAll(srv)
  BY DEF DrainDeadline, CloseAll
<1>3. SrvInv(srv', Kernel, 0, Listener)
  BY <1>1, <1>2, CloseAllInv
<1>4. /\ pc' = "down" /\ draining' = draining /\ batch' = batch
      /\ UNCHANGED <<sent, inbox, backlog, got>>
  BY DEF DrainDeadline
<1>5. ControlInv'
  BY <1>1, <1>4 DEF ControlInv
<1> QED BY <1>3, <1>4, <1>5, Quiet

LEMMA SignalInv ==
    ASSUME LoopInv, Signal
    PROVE  LoopInv'
<1>1. SrvInv(srv, Kernel, 0, Listener) /\ ControlInv
  BY DEF LoopInv
<1>2. srv \in SrvType
  BY <1>1 DEF SrvInv
<1>3. srv' = [srv EXCEPT !.ready = srv.ready, !.quit = TRUE] /\ srv.ready \in SUBSET Clients
  BY <1>2 DEF Signal, SrvType
<1>4. SrvInv(srv', Kernel, 0, Listener)
  BY <1>1, <1>3, ReadyInv
<1>5. ControlInv' /\ UNCHANGED <<sent, inbox, backlog, got>>
  BY <1>1 DEF Signal, ControlInv
<1> QED BY <1>4, <1>5, Quiet

LEMMA LeaveInv ==
    ASSUME LoopInv, NEW x \in Clients, NEW how, Leave(x, how)
    PROVE  LoopInv'
<1>1. SrvInv(srv, Kernel, 0, Listener) /\ ControlInv
  BY DEF LoopInv
<1>2. srv \in SrvType
  BY <1>1 DEF SrvInv
<1> DEFINE R == IF srv.fate[x] = "open" THEN srv.ready \cup {x} ELSE srv.ready
<1>3. /\ srv' = [srv EXCEPT !.ready = R, !.quit = srv.quit]
      /\ R \in SUBSET Clients /\ srv.quit \in BOOLEAN
  BY <1>2 DEF Leave, SrvType
<1>4. \A y \in R : y \in srv.ready \/ srv.fate[y] = "open"
  OBVIOUS
<1> HIDE DEF R
<1>5. SrvInv(srv', Kernel, 0, Listener)
  BY <1>1, <1>3, <1>4, ReadyInv
<1>6. ControlInv' /\ UNCHANGED <<sent, inbox, backlog, got>>
  BY <1>1 DEF Leave, ControlInv
<1> QED BY <1>5, <1>6, Quiet


\* The pieces that client x sends: numbered on, and not read yet.
LEMMA SendInv ==
    ASSUME LoopInv, NEW x \in Clients, NEW n \in 1..2, Send(x, n)
    PROVE  LoopInv'
<1> DEFINE new == [i \in 1..n |-> Piece(x, sent[x] + i)]
           old == inbox[x]
<1>1. SrvInv(srv, Kernel, 0, Listener) /\ StreamsInv /\ QueueInv /\ ControlInv
  BY DEF LoopInv
<1>2. srv \in SrvType
  BY <1>1 DEF SrvInv
<1>3. /\ sent' = [sent EXCEPT ![x] = @ + n] /\ inbox' = [inbox EXCEPT ![x] = @ \o new]
      /\ UNCHANGED <<got, backlog, pc, batch, draining>>
  BY DEF Send
<1>4. SrvInv(srv', Kernel, 0, Listener)
  <2> DEFINE R == IF srv.fate[x] = "open" THEN srv.ready \cup {x} ELSE srv.ready
  <2>1. /\ srv' = [srv EXCEPT !.ready = R, !.quit = srv.quit]
        /\ R \in SUBSET Clients /\ srv.quit \in BOOLEAN
    BY <1>2 DEF Send, SrvType
  <2>2. \A y \in R : y \in srv.ready \/ srv.fate[y] = "open"
    OBVIOUS
  <2> HIDE DEF R
  <2> QED BY <1>1, <2>1, <2>2, ReadyInv
<1>5. /\ sent \in [Clients -> Nat] /\ inbox \in [Clients -> Seq(Pieces)]
      /\ sent[x] \in Nat /\ old \in Seq(Pieces) /\ Len(old) \in Nat
      /\ Received[x] = sent[x] - Len(old)
      /\ \A i \in 1..Len(old) : old[i] = Piece(x, Received[x] + i)
  <2>1. sent \in [Clients -> Nat] /\ inbox \in [Clients -> Seq(Pieces)]
    BY <1>1 DEF StreamsInv
  <2> QED BY <1>1, <2>1, LenProperties DEF StreamsInv, Received
<1>6. new \in Seq(Pieces) /\ Len(new) = n
  <2>1. ASSUME NEW i \in 1..n PROVE Piece(x, sent[x] + i) \in Pieces
    <3> DEFINE m == (sent[x] + i) - 1
    <3>1. m \in Nat
      BY <1>5
    <3> HIDE DEF m
    <3>2. m \div 2 \in Nat /\ m % 2 \in {0, 1}
      BY <3>1
    <3>3. (m \div 2) + 1 \in Nat
      BY <3>2
    <3> QED BY <3>2, <3>3 DEF Piece, Pieces, m
  <2>2. n \in Nat /\ DOMAIN new = 1..n
    OBVIOUS
  <2>3. new \in [1..n -> Pieces]
    BY <2>1
  <2> HIDE DEF new
  <2>4. new \in Seq(Pieces)
    BY <2>2, <2>3, SeqDef
  <2> QED BY <2>2, <2>4, LenProperties
<1>7. \A i \in 1..n : new[i] = Piece(x, sent[x] + i)
  OBVIOUS
<1> HIDE DEF new
<1>8. /\ old \o new \in Seq(Pieces) /\ Len(old \o new) = Len(old) + n
      /\ \A i \in 1..(Len(old) + n) :
            (old \o new)[i] = IF i <= Len(old) THEN old[i] ELSE new[i - Len(old)]
  <2> HIDE DEF old
  <2> QED BY <1>5, <1>6, ConcatProperties
<1>9. /\ sent' \in [Clients -> Nat] /\ sent'[x] = sent[x] + n
      /\ \A y \in Clients \ {x} : sent'[y] = sent[y]
  BY <1>3, <1>5
<1>10. /\ inbox' \in [Clients -> Seq(Pieces)] /\ inbox'[x] = old \o new
       /\ \A y \in Clients \ {x} : inbox'[y] = inbox[y]
  <2> DEFINE all == old \o new
  <2>1. inbox' = [inbox EXCEPT ![x] = all] /\ inbox \in [Clients -> Seq(Pieces)]
        /\ all \in Seq(Pieces)
    BY <1>3, <1>5, <1>8
  <2> HIDE DEF all
  <2>2. inbox' \in [Clients -> Seq(Pieces)]
    BY <2>1, Zenon
  <2>3. inbox'[x] = all /\ \A y \in Clients \ {x} : inbox'[y] = inbox[y]
    BY <2>1
  <2> QED BY <2>2, <2>3 DEF all
<1>11. Received' = Received
  <2>1. ASSUME NEW y \in Clients PROVE sent'[y] - Len(inbox'[y]) = sent[y] - Len(inbox[y])
    <3>1. CASE y = x
      <4> DEFINE f == sent[x]
                 g == Len(old)
      <4>1. f \in Nat /\ g \in Nat /\ n \in Nat
        BY <1>5
      <4>2. sent'[y] = f + n /\ Len(inbox'[y]) = g + n
        BY <1>8, <1>9, <1>10, <3>1
      <4> HIDE DEF f, g
      <4>3. sent'[y] - Len(inbox'[y]) = f - g
        BY <4>1, <4>2
      <4> QED BY <3>1, <4>3 DEF f, g
    <3>2. CASE y # x
      BY <1>9, <1>10, <3>2
    <3> QED BY <3>1, <3>2
  <2> QED BY <2>1 DEF Received
<1>12. Kernel' = Kernel
  BY <1>3, <1>11 DEF Kernel
<1>13. SrvInv(srv, Kernel, 0, Listener)'
  BY <1>3, <1>4, <1>12, NextInv
<1>14. ASSUME NEW y \in Clients, NEW i \in 1..Len(inbox'[y])
       PROVE  inbox'[y][i] = Piece(y, Received[y] + i)
  <2>1. CASE y # x
    BY <1>1, <1>10, <2>1 DEF StreamsInv
  <2>2. CASE y = x /\ i <= Len(old)
    BY <1>5, <1>8, <1>10, <2>2
  <2>3. CASE y = x /\ i > Len(old)
    <3>1. i \in 1..(Len(old) + n) /\ i - Len(old) \in 1..n
      BY <1>5, <1>8, <1>10, <2>3
    <3>2. inbox'[y][i] = Piece(x, sent[x] + (i - Len(old)))
      BY <1>7, <1>8, <1>10, <2>3, <3>1
    <3>3. sent[x] + (i - Len(old)) = Received[x] + i
      BY <1>5, <3>1
    <3> QED BY <2>3, <3>2, <3>3
  <2>4. i \in Nat
    BY <1>5, <1>8, <1>10
  <2> QED BY <1>5, <2>1, <2>2, <2>3, <2>4
<1>15. StreamsInv'
  BY <1>1, <1>9, <1>10, <1>11, <1>14 DEF StreamsInv
<1>16. QueueInv' /\ ControlInv'
  BY <1>1, <1>3 DEF QueueInv, ControlInv
<1> QED BY <1>13, <1>15, <1>16 DEF LoopInv


\* Clients connect, or are turned away.
LEMMA FateInv ==
    ASSUME NEW v, NEW w, NEW k, NEW l, NEW f \in [Clients -> Fates], SrvInv(v, k, 0, Listener),
           w = [v EXCEPT !.fate = f], l.received = k.received,
           \A x \in Clients :
              \/ f[x] = v.fate[x] /\ (x \in l.waiting => x \in k.waiting)
              \/ /\ v.fate[x] \in {"new", "backlog"} /\ f[x] \in {"backlog", "refused"}
                 /\ x \in l.waiting => f[x] = "backlog"
    PROVE  SrvInv(w, l, 0, Listener)
<1>1. v \in SrvType /\ got \in [Clients -> Seq(Replies)]
  BY DEF SrvInv
<1>2. /\ w.conns = v.conns /\ w.sock = v.sock /\ w.told = v.told /\ w.lost = v.lost
      /\ w.ready = v.ready /\ w.fate = f /\ w \in SrvType
  BY <1>1 DEF SrvType
<1>3. \A x \in Clients : v.fate[x] = "open" => f[x] = "open"
  OBVIOUS
<1>4. ASSUME NEW r \in Slots PROVE SlotInv(w, l, IF r = Listener THEN 0 ELSE 0, r)
  <2>1. SlotInv(v, k, IF r = Listener THEN 0 ELSE 0, r)
    BY DEF SrvInv
  <2>2. v.conns[r].in_use => f[v.conns[r].peer] = v.fate[v.conns[r].peer]
    BY <1>3, <2>1 DEF SlotInv
  <2>3. Alike(v, w, k, l, r)
    BY <1>2, <2>2 DEF Alike
  <2> QED BY <2>1, <2>3, AlikeInv
<1>5. ASSUME NEW y \in Clients PROVE ClientInv(w, l, y)
  <2>1. ClientInv(v, k, y)
    BY DEF SrvInv
  <2>2. CASE f[y] = v.fate[y] /\ (y \in l.waiting => y \in k.waiting)
    <3>1. Unchanged(v, w, k, l, y)
      BY <1>2, <2>2 DEF Unchanged
    <3> QED BY <2>1, <3>1, UnchangedInv
  <2>3. CASE /\ v.fate[y] \in {"new", "backlog"} /\ f[y] \in {"backlog", "refused"}
             /\ y \in l.waiting => f[y] = "backlog"
    <3>1. ~ v.lost[y] /\ y \notin v.ready
      BY <2>1, <2>3 DEF ClientInv, Causes
    <3> QED BY <1>2, <2>1, <2>3, <3>1 DEF ClientInv
  <2> QED BY <2>2, <2>3
<1>6. InUse(w) = InUse(v)
  BY <1>2 DEF InUse
<1>7. /\ \A r, t \in InUse(v) : v.conns[r].peer = v.conns[t].peer => r = t
      /\ Cardinality(InUse(v)) <= MaxClients
  BY DEF SrvInv
<1>8. /\ \A r, t \in InUse(w) : w.conns[r].peer = w.conns[t].peer => r = t
      /\ Cardinality(InUse(w)) <= MaxClients
  BY <1>2, <1>6, <1>7
<1> QED BY <1>1, <1>2, <1>4, <1>5, <1>8 DEF SrvInv

LEMMA ConnectInv ==
    ASSUME LoopInv, NEW x \in Clients, Connect(x)
    PROVE  LoopInv'
<1> DEFINE f == [srv.fate EXCEPT ![x] = "backlog"]
<1>1. SrvInv(srv, Kernel, 0, Listener) /\ StreamsInv /\ QueueInv /\ ControlInv
  BY DEF LoopInv
<1>2. srv \in SrvType
  BY <1>1 DEF SrvInv
<1>3. /\ srv.fate[x] = "new" /\ srv' = [srv EXCEPT !.fate = f] /\ backlog' = Append(backlog, x)
      /\ UNCHANGED <<sent, inbox, got, gone, pc, batch, draining>>
  BY <1>2 DEF Connect, SrvType
<1>4. /\ f \in [Clients -> Fates] /\ f[x] = "backlog"
      /\ \A y \in Clients \ {x} : f[y] = srv.fate[y]
  <2>1. srv.fate \in [Clients -> Fates] /\ "backlog" \in Fates
    BY <1>2 DEF SrvType, Fates
  <2>2. f \in [Clients -> Fates]
    BY <2>1, Zenon
  <2> QED BY <2>1, <2>2
<1> HIDE DEF f
<1>5. Received' = Received
  BY <1>3 DEF Received
<1>6. /\ backlog \in Seq(Clients) /\ Len(backlog) \in Nat
      /\ backlog' \in Seq(Clients) /\ Len(backlog') = Len(backlog) + 1
      /\ \A i \in 1..Len(backlog) : backlog'[i] = backlog[i]
      /\ backlog'[Len(backlog) + 1] = x
  <2>1. backlog \in Seq(Clients)
    BY <1>1 DEF QueueInv
  <2> QED BY <1>3, <2>1, AppendProperties, LenProperties
<1>7. x \notin Kernel.waiting
  <2>1. ClientInv(srv, Kernel, x)
    BY <1>1 DEF SrvInv
  <2> QED BY <1>3, <2>1 DEF ClientInv
<1>8. Kernel'.received = Kernel.received /\ Kernel'.waiting = Kernel.waiting \cup {x}
  <2>1. 1..Len(backlog') = (1..Len(backlog)) \cup {Len(backlog) + 1}
    BY <1>6
  <2> QED BY <1>5, <1>6, <2>1 DEF Kernel
<1>9. SrvInv(srv', Kernel', 0, Listener)
  <2> DEFINE K == Kernel
             L == Kernel'
  <2>1. L.received = K.received /\ L.waiting = K.waiting \cup {x}
    BY <1>8
  <2> HIDE DEF K, L
  <2>2. \A y \in Clients :
              \/ f[y] = srv.fate[y] /\ (y \in L.waiting => y \in K.waiting)
              \/ /\ srv.fate[y] \in {"new", "backlog"} /\ f[y] \in {"backlog", "refused"}
                 /\ y \in L.waiting => f[y] = "backlog"
    BY <1>3, <1>4, <2>1
  <2>3. SrvInv(srv, K, 0, Listener)
    BY <1>1 DEF K
  <2>4. SrvInv(srv', L, 0, Listener)
    BY <1>3, <1>4, <2>1, <2>2, <2>3, FateInv
  <2> QED BY <2>4 DEF L
<1>10. QueueInv'
  <2>1. \A i \in 1..Len(backlog) : backlog[i] # x
    BY <1>7 DEF Kernel
  <2>2. \A i, j \in 1..Len(backlog) : backlog[i] = backlog[j] => i = j
    BY <1>1 DEF QueueInv
  <2>3. \A i \in 1..Len(backlog') : i \in 1..Len(backlog) \/ i = Len(backlog) + 1
    BY <1>6
  <2> QED BY <1>6, <2>1, <2>2, <2>3 DEF QueueInv
<1>11. SrvInv(srv, Kernel, 0, Listener)'
  BY <1>3, <1>9, NextInv
<1>12. StreamsInv' /\ ControlInv'
  BY <1>1, <1>3, <1>5 DEF StreamsInv, ControlInv
<1> QED BY <1>10, <1>11, <1>12 DEF LoopInv

LEMMA EmptyQueue ==
    ASSUME backlog' = <<>>
    PROVE  QueueInv' /\ Kernel'.waiting = {}
<1>1. backlog' \in Seq(Clients) /\ Len(backlog') = 0 /\ 1..0 = {}
  OBVIOUS
<1> QED BY <1>1 DEF QueueInv, Kernel

LEMMA StopAcceptingInv ==
    ASSUME LoopInv, StopAccepting
    PROVE  LoopInv'
<1> DEFINE f == [x \in Clients |->
                   IF srv.fate[x] \in {"new", "backlog"} THEN "refused" ELSE srv.fate[x]]
<1>1. SrvInv(srv, Kernel, 0, Listener) /\ StreamsInv /\ QueueInv /\ ControlInv
  BY DEF LoopInv
<1>2. srv \in SrvType
  BY <1>1 DEF SrvInv
<1>3. /\ srv' = [srv EXCEPT !.fate = f] /\ backlog' = <<>> /\ draining' = TRUE /\ pc' = "drain"
      /\ UNCHANGED <<sent, inbox, got, gone, batch>>
  BY DEF StopAccepting
<1>4. f \in [Clients -> Fates]
  BY <1>2 DEF SrvType, Fates, Reasons
<1>5. \A x \in Clients : \/ f[x] = srv.fate[x]
                         \/ srv.fate[x] \in {"new", "backlog"} /\ f[x] = "refused"
  OBVIOUS
<1> HIDE DEF f
<1>6. Received' = Received
  BY <1>3 DEF Received
<1>7. QueueInv' /\ Kernel'.waiting = {} /\ Kernel'.received = Kernel.received
  BY <1>3, <1>6, EmptyQueue DEF Kernel
<1>8. SrvInv(srv', Kernel', 0, Listener)
  <2> DEFINE K == Kernel
             L == Kernel'
  <2>1. L.received = K.received /\ L.waiting = {}
    BY <1>7
  <2> HIDE DEF K, L
  <2>2. \A y \in Clients :
              \/ f[y] = srv.fate[y] /\ (y \in L.waiting => y \in K.waiting)
              \/ /\ srv.fate[y] \in {"new", "backlog"} /\ f[y] \in {"backlog", "refused"}
                 /\ y \in L.waiting => f[y] = "backlog"
    BY <1>5, <2>1
  <2>3. SrvInv(srv, K, 0, Listener)
    BY <1>1 DEF K
  <2>4. SrvInv(srv', L, 0, Listener)
    BY <1>3, <1>4, <2>1, <2>2, <2>3, FateInv
  <2> QED BY <2>4 DEF L
<1>9. SrvInv(srv, Kernel, 0, Listener)'
  BY <1>3, <1>8, NextInv
<1>10. StreamsInv' /\ ControlInv'
  BY <1>1, <1>3, <1>6 DEF StreamsInv, ControlInv
<1> QED BY <1>7, <1>9, <1>10 DEF LoopInv


LEMMA HeadMoves ==
    ASSUME NEW g \in Seq(Replies), NEW so \in Seq(Replies), so # <<>>
    PROVE  /\ Append(g, Head(so)) \in Seq(Replies) /\ Tail(so) \in Seq(Replies)
           /\ Append(g, Head(so)) \o Tail(so) = g \o so
           /\ Len(Tail(so)) <= Len(so)
<1>1. Head(so) \in Replies /\ Tail(so) \in Seq(Replies) /\ Len(so) \in Nat
      /\ Len(Tail(so)) = Len(so) - 1
  BY HeadTailProperties, LenProperties
<1>2. <<Head(so)>> \in Seq(Replies) /\ <<Head(so)>> \o Tail(so) = so
  BY <1>1
<1>3. Append(g, Head(so)) = g \o <<Head(so)>>
  BY <1>1, AppendIsConcat
<1>4. (g \o <<Head(so)>>) \o Tail(so) = g \o (<<Head(so)>> \o Tail(so))
  BY <1>1, <1>2, Associative
<1> QED BY <1>1, <1>2, <1>3, <1>4, AppendProperties

LEMMA ClientReadsInv ==
    ASSUME LoopInv, NEW x \in Clients, ClientReads(x)
    PROVE  LoopInv'
<1> DEFINE R == IF \E s \in Slots : srv.conns[s].peer = x /\ srv.conns[s].want_write
                THEN srv.ready \cup {x} ELSE srv.ready
           h == Append(got[x], Head(srv.sock[x]))
           q == Tail(srv.sock[x])
<1>1. SrvInv(srv, Kernel, 0, Listener) /\ StreamsInv /\ QueueInv /\ ControlInv
  BY DEF LoopInv
<1>2. /\ srv \in SrvType /\ got \in [Clients -> Seq(Replies)]
      /\ \A r \in Slots : SlotInv(srv, Kernel, IF r = Listener THEN 0 ELSE 0, r)
      /\ \A y \in Clients : ClientInv(srv, Kernel, y)
      /\ \A r, t \in InUse(srv) : srv.conns[r].peer = srv.conns[t].peer => r = t
      /\ Cardinality(InUse(srv)) <= MaxClients
  BY <1>1 DEF SrvInv
<1>3. /\ srv.sock[x] # <<>> /\ got' = [got EXCEPT ![x] = h]
      /\ srv' = [srv EXCEPT !.sock[x] = q, !.ready = R]
      /\ UNCHANGED <<sent, inbox, gone, backlog, pc, batch, draining>>
  BY DEF ClientReads
<1>4. /\ got[x] \in Seq(Replies) /\ srv.sock[x] \in Seq(Replies)
      /\ srv.sock \in [Clients -> Seq(Replies)] /\ srv.ready \in SUBSET Clients
  BY <1>2 DEF SrvType
<1>5. /\ h \in Seq(Replies) /\ q \in Seq(Replies) /\ h \o q = got[x] \o srv.sock[x]
      /\ Len(q) <= Len(srv.sock[x]) /\ Len(q) \in Nat /\ Len(srv.sock[x]) \in Nat
  <2> DEFINE f == srv.sock[x]
             g == got[x]
  <2>1. f \in Seq(Replies) /\ g \in Seq(Replies) /\ f # <<>>
    BY <1>3, <1>4
  <2> HIDE DEF f, g
  <2>2. /\ Append(g, Head(f)) \in Seq(Replies) /\ Tail(f) \in Seq(Replies)
        /\ Append(g, Head(f)) \o Tail(f) = g \o f
        /\ Len(Tail(f)) <= Len(f)
    BY <2>1, HeadMoves
  <2>3. Len(Tail(f)) \in Nat /\ Len(f) \in Nat
    BY <2>1, <2>2, LenProperties
  <2> QED BY <2>2, <2>3 DEF f, g
<1>6. R \in SUBSET Clients
  BY <1>4
<1>7. \A y \in R : y \in srv.ready \/ y = x
  OBVIOUS
<1> HIDE DEF R, h, q
<1>8. /\ srv'.conns = srv.conns /\ srv'.told = srv.told /\ srv'.fate = srv.fate
      /\ srv'.lost = srv.lost /\ srv'.quit = srv.quit /\ srv'.ready = R
      /\ srv'.sock = [srv.sock EXCEPT ![x] = q]
      /\ srv' = [conns |-> srv'.conns, sock |-> srv'.sock, ready |-> srv'.ready,
                 quit |-> srv'.quit, told |-> srv'.told, fate |-> srv'.fate,
                 lost |-> srv'.lost]
  BY <1>2, <1>3 DEF SrvType
<1>9. /\ srv'.sock \in [Clients -> Seq(Replies)] /\ srv'.sock[x] = q
      /\ \A y \in Clients \ {x} : srv'.sock[y] = srv.sock[y]
  <2>1. srv'.sock \in [Clients -> Seq(Replies)]
    BY <1>4, <1>5, <1>8, Zenon
  <2> QED BY <1>4, <1>8, <2>1
<1>10. /\ got' \in [Clients -> Seq(Replies)] /\ got'[x] = h
       /\ \A y \in Clients \ {x} : got'[y] = got[y]
  <2>1. got' \in [Clients -> Seq(Replies)]
    BY <1>2, <1>3, <1>5, Zenon
  <2> QED BY <1>2, <1>3, <2>1
<1>11. srv' \in SrvType
  BY <1>2, <1>6, <1>8, <1>9 DEF SrvType
<1>12. ASSUME NEW y \in Clients
       PROVE  /\ got'[y] \o srv'.sock[y] = got[y] \o srv.sock[y]
              /\ Len(srv.sock[y]) <= Cap => Len(srv'.sock[y]) <= Cap
  <2>1. Cap \in Nat
    BY LoopAssumption
  <2>2. CASE y = x
    <3>1. srv'.sock[y] = q /\ got'[y] = h
      BY <1>9, <1>10, <2>2
    <3>2. Len(srv.sock[x]) <= Cap => Len(q) <= Cap
      <4> DEFINE m == Len(srv.sock[x])
                 n == Len(q)
      <4>1. m \in Nat /\ n \in Nat /\ n <= m
        BY <1>5
      <4> HIDE DEF m, n
      <4>2. m <= Cap => n <= Cap
        BY <2>1, <4>1
      <4> QED BY <4>2 DEF m, n
    <3> QED BY <1>5, <2>2, <3>1, <3>2
  <2>3. CASE y # x
    BY <1>9, <1>10, <2>3
  <2> QED BY <2>2, <2>3
<1>13. Received' = Received /\ Kernel' = Kernel
  BY <1>3 DEF Kernel, Received
<1>14. ASSUME NEW r \in Slots PROVE SlotInv(srv, Kernel, 0, r)'
  <2>1. SlotInv(srv, Kernel, 0, r)
    <3>1. (IF r = Listener THEN 0 ELSE 0) = 0
      OBVIOUS
    <3> QED BY <1>2, <3>1
  <2>2. CASE srv.conns[r].in_use
    <3> DEFINE y == srv.conns[r].peer
    <3>1. y \in Clients
      BY <2>1, <2>2 DEF SlotInv
    <3>2. got'[y] \o srv'.sock[y] = got[y] \o srv.sock[y]
      BY <1>12, <3>1
    <3> QED BY <1>8, <1>13, <2>1, <2>2, <3>2 DEF SlotInv
  <2>3. CASE ~ srv.conns[r].in_use
    BY <1>8, <2>1, <2>3 DEF SlotInv
  <2> QED BY <2>2, <2>3
<1>15. ASSUME NEW y \in Clients PROVE ClientInv(srv, Kernel, y)'
  <2>1. ClientInv(srv, Kernel, y)
    BY <1>2
  <2>2. /\ got'[y] \o srv'.sock[y] = got[y] \o srv.sock[y]
        /\ Len(srv.sock[y]) <= Cap => Len(srv'.sock[y]) <= Cap
    BY <1>12
  <2>3. CASE y = x
    <3>1. srv.fate[y] \notin {"new", "backlog"}
      BY <1>3, <2>1, <2>3 DEF ClientInv
    <3>2. y \in R => srv.fate[y] = "open"
      <4> HAVE y \in R
      <4>1. CASE y \in srv.ready
        BY <2>1, <4>1 DEF ClientInv
      <4>2. CASE y \notin srv.ready
        <5>1. \E s \in Slots : srv.conns[s].peer = x /\ srv.conns[s].want_write
          BY <2>3, <4>2 DEF R
        <5>2. PICK s \in Slots : srv.conns[s].peer = x /\ srv.conns[s].want_write
          BY <5>1
        <5>3. SlotInv(srv, Kernel, IF s = Listener THEN 0 ELSE 0, s)
          BY <1>2
        <5>4. srv.conns[s].in_use
          <6>1. ~ srv.conns[s].in_use => srv.conns[s] = FreeConn
            BY <5>3 DEF SlotInv
          <6>2. ~ FreeConn.want_write
            BY DEF FreeConn
          <6> QED BY <5>2, <6>1, <6>2
        <5> QED BY <2>3, <5>2, <5>3, <5>4 DEF SlotInv
      <4> QED BY <4>1, <4>2
    <3> QED BY <1>8, <1>13, <2>1, <2>2, <3>1, <3>2 DEF ClientInv
  <2>4. CASE y # x
    <3>1. /\ got'[y] = got[y] /\ srv'.sock[y] = srv.sock[y]
          /\ y \in srv'.ready => y \in srv.ready
      BY <1>7, <1>8, <1>9, <1>10, <2>4
    <3> QED BY <1>8, <1>13, <2>1, <3>1 DEF ClientInv
  <2> QED BY <2>3, <2>4
<1>16. SrvInv(srv, Kernel, 0, Listener)'
  <2>1. \A r \in Slots : SlotInv(srv, Kernel, IF r = Listener THEN 0 ELSE 0, r)'
    BY <1>14
  <2>2. InUse(srv)' = InUse(srv)
    BY <1>8 DEF InUse
  <2> QED BY <1>2, <1>8, <1>10, <1>11, <1>15, <2>1, <2>2 DEF SrvInv
<1>17. StreamsInv' /\ QueueInv' /\ ControlInv'
  BY <1>1, <1>3, <1>13 DEF StreamsInv, QueueInv, ControlInv
<1> QED BY <1>16, <1>17 DEF LoopInv

\* One event of the batch.
LEMMA HandleEventInv ==
    ASSUME LoopInv, NEW e \in batch, HandleEvent(e)
    PROVE  LoopInv'
<1> DEFINE s == e.slot
           x == srv.conns[s].peer
<1>1. SrvInv(srv, Kernel, 0, Listener) /\ StreamsInv /\ QueueInv /\ ControlInv
  BY DEF LoopInv
<1>2. s \in Slots \cup {Listener} /\ (s # Listener => s \in Slots)
  BY <1>1 DEF ControlInv
<1>3. /\ batch' \subseteq batch /\ pc' \in {"batch", "drain", "top"}
      /\ UNCHANGED <<sent, got, gone, draining, faults>>
      /\ HandleAccept(e) \/ HandleClosed(e) \/ HandleRead(e) \/ HandleWrite(e)
  BY DEF HandleEvent
<1>4. ControlInv'
  BY <1>1, <1>3 DEF ControlInv
<1>5. CASE HandleAccept(e)
  <2>1. CASE srv.quit
    <3>1. UNCHANGED <<srv, backlog, inbox>>
      BY <1>5, <2>1 DEF HandleAccept
    <3>2. SrvInv(srv', Kernel, 0, Listener)
      BY <1>1, <3>1
    <3> QED BY <1>3, <1>4, <3>1, <3>2, Quiet
  <2>2. CASE ~ srv.quit
    <3>1. srv' = AcceptAll(srv, backlog) /\ backlog' = <<>> /\ inbox' = inbox
      BY <1>5, <2>2 DEF HandleAccept, AcceptAll
    <3>2. Received' = Received
      BY <1>3, <3>1 DEF Received
    <3>3. QueueInv' /\ Kernel' = [received |-> Received, waiting |-> {}]
      BY <3>1, <3>2, EmptyQueue DEF Kernel
    <3>4. SrvInv(srv', [received |-> Received, waiting |-> {}], 0, Listener)
      <4>1. /\ backlog \in Seq(Clients)
            /\ \A i, j \in 1..Len(backlog) : backlog[i] = backlog[j] => i = j
        BY <1>1 DEF QueueInv
      <4>2. SrvInv(srv, [received |-> Received, waiting |-> {backlog[i] : i \in 1..Len(backlog)}],
                   0, Listener)
        BY <1>1 DEF Kernel
      <4> QED BY <3>1, <4>1, <4>2, AcceptAllInv
    <3>5. SrvInv(srv', Kernel', 0, Listener)
      BY <3>3, <3>4
    <3>6. SrvInv(srv, Kernel, 0, Listener)'
      BY <1>3, <3>5, NextInv
    <3>7. StreamsInv'
      BY <1>1, <1>3, <3>1, <3>2 DEF StreamsInv
    <3> QED BY <1>4, <3>3, <3>6, <3>7 DEF LoopInv
  <2> QED BY <2>1, <2>2
<1>6. CASE HandleClosed(e)
  <2>1. s \in Slots /\ srv' = ConnClose(srv, s, "err") /\ UNCHANGED <<inbox, backlog>>
    BY <1>2, <1>6 DEF HandleClosed
  <2> HIDE DEF s
  <2>2. "err" \in Causes
    BY DEF Causes
  <2>3. SrvInv(srv', Kernel, 0, Listener)
    BY <1>1, <2>1, <2>2, CutOffInv
  <2> QED BY <1>3, <1>4, <2>1, <2>3, Quiet
<1>7. CASE HandleWrite(e)
  <2>1. /\ s \in Slots /\ srv.conns[s].in_use /\ UNCHANGED <<inbox, backlog>>
        /\ srv' = srv \/ srv' = FlushOrClose(srv, s)
    BY <1>2, <1>7 DEF HandleWrite
  <2> HIDE DEF s
  <2>2. Still(srv, FlushOrClose(srv, s), Kernel, 0, Listener, s)
    BY <1>1, <2>1, FlushOrCloseInv
  <2>3. SrvInv(srv', Kernel, 0, Listener)
    BY <1>1, <2>1, <2>2 DEF Still
  <2> QED BY <1>3, <1>4, <2>1, <2>3, Quiet
<1>8. CASE HandleRead(e) /\ gone[x] # "no"
  <2> DEFINE why == IF gone[x] = "fin" THEN "eof" ELSE "err"
  <2>1. s \in Slots /\ srv' = ConnClose(srv, s, why) /\ UNCHANGED <<inbox, backlog>>
    BY <1>2, <1>8 DEF HandleRead
  <2>2. why \in Causes
    BY DEF Causes
  <2> HIDE DEF s, why
  <2>3. SrvInv(srv', Kernel, 0, Listener)
    BY <1>1, <2>1, <2>2, CutOffInv
  <2> QED BY <1>3, <1>4, <2>1, <2>3, Quiet
<1>9. CASE HandleRead(e) /\ gone[x] = "no"
  <2> DEFINE more == inbox[x]
             v == [srv EXCEPT !.conns[s].rbuf = @ \o more]
  <2>1. /\ s \in Slots /\ srv.conns[s].in_use /\ srv' = ProcessReads(v, s)
        /\ inbox' = [inbox EXCEPT ![x] = <<>>] /\ backlog' = backlog
    BY <1>2, <1>9 DEF HandleRead
  <2>2. x \in Clients
    BY <1>1, <2>1, SlotBetween
  <2>3. /\ more \in Seq(Pieces) /\ inbox \in [Clients -> Seq(Pieces)] /\ Len(more) \in Nat
        /\ sent \in [Clients -> Nat] /\ Received \in [Clients -> Nat]
        /\ \A i \in 1..Len(more) : more[i] = Piece(x, Received[x] + i)
    <3>1. inbox \in [Clients -> Seq(Pieces)]
      BY <1>1 DEF StreamsInv
    <3> QED BY <1>1, <2>2, <3>1, LenProperties DEF StreamsInv
  <2>4. /\ inbox' \in [Clients -> Seq(Pieces)] /\ inbox'[x] = <<>> /\ Len(inbox'[x]) = 0
        /\ \A y \in Clients \ {x} : inbox'[y] = inbox[y]
    <3>1. inbox' = [inbox EXCEPT ![x] = <<>>] /\ <<>> \in Seq(Pieces)
      BY <2>1
    <3>2. inbox' \in [Clients -> Seq(Pieces)]
      BY <2>3, <3>1, Zenon
    <3>3. Len(<<>>) = 0
      OBVIOUS
    <3> QED BY <2>2, <2>3, <3>1, <3>2, <3>3
  <2> HIDE DEF s, x
  <2>5. Received' = [Received EXCEPT ![x] = @ + Len(more)] /\ Received' \in [Clients -> Nat]
    <3> DEFINE f == [Received EXCEPT ![x] = @ + Len(more)]
    <3>1. ASSUME NEW y \in Clients PROVE sent[y] - Len(inbox'[y]) = f[y] /\ f[y] \in Nat
      <4>1. CASE y = x
        <5> DEFINE m == Len(more)
        <5>1. f[y] = Received[x] + m /\ Received[x] = sent[x] - m
          BY <2>2, <2>3, <4>1 DEF Received
        <5>2. m \in Nat /\ sent[x] \in Nat /\ sent[x] - m \in Nat
          BY <2>2, <2>3, <5>1
        <5> HIDE DEF m, f
        <5>3. f[y] = sent[x]
          BY <5>1, <5>2
        <5> QED BY <2>4, <4>1, <5>2, <5>3
      <4>2. CASE y # x
        <5>1. f[y] = Received[y] /\ Received[y] = sent[y] - Len(inbox[y])
          BY <2>3, <4>2 DEF Received
        <5> QED BY <2>3, <2>4, <4>2, <5>1
      <4> QED BY <4>1, <4>2
    <3>2. f = [y \in Clients |-> f[y]]
      BY <2>3
    <3>3. Received' = [y \in Clients |-> sent[y] - Len(inbox'[y])]
      BY <1>3 DEF Received
    <3> HIDE DEF f
    <3>4. Received' = f
      BY <3>1, <3>2, <3>3
    <3> QED BY <3>1, <3>2, <3>4 DEF f
  <2>6. Arrive(srv, v, Kernel, Kernel', s, x, more)
    <3>1. /\ Kernel.received = Received /\ Kernel'.received = Received'
          /\ Kernel.waiting = Kernel'.waiting
      BY <2>1 DEF Kernel
    <3> QED BY <2>3, <2>5, <3>1 DEF Arrive
  <2>7. SrvInv(v, Kernel', 0, Listener) /\ v.conns[s].in_use
    <3>1. x = srv.conns[s].peer
      BY DEF x
    <3> DEFINE L == Kernel'
    <3>2. Arrive(srv, v, Kernel, L, s, x, more)
      BY <2>6
    <3> HIDE DEF v, more, L
    <3>3. SrvInv(v, L, 0, Listener) /\ v.conns[s].in_use
      BY <1>1, <2>1, <2>3, <3>1, <3>2, ReceiveInv
    <3> QED BY <3>3 DEF L
  <2>8. SrvInv(srv', Kernel', 0, Listener)
    <3> DEFINE L == Kernel'
    <3>1. L.received \in [Clients -> Nat]
      BY <2>5 DEF Kernel
    <3>2. SrvInv(v, L, 0, Listener) /\ v.conns[s].in_use
      BY <2>7
    <3> HIDE DEF v, L
    <3>3. SrvInv(ProcessReads(v, s), L, 0, Listener)
      BY <2>1, <3>1, <3>2, ProcessReadsInv
    <3> QED BY <2>1, <3>3 DEF L
  <2>9. SrvInv(srv, Kernel, 0, Listener)'
    BY <1>3, <2>8, NextInv
  <2>10. StreamsInv'
    <3>1. ASSUME NEW y \in Clients, NEW i \in 1..Len(inbox'[y])
          PROVE  inbox'[y][i] = Piece(y, Received'[y] + i)
      <4>1. y # x
        BY <2>4
      <4>2. Received'[y] = Received[y]
        BY <2>3, <2>5, <4>1
      <4> QED BY <1>1, <2>4, <4>1, <4>2 DEF StreamsInv
    <3> QED BY <1>3, <2>3, <2>4, <2>5, <3>1 DEF StreamsInv
  <2>11. QueueInv'
    BY <1>1, <2>1 DEF QueueInv
  <2> QED BY <1>4, <2>9, <2>10, <2>11 DEF LoopInv
<1> QED BY <1>3, <1>5, <1>6, <1>7, <1>8, <1>9


-----------------------------------------------------------------------------
(* The invariant holds, and the properties follow from it.                 *)

LEMMA LoopInit == LInit => LoopInv
<1> SUFFICES ASSUME LInit PROVE LoopInv
  OBVIOUS
<1>1. /\ srv = [conns |-> [s \in Slots |-> FreeConn],
                sock |-> [x \in Clients |-> <<>>], ready |-> {}, quit |-> FALSE,
                told |-> [x \in Clients |-> <<>>],
                fate |-> [x \in Clients |-> "new"],
                lost |-> [x \in Clients |-> FALSE]]
      /\ sent = [x \in Clients |-> 0] /\ inbox = [x \in Clients |-> <<>>]
      /\ got = [x \in Clients |-> <<>>]
      /\ backlog = <<>> /\ pc = "top" /\ batch = {} /\ draining = FALSE
  BY DEF LInit
<1>2. /\ Len(<<>>) = 0 /\ <<>> \in Seq(Replies) /\ <<>> \in Seq(Pieces) /\ <<>> \in Seq(Clients)
      /\ Messages(<<>>) /\ \A x : InOrder(x, <<>>) /\ IsPrefix(<<>> \o <<>>, <<>>)
      /\ Cap \in Nat /\ MaxClients \in Nat
  BY EmptyHistory, LoopAssumption
<1>3. FreeConn \in ConnType /\ ~ FreeConn.in_use
  BY <1>2 DEF FreeConn, ConnType
<1>4. srv \in SrvType
  <2>1. "new" \in Fates
    BY DEF Fates
  <2> QED BY <1>1, <1>2, <1>3, <2>1 DEF SrvType
<1>5. Received = [x \in Clients |-> 0]
  BY <1>1, <1>2 DEF Received
<1>6. ControlInv
  BY <1>1 DEF ControlInv
<1>7. QueueInv
  BY <1>1, <1>2 DEF QueueInv
<1>8. StreamsInv
  BY <1>1, <1>2, <1>5 DEF StreamsInv
<1>9. Kernel.waiting = {} /\ Kernel.received = Received
  BY <1>1, <1>2 DEF Kernel
<1>10. ASSUME NEW r \in Slots PROVE SlotInv(srv, Kernel, IF r = Listener THEN 0 ELSE 0, r)
  BY <1>1, <1>3 DEF SlotInv
<1>11. ASSUME NEW x \in Clients PROVE ClientInv(srv, Kernel, x)
  <2>1. Kernel.received[x] = 0
    BY <1>5, <1>9
  <2> HIDE DEF Kernel
  <2> QED BY <1>1, <1>2, <1>9, <2>1 DEF ClientInv
<1>12. InUse(srv) = {}
  BY <1>1, <1>3 DEF InUse
<1>13. Cardinality(InUse(srv)) <= MaxClients
  BY <1>2, <1>12, FS_EmptySet
<1>14. got \in [Clients -> Seq(Replies)]
  BY <1>1, <1>2
<1>15. SrvInv(srv, Kernel, 0, Listener)
  BY <1>4, <1>10, <1>11, <1>12, <1>13, <1>14 DEF SrvInv
<1> QED BY <1>6, <1>7, <1>8, <1>15 DEF LoopInv

LEMMA LoopStutter ==
    ASSUME LoopInv, UNCHANGED lvars
    PROVE  LoopInv'
<1>1. SrvInv(srv, Kernel, 0, Listener) /\ ControlInv /\ srv' = srv
      /\ UNCHANGED <<sent, inbox, backlog, got, batch, pc, draining>>
  BY DEF LoopInv, lvars
<1>2. ControlInv'
  BY <1>1 DEF ControlInv
<1>3. SrvInv(srv', Kernel, 0, Listener)
  BY <1>1
<1> QED BY <1>1, <1>2, <1>3, Quiet

\* Between two steps of the loop every slot is blank or continues the streams of
\* its client, whatever the clients, the kernel and signals do.
THEOREM LoopInvariant == LSpec => []LoopInv
<1>1. LInit => LoopInv
  BY LoopInit
<1>2. LoopInv /\ [LNext]_lvars => LoopInv'
  <2> SUFFICES ASSUME LoopInv, [LNext]_lvars PROVE LoopInv'
    OBVIOUS
  <2>1. CASE EpollWait
    BY <2>1, EpollWaitInv
  <2>2. CASE \E e \in batch : HandleEvent(e)
    BY <2>2, HandleEventInv
  <2>3. CASE StopAccepting
    BY <2>3, StopAcceptingInv
  <2>4. CASE DrainPass
    BY <2>4, DrainPassInv
  <2>5. CASE DrainDeadline
    BY <2>5, DrainDeadlineInv
  <2>6. CASE \E s \in Slots : CloseIdle(s)
    BY <2>6, CloseIdleInv
  <2>7. ASSUME NEW x \in Clients, Connect(x) PROVE LoopInv'
    BY <2>7, ConnectInv
  <2>8. ASSUME NEW x \in Clients, ClientReads(x) PROVE LoopInv'
    BY <2>8, ClientReadsInv
  <2>9. ASSUME NEW x \in Clients, NEW n \in 1..2, Send(x, n) PROVE LoopInv'
    BY <2>9, SendInv
  <2>10. ASSUME NEW x \in Clients, NEW how \in {"fin", "rst"}, Leave(x, how) PROVE LoopInv'
    BY <2>10, LeaveInv
  <2>11. CASE Signal
    BY <2>11, SignalInv
  <2>12. CASE UNCHANGED lvars
    BY <2>12, LoopStutter
  <2> QED
    BY <2>1, <2>2, <2>3, <2>4, <2>5, <2>6, <2>7, <2>8, <2>9, <2>10, <2>11, <2>12
    DEF LNext, LoopStep
<1> QED BY <1>1, <1>2, PTL DEF LSpec

LEMMA ClientFacts ==
    ASSUME LoopInv, NEW x \in Clients
    PROVE  /\ srv \in SrvType /\ ClientInv(srv, Kernel, x)
           /\ srv.told[x] \in Seq(Replies) /\ DOMAIN srv.told[x] = 1..Len(srv.told[x])
           /\ Len(srv.told[x]) \in Nat
<1>1. srv \in SrvType /\ ClientInv(srv, Kernel, x)
  BY DEF LoopInv, SrvInv
<1>2. srv.told[x] \in Seq(Replies)
  BY <1>1 DEF SrvType
<1> QED BY <1>1, <1>2, LenProperties

\* The slots of an open connection are one.
LEMMA OneSlot ==
    ASSUME LoopInv, NEW x \in Clients
    PROVE  LET own == {s \in Slots : srv.conns[s].in_use /\ srv.conns[s].peer = x}
           IN  /\ srv.fate[x] = "open" => own = {Min(own)} /\ Min(own) \in Slots
               /\ srv.fate[x] # "open" => own = {}
<1> DEFINE own == {s \in Slots : srv.conns[s].in_use /\ srv.conns[s].peer = x}
<1>1. SrvInv(srv, Kernel, 0, Listener) /\ ClientInv(srv, Kernel, x)
  BY ClientFacts DEF LoopInv
<1>2. ASSUME srv.fate[x] = "open" PROVE own = {Min(own)} /\ Min(own) \in Slots
  <2>1. own # {}
    BY <1>1, <1>2 DEF ClientInv
  <2>2. NSlots \in Nat /\ own \in SUBSET (1..NSlots)
    BY LoopAssumption DEF Slots
  <2>3. \A r, t \in own : r = t
    <3>1. \A r, t \in InUse(srv) : srv.conns[r].peer = srv.conns[t].peer => r = t
      BY <1>1 DEF SrvInv
    <3> QED BY <3>1 DEF InUse
  <2>4. own \subseteq Slots
    OBVIOUS
  <2> HIDE DEF own
  <2>5. Min(own) \in own
    BY <2>1, <2>2, MinOfPart
  <2> QED BY <2>3, <2>4, <2>5
<1>3. ASSUME srv.fate[x] # "open" PROVE own = {}
  <2>1. ASSUME NEW s \in own PROVE FALSE
    <3>1. s \in Slots /\ srv.conns[s].in_use /\ x = srv.conns[s].peer
      OBVIOUS
    <3>2. srv.fate[x] = "open"
      BY <1>1, <3>1, SlotBetween
    <3> QED BY <1>3, <3>2
  <2> QED BY <2>1
<1> HIDE DEF own
<1>4. /\ srv.fate[x] = "open" => own = {Min(own)} /\ Min(own) \in Slots
      /\ srv.fate[x] # "open" => own = {}
  BY <1>2, <1>3
<1> QED BY <1>4 DEF own

\* The state is well typed: a slot that is in use belongs to one open connection,
\* no other slot does, and no more slots are in use than maxclients.
THEOREM SlotsWellTyped == LSpec => []LTypeOK
<1>1. LoopInv => LTypeOK
  <2> SUFFICES ASSUME LoopInv PROVE LTypeOK
    OBVIOUS
  <2>1. SrvInv(srv, Kernel, 0, Listener) /\ ControlInv
    BY DEF LoopInv
  <2>2. srv \in SrvType /\ Cardinality(InUse(srv)) <= MaxClients
    BY <2>1 DEF SrvInv
  <2>3. srv.fate \in [Clients -> Fates] /\ srv.quit \in BOOLEAN
    BY <2>2 DEF SrvType
  <2>4. \A x \in Clients : Len(srv.sock[x]) <= Cap
    BY ClientFacts DEF ClientInv
  <2>5. ASSUME NEW x \in Clients
        PROVE  srv.fate[x] = "open" <=>
                  Cardinality({s \in Slots : srv.conns[s].in_use /\ srv.conns[s].peer = x}) = 1
    <3> DEFINE own == {s \in Slots : srv.conns[s].in_use /\ srv.conns[s].peer = x}
    <3>1. /\ srv.fate[x] = "open" => own = {Min(own)} /\ Min(own) \in Slots
          /\ srv.fate[x] # "open" => own = {}
      BY OneSlot
    <3> HIDE DEF own
    <3>2. srv.fate[x] = "open" => Cardinality(own) = 1
      BY <3>1, FS_Singleton
    <3>3. srv.fate[x] # "open" => Cardinality(own) = 0
      BY <3>1, FS_EmptySet
    <3>4. srv.fate[x] = "open" <=> Cardinality(own) = 1
      BY <3>2, <3>3
    <3> QED BY <3>4 DEF own
  <2>6. \A s \in Slots : ~ srv.conns[s].in_use => srv.conns[s] = FreeConn
    <3> TAKE s \in Slots
    <3>1. SlotInv(srv, Kernel, IF s = Listener THEN 0 ELSE 0, s)
      BY <2>1 DEF SrvInv
    <3> QED BY <3>1 DEF SlotInv
  <2> QED BY <2>1, <2>2, <2>3, <2>4, <2>5, <2>6 DEF LTypeOK, ControlInv, Fates, InUse
<1> QED BY <1>1, LoopInvariant, PTL

\* Each client reads what it was told, whole and in order: flush_writes,
\* publish_local and the reuse of slots neither lose, repeat nor misdirect a
\* reply of a connection that is open.
THEOREM StreamsIntact == LSpec => []StreamIntact
<1>1. LoopInv => StreamIntact
  <2> SUFFICES ASSUME LoopInv, NEW x \in Clients
               PROVE  /\ IsPrefix(got[x] \o srv.sock[x], srv.told[x])
                      /\ srv.fate[x] = "open" =>
                            (got[x] \o srv.sock[x]) \o Held(x) = srv.told[x]
    BY DEF StreamIntact
  <2>1. IsPrefix(got[x] \o srv.sock[x], srv.told[x])
    BY ClientFacts DEF ClientInv
  <2>2. ASSUME srv.fate[x] = "open"
        PROVE  (got[x] \o srv.sock[x]) \o Held(x) = srv.told[x]
    <3> DEFINE own == {s \in Slots : srv.conns[s].in_use /\ srv.conns[s].peer = x}
               s == Min(own)
    <3>1. own = {s} /\ s \in Slots
      BY <2>2, OneSlot
    <3>2. Held(x) = srv.conns[s].wbuf
      <4>1. own # {}
        BY <3>1
      <4> QED BY <4>1 DEF Held
    <3>3. srv.conns[s].in_use /\ srv.conns[s].peer = x
      <4>1. s \in own
        BY <3>1
      <4> HIDE DEF s
      <4> QED BY <4>1
    <3> HIDE DEF s, own
    <3>4. SlotInv(srv, Kernel, IF s = Listener THEN 0 ELSE 0, s)
      BY <3>1 DEF LoopInv, SrvInv
    <3>5. (got[x] \o srv.sock[x]) \o srv.conns[s].wbuf = srv.told[x]
      BY <3>3, <3>4 DEF SlotInv
    <3> QED BY <3>2, <3>5
  <2> QED BY <2>1, <2>2
<1> QED BY <1>1, LoopInvariant, PTL

\* publish_local delivers to a connection only between the replies to its
\* SUBSCRIBE and its UNSUBSCRIBE, whoever had the slot before.
THEOREM MessagesToSubscribers == LSpec => []MessagesWhileSubscribed
<1>1. LoopInv => MessagesWhileSubscribed
  BY ClientFacts DEF ClientInv, Messages, MessagesWhileSubscribed
<1> QED BY <1>1, LoopInvariant, PTL

\* process_reads executes the commands of a connection in the order sent, each
\* once and without a gap, however their bytes are cut.
THEOREM CommandsInOrder == LSpec => []AnsweredInOrder
<1>1. LoopInv => AnsweredInOrder
  <2>1. LoopInv => MessagesWhileSubscribed
    BY ClientFacts DEF ClientInv, Messages, MessagesWhileSubscribed
  <2> QED BY <2>1, ClientFacts DEF ClientInv, InOrder, Count, AnsweredInOrder
<1> QED BY <1>1, LoopInvariant, PTL

\* With a password set, every message that anybody is sent was published by a
\* connection on which AUTH had succeeded before.
THEOREM PublishersAuthenticated == LSpec => []NothingWithoutAuth
<1>1. LoopInv => NothingWithoutAuth
  <2> SUFFICES ASSUME LoopInv, RequirePass, NEW x \in Clients, NEW p \in DOMAIN srv.told[x],
                      srv.told[x][p].kind = "message"
               PROVE  LET t == srv.told[x][p].of
                      IN  \E j \in 1..(t[2] - 1) :
                             Script[t[1]][j].op = "auth" /\ Script[t[1]][j].arg = "right"
    BY DEF NothingWithoutAuth
  <2>1. srv.told[x] \in Seq(Replies) /\ p \in 1..Len(srv.told[x])
    BY ClientFacts
  <2>2. srv.told[x][p] \in Replies
    BY <2>1, ElementOfSeq
  <2>3. Vouched(srv.told[x][p].of)
    BY <2>2 DEF Replies
  <2> QED BY <2>3 DEF Vouched, Authed
<1> QED BY <1>1, LoopInvariant, PTL

\* conn_close drops replies that are pending only after an EOF, an error, CLIENT
\* KILL, the idle timeout or the deadline of the drain.
THEOREM NoReplyLostByDesign == LSpec => []LostForCause
<1>1. LoopInv => LostForCause
  BY ClientFacts DEF ClientInv, Causes, LostForCause
<1> QED BY <1>1, LoopInvariant, PTL
=============================================================================
