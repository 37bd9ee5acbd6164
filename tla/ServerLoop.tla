----------------------------- MODULE ServerLoop -----------------------------
(***************************************************************************)
(* The event loop and its connections (native/src/ar_server.c): accept     *)
(* into a slot table, edge-triggered epoll, partial reads and pipelined    *)
(* commands, replies that the socket cannot take at once, publish and      *)
(* subscribe, AUTH, CLIENT KILL, QUIT, idle timeouts and the drain at      *)
(* shutdown.                                                               *)
(*                                                                         *)
(* The server is one thread: its steps are the ones below "The loop".      *)
(* Clients, the kernel and signals act between any two of them.  A client  *)
(* connects once and sends the commands of its script; a command is two     *)
(* pieces, which may arrive separately.  A batch of epoll_wait names slots,  *)
(* as the code's events name conns[] by pointer, and is handled in any     *)
(* order.                                                                  *)
(*                                                                         *)
(* Abstracted: a socket takes Cap replies that its client has not read; a  *)
(* connection may be idle at any time; one channel; the dictionary's       *)
(* commands are "ping".  Growth and the limit of buffers, failed           *)
(* allocations, TLS records and protected mode are left out.               *)
(***************************************************************************)
EXTENDS Naturals, Sequences, SequencesExt, FiniteSets, FiniteSetsExt

CONSTANTS
    Clients,      \* connections that may be made
    Readers,      \* the clients that keep reading what they are sent
    Split,        \* the clients whose commands may arrive in pieces
    Script,       \* Script[x]: the commands client x sends, [op, arg]
    NSlots,       \* AR_MAX_CONN
    MaxClients,   \* maxclients
    RequirePass,  \* a password is configured
    IdleTimeout,  \* timeout > 0
    Cap,          \* replies the kernel buffers for a client that reads late
    MaxFaults     \* bound: clients that close or reset, and idle closes

LoopOps == {"ping", "auth", "subscribe", "unsubscribe", "publish", "kill",
            "quit", "shutdown", "garbage"}

ASSUME LoopAssumption ==
    /\ \A x \in Clients : \A i \in DOMAIN Script[x] : Script[x][i].op \in LoopOps
    /\ Readers \subseteq Clients /\ NSlots \in Nat \ {0} /\ Cap \in Nat \ {0}
    /\ MaxClients \in Nat

VARIABLES
    srv,       \* the server and its sockets: conns, sock, ready, quit, and the
               \* histories told, fate, lost
    sent,      \* pieces each client has sent
    inbox,     \* pieces the kernel holds for the server
    got,       \* replies each client has read
    gone,      \* "no", or how the client left: "fin" or "rst"
    backlog,   \* clients waiting for accept
    pc,        \* where the loop is
    batch,     \* events of the current epoll_wait still to handle
    draining,
    faults     \* counter for the bound

lvars == <<srv, sent, inbox, got, gone, backlog, pc, batch, draining, faults>>

Slots == 1..NSlots

NoOne == "no one"
Listener == 0

FreeConn == [in_use |-> FALSE, peer |-> NoOne, rbuf |-> <<>>, wbuf |-> <<>>,
             should_close |-> FALSE, want_write |-> FALSE,
             authenticated |-> FALSE, subs |-> FALSE]

\* How a connection ended, as opposed to waiting or open.
Reasons == {"refused", "eof", "err", "quit", "kill", "idle", "drain", "deadline"}

\* Types; a slot in use belongs to one open connection, and to no other slot.
LTypeOK ==
    /\ srv.fate \in [Clients -> {"new", "backlog", "open"} \cup Reasons]
    /\ \A x \in Clients : Len(srv.sock[x]) <= Cap
    /\ \A x \in Clients : srv.fate[x] = "open" <=>
          Cardinality({s \in Slots : srv.conns[s].in_use /\ srv.conns[s].peer = x}) = 1
    /\ \A s \in Slots : ~ srv.conns[s].in_use => srv.conns[s] = FreeConn
    /\ Cardinality({s \in Slots : srv.conns[s].in_use}) <= MaxClients
    /\ pc \in {"top", "batch", "drain", "drained", "down"}
    /\ srv.quit \in BOOLEAN /\ draining \in BOOLEAN

-----------------------------------------------------------------------------
(* Connections.                                                            *)

\* Mutant: the subscription of the slot's last user is not cleared.
ConnReset_KeepsSubs(c) == [FreeConn EXCEPT !.subs = c.subs]

\* Mutant: what the last user did not get stays in the write buffer.
ConnReset_KeepsWbuf(c) == [FreeConn EXCEPT !.wbuf = c.wbuf]

\* Mutant: the slot stays authenticated.
ConnReset_KeepsAuth(c) == [FreeConn EXCEPT !.authenticated = c.authenticated]

ConnReset(c) == FreeConn

\* conn_close: the fd leaves the epoll set and the slot is free at once.
ConnClose(v, s, why) ==
    LET x == v.conns[s].peer
    IN  IF ~ v.conns[s].in_use THEN v
        ELSE [v EXCEPT !.conns[s] = ConnReset(@), !.ready = @ \ {x},
                       !.fate[x] = why, !.lost[x] = v.conns[s].wbuf # <<>>]

\* conn_alloc: the first free slot.
ConnAlloc(v, x) ==
    LET s == Min({t \in Slots : ~ v.conns[t].in_use})
    IN  [v EXCEPT !.conns[s] = [ConnReset(@) EXCEPT !.in_use = TRUE, !.peer = x,
                                   !.authenticated = @ \/ ~ RequirePass],
                  !.fate[x] = "open",
                  !.ready = IF inbox[x] # <<>> \/ gone[x] # "no"
                            THEN @ \cup {x} ELSE @]

\* accept_clients_on, for one connection of the backlog.
Accept(v, x) ==
    IF Cardinality({s \in Slots : v.conns[s].in_use}) >= MaxClients
       \/ \A s \in Slots : v.conns[s].in_use
    THEN [v EXCEPT !.fate[x] = "refused"]
    ELSE ConnAlloc(v, x)

-----------------------------------------------------------------------------
(* Replies.                                                                *)

\* A reply to command t goes to the slot that sent it; told is the history of
\* what each client should read, by the command's author.
Reply(v, s, t, kind) ==
    LET r == [kind |-> kind, of |-> t]
    IN  [v EXCEPT !.conns[s].wbuf = Append(@, r), !.told[t[1]] = Append(@, r)]

\* flush_writes meets an error other than a full socket.
FlushFails(v, s) == v.conns[s].wbuf # <<>> /\ gone[v.conns[s].peer] = "rst"

\* Mutant: EPOLLOUT is not asked for.
FlushWrites_Unarmed(v, s) ==
    LET c == v.conns[s]
        n == Min({Len(c.wbuf), Cap - Len(v.sock[c.peer])})
        w == [v EXCEPT !.sock[c.peer] = @ \o SubSeq(c.wbuf, 1, n),
                       !.conns[s].wbuf = SubSeq(@, n + 1, Len(@))]
    IN  IF n = Len(c.wbuf) /\ c.should_close THEN ConnClose(w, s, "quit") ELSE w

\* Mutant: a connection that should close closes with replies pending.
FlushWrites_Hasty(v, s) ==
    LET c == v.conns[s]
        n == Min({Len(c.wbuf), Cap - Len(v.sock[c.peer])})
        w == [v EXCEPT !.sock[c.peer] = @ \o SubSeq(c.wbuf, 1, n),
                       !.conns[s].wbuf = SubSeq(@, n + 1, Len(@)),
                       !.conns[s].want_write = n < Len(c.wbuf)]
    IN  IF c.should_close THEN ConnClose(w, s, "quit") ELSE w

\* flush_writes otherwise: as much as the socket takes; EPOLLOUT is armed while
\* something is left, and a connection that should close does so when nothing is.
FlushWrites(v, s) ==
    LET c == v.conns[s]
        n == Min({Len(c.wbuf), Cap - Len(v.sock[c.peer])})
        w == [v EXCEPT !.sock[c.peer] = @ \o SubSeq(c.wbuf, 1, n),
                       !.conns[s].wbuf = SubSeq(@, n + 1, Len(@)),
                       !.conns[s].want_write = n < Len(c.wbuf)]
    IN  IF n = Len(c.wbuf) /\ c.should_close THEN ConnClose(w, s, "quit") ELSE w

FlushOrClose(v, s) ==
    IF FlushFails(v, s) THEN ConnClose(v, s, "err") ELSE FlushWrites(v, s)

\* publish_local, for one subscriber: a failed write keeps the message and
\* arms EPOLLOUT, which reports the error.
Deliver(v, s, t) ==
    LET r == [kind |-> "message", of |-> t]
        x == v.conns[s].peer
        w == [v EXCEPT !.conns[s].wbuf = Append(@, r), !.told[x] = Append(@, r)]
    IN  IF FlushFails(w, s)
        THEN [w EXCEPT !.conns[s].want_write = TRUE, !.ready = @ \cup {x}]
        ELSE FlushWrites(w, s)

Subscribers(v) == {s \in Slots : v.conns[s].in_use /\ v.conns[s].subs}

\* The loop over the slots.
PublishLocal(v, t) ==
    FoldLeft(LAMBDA w, s : IF s \in Subscribers(w) THEN Deliver(w, s, t) ELSE w,
             v, [s \in Slots |-> s])

-----------------------------------------------------------------------------
(* dispatch: command t = <<client, index>> of the connection in slot s.    *)

AllowedUnauth == {"auth", "ping", "quit"}
AllowedSubscribed == {"subscribe", "unsubscribe", "ping", "quit"}

\* CLIENT KILL ID: the caller closes after its reply, anybody else at once.
Kill(v, s, t, x) ==
    LET found == {k \in Slots : v.conns[k].in_use /\ v.conns[k].peer = x}
    IN  IF found = {} THEN Reply(v, s, t, "error")
        ELSE LET k == Min(found)
             IN  IF k = s
                 THEN Reply([v EXCEPT !.conns[s].should_close = TRUE], s, t, "ok")
                 ELSE Reply(ConnClose(v, k, "kill"), s, t, "ok")

Authenticate(v, s, t) ==
    IF RequirePass /\ Script[t[1]][t[2]].arg = "right"
    THEN Reply([v EXCEPT !.conns[s].authenticated = TRUE], s, t, "ok")
    ELSE Reply(v, s, t, "error")

Subscribe(v, s, t) == Reply([v EXCEPT !.conns[s].subs = TRUE], s, t, "subscribe")

Unsubscribe(v, s, t) == Reply([v EXCEPT !.conns[s].subs = FALSE], s, t, "unsubscribe")

\* The publisher is answered after the subscribers have been served.
Publish(v, s, t) == Reply(PublishLocal(v, t), s, t, "ok")

Quit(v, s, t) == Reply([v EXCEPT !.conns[s].should_close = TRUE], s, t, "ok")

Shutdown(v, s, t) ==
    Reply([v EXCEPT !.conns[s].should_close = TRUE, !.quit = TRUE], s, t, "ok")

\* The gates of authentication and subscription, then the command.
Dispatch(v, s, t) ==
    LET c == v.conns[s]
        m == Script[t[1]][t[2]]
    IN  IF RequirePass /\ ~ c.authenticated /\ m.op \notin AllowedUnauth
        THEN Reply(v, s, t, "noauth")
        ELSE IF c.subs /\ m.op \notin AllowedSubscribed THEN Reply(v, s, t, "error")
        ELSE CASE m.op = "auth"        -> Authenticate(v, s, t)
               [] m.op = "subscribe"   -> Subscribe(v, s, t)
               [] m.op = "unsubscribe" -> Unsubscribe(v, s, t)
               [] m.op = "publish"     -> Publish(v, s, t)
               [] m.op = "kill"        -> Kill(v, s, t, m.arg)
               [] m.op = "quit"        -> Quit(v, s, t)
               [] m.op = "shutdown"    -> Shutdown(v, s, t)
               [] OTHER                -> Reply(v, s, t, "ok")

\* process_reads, the command that ends at piece i of the buffer: parse_command
\* finds one only when both its pieces are there.  Garbage is answered, stays
\* in the buffer and closes the connection.  Nothing is executed behind a
\* command of the same buffer that closes the connection.
ProcessCommand(r, s, rbuf, i) ==
    LET t == <<rbuf[i][1], rbuf[i][2]>>
    IN  IF r.stop \/ rbuf[i][3] = 0 THEN r
        ELSE IF Script[t[1]][t[2]].op = "garbage"
        THEN [pos |-> r.pos, stop |-> TRUE,
              v |-> Reply([r.v EXCEPT !.conns[s].should_close = TRUE], s, t, "protocol")]
        ELSE LET w == Dispatch(r.v, s, t)
             IN  [pos |-> i, stop |-> w.conns[s].should_close, v |-> w]

\* Mutant: executed commands stay in the buffer when more bytes follow them.
ProcessReads_Again(v, s) ==
    LET rbuf == v.conns[s].rbuf
        r == FoldLeft(LAMBDA acc, i : ProcessCommand(acc, s, rbuf, i),
                      [pos |-> 0, stop |-> FALSE, v |-> v], [i \in DOMAIN rbuf |-> i])
    IN  FlushOrClose([r.v EXCEPT !.conns[s].rbuf = IF r.pos = Len(@) THEN <<>> ELSE @], s)

\* process_reads: the commands in the buffer, then one flush.
ProcessReads(v, s) ==
    LET rbuf == v.conns[s].rbuf
        r == FoldLeft(LAMBDA acc, i : ProcessCommand(acc, s, rbuf, i),
                      [pos |-> 0, stop |-> FALSE, v |-> v], [i \in DOMAIN rbuf |-> i])
    IN  FlushOrClose([r.v EXCEPT !.conns[s].rbuf = SubSeq(@, r.pos + 1, Len(@))], s)

-----------------------------------------------------------------------------
(* The loop.                                                               *)

\* What epoll_wait reports of client x, by the state of its socket then.
EventOf(x) ==
    LET s == CHOOSE k \in Slots : srv.conns[k].in_use /\ srv.conns[k].peer = x
    IN  [slot |-> s,
         in   |-> inbox[x] # <<>> \/ gone[x] # "no",
         out  |-> srv.conns[s].want_write /\ Len(srv.sock[x]) < Cap,
         hup  |-> gone[x] = "rst"]

ListenEvent == [slot |-> Listener, in |-> TRUE, out |-> FALSE, hup |-> FALSE]

\* close_idle_clients, at the top of serve_once.
CloseIdle(s) ==
    /\ pc = "drained" \/ (pc = "top" /\ ~ srv.quit)
    /\ IdleTimeout /\ faults < MaxFaults
    /\ srv.conns[s].in_use
    /\ srv' = ConnClose(srv, s, "idle")
    /\ faults' = faults + 1
    /\ UNCHANGED <<sent, inbox, got, gone, backlog, pc, batch, draining>>

\* epoll_wait.  While draining it comes back empty-handed after 50 ms.
EpollWait ==
    LET listen == ~ draining /\ backlog # <<>>
        events == {EventOf(x) : x \in srv.ready}
                     \cup (IF listen THEN {ListenEvent} ELSE {})
    IN  /\ pc = "drained" \/ (pc = "top" /\ ~ srv.quit /\ events # {})
        /\ batch' = events
        /\ srv' = [srv EXCEPT !.ready = {}]
        /\ pc' = IF events # {} THEN "batch" ELSE "drain"
        /\ UNCHANGED <<sent, inbox, got, gone, backlog, draining, faults>>

\* The listening socket: everyone in the backlog, unless a signal or SHUTDOWN
\* has set shutting_down.
HandleAccept(e) ==
    /\ e.slot = Listener
    /\ IF srv.quit THEN UNCHANGED <<srv, backlog>>
       ELSE srv' = FoldLeft(Accept, srv, backlog) /\ backlog' = <<>>
    /\ UNCHANGED inbox

\* An event for a slot that has been freed meanwhile is ignored; an error
\* closes the connection that is in the slot now.
HandleClosed(e) ==
    /\ e.slot # Listener
    /\ ~ srv.conns[e.slot].in_use \/ e.hup
    /\ srv' = ConnClose(srv, e.slot, "err")
    /\ UNCHANGED <<inbox, backlog>>

\* handle_read: everything there is.  An EOF found behind it closes the
\* connection before any of it is executed.
HandleRead(e) ==
    LET x == srv.conns[e.slot].peer
    IN  /\ e.slot # Listener /\ srv.conns[e.slot].in_use /\ ~ e.hup /\ e.in
        /\ IF gone[x] # "no"
           THEN /\ srv' = ConnClose(srv, e.slot, IF gone[x] = "fin" THEN "eof" ELSE "err")
                /\ UNCHANGED inbox
           ELSE /\ srv' = ProcessReads([srv EXCEPT !.conns[e.slot].rbuf = @ \o inbox[x]],
                                       e.slot)
                /\ inbox' = [inbox EXCEPT ![x] = <<>>]
        /\ UNCHANGED backlog

\* EPOLLOUT without EPOLLIN.  (Behind EPOLLIN it finds what process_reads has
\* left after its own flush.)
HandleWrite(e) ==
    /\ e.slot # Listener /\ srv.conns[e.slot].in_use /\ ~ e.hup /\ ~ e.in
    /\ srv' = IF e.out THEN FlushOrClose(srv, e.slot) ELSE srv
    /\ UNCHANGED <<inbox, backlog>>

\* One event; after the last one serve_once returns.
HandleEvent(e) ==
    /\ pc = "batch"
    /\ batch' = batch \ {e}
    /\ HandleAccept(e) \/ HandleClosed(e) \/ HandleRead(e) \/ HandleWrite(e)
    /\ pc' = IF batch' # {} THEN "batch" ELSE IF draining THEN "drain" ELSE "top"
    /\ UNCHANGED <<sent, got, gone, draining, faults>>

\* serve_forever leaves its loop; stop_accepting turns the backlog away.
StopAccepting ==
    /\ pc = "top" /\ srv.quit
    /\ srv' = [srv EXCEPT !.fate = [x \in Clients |->
                  IF @[x] \in {"new", "backlog"} THEN "refused" ELSE @[x]]]
    /\ backlog' = <<>>
    /\ draining' = TRUE /\ pc' = "drain"
    /\ UNCHANGED <<sent, inbox, got, gone, batch, faults>>

Pending == {s \in Slots : srv.conns[s].in_use /\ srv.conns[s].wbuf # <<>>}

\* drain_clients, one pass: flush who has replies pending, close who has not.
DrainPass ==
    /\ pc = "drain"
    /\ srv' = FoldLeft(LAMBDA v, s : IF v.conns[s].wbuf # <<>> THEN FlushOrClose(v, s)
                                     ELSE ConnClose(v, s, "drain"),
                       srv, [s \in Slots |-> s])
    /\ pc' = IF Pending = {} THEN "down" ELSE "drained"
    /\ UNCHANGED <<sent, inbox, got, gone, backlog, batch, draining, faults>>

\* Mutant: the deadline is looked at only when nothing is pending.
DrainDeadline_TooLate ==
    /\ pc = "drained" /\ Pending = {}
    /\ srv' = FoldLeft(LAMBDA v, s : ConnClose(v, s, "deadline"), srv, [s \in Slots |-> s])
    /\ pc' = "down"
    /\ UNCHANGED <<sent, inbox, got, gone, backlog, batch, draining, faults>>

\* The 2 s are over: close the rest.
DrainDeadline ==
    /\ pc = "drained"
    /\ srv' = FoldLeft(LAMBDA v, s : ConnClose(v, s, "deadline"), srv, [s \in Slots |-> s])
    /\ pc' = "down"
    /\ UNCHANGED <<sent, inbox, got, gone, backlog, batch, draining, faults>>

LoopStep ==
    \/ EpollWait \/ (\E e \in batch : HandleEvent(e))
    \/ StopAccepting \/ DrainPass

-----------------------------------------------------------------------------
(* The others.                                                             *)

Connect(x) ==
    /\ srv.fate[x] = "new" /\ ~ draining
    /\ srv' = [srv EXCEPT !.fate[x] = "backlog"]
    /\ backlog' = Append(backlog, x)
    /\ UNCHANGED <<sent, inbox, got, gone, pc, batch, draining, faults>>

\* Piece i of client x: piece 0 or 1 of a command.
Piece(x, i) == <<x, ((i - 1) \div 2) + 1, (i - 1) % 2>>

\* The next piece, or the next two.
Send(x, n) ==
    /\ n = 2 \/ x \in Split
    /\ srv.fate[x] \in {"backlog", "open"} /\ gone[x] = "no"
    /\ sent[x] + n <= 2 * Len(Script[x])
    /\ sent' = [sent EXCEPT ![x] = @ + n]
    /\ inbox' = [inbox EXCEPT ![x] = @ \o [i \in 1..n |-> Piece(x, sent[x] + i)]]
    /\ srv' = [srv EXCEPT !.ready = IF srv.fate[x] = "open" THEN @ \cup {x} ELSE @]
    /\ UNCHANGED <<got, gone, backlog, pc, batch, draining, faults>>

\* Room in the socket wakes the server up if it has asked for EPOLLOUT.
ClientReads(x) ==
    /\ gone[x] = "no" /\ srv.sock[x] # <<>>
    /\ got' = [got EXCEPT ![x] = Append(@, Head(srv.sock[x]))]
    /\ srv' = [srv EXCEPT !.sock[x] = Tail(@),
                          !.ready = IF \E s \in Slots : srv.conns[s].peer = x
                                                        /\ srv.conns[s].want_write
                                    THEN @ \cup {x} ELSE @]
    /\ UNCHANGED <<sent, inbox, gone, backlog, pc, batch, draining, faults>>

\* A client closes, or its connection is reset.
Leave(x, how) ==
    /\ srv.fate[x] \in {"backlog", "open"} /\ gone[x] = "no"
    /\ faults < MaxFaults
    /\ gone' = [gone EXCEPT ![x] = how]
    /\ srv' = [srv EXCEPT !.ready = IF srv.fate[x] = "open" THEN @ \cup {x} ELSE @]
    /\ faults' = faults + 1
    /\ UNCHANGED <<sent, inbox, got, backlog, pc, batch, draining>>

Signal ==
    /\ ~ srv.quit
    /\ srv' = [srv EXCEPT !.quit = TRUE]
    /\ UNCHANGED <<sent, inbox, got, gone, backlog, pc, batch, draining, faults>>

LInit ==
    /\ srv = [conns |-> [s \in Slots |-> FreeConn],
              sock |-> [x \in Clients |-> <<>>], ready |-> {}, quit |-> FALSE,
              told |-> [x \in Clients |-> <<>>],
              fate |-> [x \in Clients |-> "new"],
              lost |-> [x \in Clients |-> FALSE]]
    /\ sent = [x \in Clients |-> 0]
    /\ inbox = [x \in Clients |-> <<>>]
    /\ got = [x \in Clients |-> <<>>]
    /\ gone = [x \in Clients |-> "no"]
    /\ backlog = <<>> /\ pc = "top" /\ batch = {}
    /\ draining = FALSE /\ faults = 0

LNext ==
    \/ LoopStep \/ DrainDeadline
    \/ \E s \in Slots : CloseIdle(s)
    \/ \E x \in Clients :
        \/ Connect(x) \/ ClientReads(x) \/ (\E n \in 1..2 : Send(x, n))
        \/ \E how \in {"fin", "rst"} : Leave(x, how)
    \/ Signal

LSpec == LInit /\ [][LNext]_lvars

\* Where the loop has a step to take, ENABLED LoopStep written out: in epoll_wait
\* it needs an event or a signal.
LoopCanStep ==
    \/ pc \in {"batch", "drain", "drained"}
    \/ pc = "top" /\ (srv.quit \/ srv.ready # {} \/ backlog # <<>>)

\* The loop runs whenever it can (weak fairness); the clock reaches the drain's
\* deadline if the drain goes on; the clients in Readers read.
LFairSpec ==
    /\ LSpec
    /\ []<>(~ LoopCanStep) \/ []<><<LoopStep>>_lvars
    /\ SF_lvars(DrainDeadline)
    /\ \A x \in Readers : WF_lvars(ClientReads(x))

-----------------------------------------------------------------------------
(* Properties.                                                             *)

\* What the server still holds for client x.
Held(x) ==
    LET own == {s \in Slots : srv.conns[s].in_use /\ srv.conns[s].peer = x}
    IN  IF own = {} THEN <<>> ELSE srv.conns[Min(own)].wbuf

\* Through partial writes, slots that change hands, events that are late and
\* publishers that write into other connections' buffers, a client reads
\* what it was told, whole and in order, and nothing that was meant for
\* another; when its connection is closed early, it reads a beginning of it.
StreamIntact ==
    \A x \in Clients :
        LET read == got[x] \o srv.sock[x]
        IN  /\ IsPrefix(read, srv.told[x])
            /\ srv.fate[x] = "open" => read \o Held(x) = srv.told[x]

\* A message reaches a client between the replies to its own SUBSCRIBE and
\* UNSUBSCRIBE only.
MessagesWhileSubscribed ==
    \A x \in Clients : \A p \in DOMAIN srv.told[x] :
        srv.told[x][p].kind = "message" =>
            \E q \in 1..(p - 1) :
                /\ srv.told[x][q].kind = "subscribe"
                /\ \A o \in q..p : srv.told[x][o].kind # "unsubscribe"

\* Messages and the answer to garbage belong to no command.
IsAnswer(r) == r.kind \notin {"message", "protocol"}

\* The commands of a client are executed in the order sent, each once, and
\* without a gap, although they arrive in pieces: what an EOF or a close cuts
\* off is always the end; and messages come between the replies only while
\* the client is subscribed.
AnsweredInOrder ==
    /\ MessagesWhileSubscribed
    /\ \A x \in Clients : \A p \in DOMAIN srv.told[x] :
          IsAnswer(srv.told[x][p]) =>
              srv.told[x][p].of =
                  <<x, Cardinality({q \in 1..p : IsAnswer(srv.told[x][q])})>>

\* With a password set, what is published comes from a client that had sent
\* the right one on its own connection before, whoever had the slot earlier.
NothingWithoutAuth ==
    RequirePass => \A x \in Clients : \A p \in DOMAIN srv.told[x] :
        srv.told[x][p].kind = "message" =>
            LET t == srv.told[x][p].of
            IN  \E j \in 1..(t[2] - 1) :
                    Script[t[1]][j].op = "auth" /\ Script[t[1]][j].arg = "right"

\* Replies are lost only with a connection that failed, was killed, idled out
\* or outlived the deadline of the drain: QUIT, a protocol error and a drain
\* in time flush first.
LostForCause ==
    \A x \in Clients : srv.lost[x] => srv.fate[x] \in {"eof", "err", "kill", "idle", "deadline"}

\* Edge-triggered events suffice: a command that is sent completely by a client
\* that reads its replies is answered, or the connection ends.
Answered ==
    \A x \in Readers : \A i \in DOMAIN Script[x] :
        (sent[x] >= 2 * i) ~>
            \/ srv.fate[x] \in Reasons \/ gone[x] # "no"
            \/ \E p \in DOMAIN got[x] : got[x][p].of = <<x, i>>

\* A signal or SHUTDOWN ends the process, although clients that do not read
\* keep their replies pending.
ShutdownEnds == srv.quit ~> pc = "down"
===============================================================================
