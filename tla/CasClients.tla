------------------------------ MODULE CasClients ------------------------------
(***************************************************************************)
(* The clients of tests/test_prod_watch.py that race on one key, over the  *)
(* server of module Transactions: each repeats WATCH, GET, MULTI, SET with *)
(* a value computed from what it read, EXEC.  A value is its size, and the *)
(* new value is one larger than the one read, so that the number of        *)
(* updates applied can be read off the key.                                *)
(*                                                                         *)
(* A connection may drop between two commands of its client, who connects  *)
(* again and starts over.                                                  *)
(***************************************************************************)
EXTENDS Transactions

CONSTANTS
    Contended,   \* the key they race on
    Goal,        \* bound: updates each client wants to see applied
    MaxDrops     \* bound: connections lost

ASSUME RaceAssumption ==
    /\ IsFiniteSet(Conns)
    /\ Contended \in Keys /\ Goal \in Nat \ {0} /\ MaxDrops \in Nat

VARIABLES pc, cur, wins, drops

cvars == <<core, now, conns, seen, pc, cur, wins, drops>>

Race == [op |-> "set", key |-> Contended, arg |-> 0]

At(x, here, there) == pc[x] = here /\ pc' = [pc EXCEPT ![x] = there]

Connect(x) ==
    /\ At(x, "closed", "idle") /\ Accept(x)
    /\ UNCHANGED <<cur, wins, drops>>

WatchIt(x) ==
    /\ wins[x] < Goal
    /\ At(x, "idle", "watching") /\ Watch(x, Contended)
    /\ UNCHANGED <<cur, wins, drops>>

Read(x) ==
    /\ At(x, "watching", "read")
    /\ RunNow(x, [Race EXCEPT !.op = "get"])
    /\ cur' = [cur EXCEPT ![x] = core'.payload[Contended]]
    /\ UNCHANGED <<wins, drops>>

Begin(x) ==
    /\ At(x, "read", "begun") /\ Multi(x)
    /\ UNCHANGED <<cur, wins, drops>>

Update(x) ==
    /\ At(x, "begun", "queued")
    /\ Queue(x, [Race EXCEPT !.arg = cur[x] + 1])
    /\ UNCHANGED <<cur, wins, drops>>

\* EXEC answers an array of replies, or the null array.
Win(x) ==
    /\ At(x, "queued", "idle") /\ ExecRun(x)
    /\ wins' = [wins EXCEPT ![x] = @ + 1]
    /\ UNCHANGED <<cur, drops>>

Lose(x) ==
    /\ At(x, "queued", "idle") /\ ExecAbort(x)
    /\ UNCHANGED <<cur, wins, drops>>

Drop(x) ==
    /\ drops < MaxDrops
    /\ pc[x] # "closed" /\ pc' = [pc EXCEPT ![x] = "closed"]
    /\ Close(x)
    /\ drops' = drops + 1
    /\ UNCHANGED <<cur, wins>>

CInit ==
    /\ core = LinkNew(EmptyCore, Contended, "string", 0)
    /\ now = 0
    /\ conns = [x \in Conns |-> NoConn]
    /\ seen = [x \in Conns |-> Unseen]
    /\ pc = [x \in Conns |-> "closed"]
    /\ cur = [x \in Conns |-> 0]
    /\ wins = [x \in Conns |-> 0]
    /\ drops = 0

Client(x) ==
    \/ Connect(x) \/ WatchIt(x) \/ Read(x) \/ Begin(x) \/ Update(x)
    \/ Win(x) \/ Lose(x)

CNext == \E x \in Conns : Client(x) \/ Drop(x)

\* Every client keeps talking, and the event loop answers every connection.
CSpec == CInit /\ [][CNext]_cvars /\ \A x \in Conns : WF_cvars(Client(x))

-----------------------------------------------------------------------------
(* Properties.                                                             *)

\* No lost update: the value counts the EXECs that were not answered by the
\* null array.  An EXEC that overwrote a value its client had not read
\* would leave the value behind the number of wins.
NoLostUpdate ==
    core.payload[Contended] = MapThenSumSet(LAMBDA x : wins[x], Conns)

\* The race is lock free: although any client may be aborted again and again
\* while others win, all of them reach their goal.
EveryClientWins == <>(\A x \in Conns : wins[x] = Goal)
===============================================================================
