----------------------------- MODULE MCCasClients -----------------------------
(* Small instance of CasClients for TLC.                                   *)
EXTENDS CasClients

KeyLenOne == [k \in Keys |-> 1]

RaceCmds == {[op |-> "set", key |-> "a", arg |-> n] : n \in 0..8}
===============================================================================
