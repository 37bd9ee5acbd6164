------------------------------ MODULE MCSnapshot ------------------------------
(* Small instances of Snapshot for TLC.                                    *)
EXTENDS Snapshot

KeyLenOne == [k \in Keys |-> 1]
===============================================================================
