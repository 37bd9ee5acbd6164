------------------------------ MODULE MCTables ------------------------------
(* Small instance of Tables for TLC.                                       *)
EXTENDS Tables

\* Two keys that share a bucket until the table has four.
ThreeHashes == [a |-> 0, b |-> 2, c |-> 1]

\* All keys may be hot, or half of them and one at least.
AllOrHalf == {[pct |-> 100, min |-> 0], [pct |-> 50, min |-> 1]}
===============================================================================
