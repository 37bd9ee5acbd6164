----------------------------- MODULE MCKeyspace -----------------------------
(* Small instances of Keyspace for TLC.                                    *)
EXTENDS Keyspace

\* Key lengths that differ, so that RENAME changes the memory of an entry.
KeyLenOfTwo == [k \in Keys |-> IF k = "a" THEN 1 ELSE 2]
=============================================================================
