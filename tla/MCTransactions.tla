---------------------------- MODULE MCTransactions ----------------------------
(* Small instances of Transactions for TLC.                                *)
EXTENDS Transactions, TLC

KeyLenOne == [k \in Keys |-> 1]

Command(op, k, n) == [op |-> op, key |-> k, arg |-> n]

\* Commands on the contended key "a", and on "b" whose writes may evict "a".
ContendedCmds ==
    {Command("setex", "a", 1),
     Command("set", "b", 1), Command("flushdb", "a", 0)}

\* The connections are interchangeable.
ConnSymmetry == Permutations(Conns)
===============================================================================
