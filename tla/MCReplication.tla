---------------------------- MODULE MCReplication ----------------------------
(* Small instance of Replication for TLC.                                  *)
EXTENDS Replication

Command(op, k, vs, ttl) == [op |-> op, key |-> k, vals |-> vs, ttl |-> ttl]

\* "a" is overwritten and expires, "b" is built upon and may expire.
TwoKeyCmds ==
    {Command("set", "a", <<1>>, 0), Command("set", "a", <<2>>, 1),
     Command("del", "a", <<>>, 0),
     Command("setnx", "b", <<1>>, 0), Command("rpush", "b", <<1>>, 0),
     Command("rpush", "b", <<2>>, 0), Command("lpop", "b", <<>>, 0),
     Command("expire", "b", <<>>, 1),
     Command("flushdb", "a", <<>>, 0)}
===============================================================================
