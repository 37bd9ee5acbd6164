---------------------------- MODULE MCServerLoop ----------------------------
(* Small instances of ServerLoop for TLC.                                  *)
EXTENDS ServerLoop

Does(op) == [op |-> op, arg |-> "none"]
Auth(pw) == [op |-> "auth", arg |-> pw]

\* A subscriber, an operator that publishes and kills it, and a client
\* without the password that takes over a slot.
ThreeScripts ==
    [a |-> <<Auth("right"), Does("subscribe")>>,
     b |-> <<Auth("right"), Does("publish"), [op |-> "kill", arg |-> "a"]>>,
     c |-> <<Does("publish"), Does("garbage")>>]

\* A subscriber that reads, and a publisher that does not and shuts the server
\* down.
TwoScripts ==
    [a |-> <<Does("subscribe"), Does("unsubscribe"), Does("quit")>>,
     b |-> <<Does("publish"), Does("shutdown")>>]
===============================================================================
