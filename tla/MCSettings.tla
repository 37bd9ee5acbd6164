----------------------------- MODULE MCSettings -----------------------------
(* A small instance of Settings. *)
EXTENDS Settings

Texts == {"", " ", ".", "d", "pw", " pw", "cli", "yes", "no", "off",
          " pw\ndir x", "d\nmaxclients 0", "d\nrequirepass x", "x"}

\* Two texts are padded, three hold a line break and a setting behind it.
ReaderFinds == [v \in Texts |->
    CASE v = " " -> ""
      [] v \in {" pw", " pw\ndir x"} -> "pw"
      [] v \in {"d\nmaxclients 0", "d\nrequirepass x"} -> "d"
      [] OTHER -> v]

ReaderFindsBehind == [v \in Texts |->
    CASE v = " pw\ndir x" -> [k \in {"dir"} |-> "x"]
      [] v = "d\nmaxclients 0" -> [k \in {"maxclients"} |-> 0]
      [] v = "d\nrequirepass x" -> [k \in {"requirepass"} |-> "x"]
      [] OTHER -> [k \in {} |-> ""]]

\* Every refusal, clamp and flag word of CONFIG SET, every kind of text.
Requests == [k \in Knobs |->
    CASE k = "maxclients" -> {0, 1}
      [] k = "slowlog-max-len" -> {-1, 1, RingMax + 1}
      [] k = "protected-mode" -> {"no"}
      [] k = "hot-promote-on-get" -> {"off"}
      [] k = "requirepass" -> {" pw\ndir x"}
      [] k = "dir" -> {"", " ", "d\nmaxclients 0", "d\nrequirepass x"}]

OperatorFiles ==
    {[k \in {"protected-mode", "hot-promote-on-get", "slowlog-max-len", "requirepass"} |->
        CASE k \in {"protected-mode", "hot-promote-on-get"} -> "off"
          [] k = "slowlog-max-len" -> 1
          [] k = "requirepass" -> " pw"],
     [k \in {"maxclients"} |-> 0]}

NoneSet == [k \in {} |-> ""]
Unset == [flags |-> NoneSet, env |-> NoneSet]

\* `off` switches protected-mode off in the environment and on as a flag.
FlagsAndEnvironment ==
    {Unset,
     [flags |-> [k \in {"maxclients", "requirepass", "protected-mode"} |->
                    CASE k = "maxclients" -> 1
                      [] k = "requirepass" -> "cli"
                      [] k = "protected-mode" -> "off"],
      env   |-> [k \in {"protected-mode", "dir"} |->
                    IF k = "dir" THEN "d" ELSE "no"]],
     [flags |-> [k \in {"maxclients", "dir"} |-> IF k = "dir" THEN "" ELSE -1],
      env   |-> [k \in {"maxclients", "protected-mode"} |->
                    IF k = "maxclients" THEN 1 ELSE "off"]]}
=============================================================================
