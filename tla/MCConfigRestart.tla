---------------------------- MODULE MCConfigRestart ----------------------------
\* The instance of ConfigRestart that TLC checks: every kind of input the rules of
\* Options distinguish, and stored values that parse, do not parse, and disagree.
EXTENDS ConfigRestart

MCNumbers == {"0", "3", "7", "8"}
MCTargets == {"", "parent"}

MCGiven == [reconnect |-> {NotGiven, "negative", "0", "3"},
            workers   |-> {NotGiven, "negative", "0"},
            target    |-> {NotGiven, "", "parent"},
            enable    |-> {NotGiven, "true", "false"}]
MCStored == [reconnect |-> {"negative", "7"},
             workers   |-> {"negative", "text"},
             target    |-> {"", "parent"},
             enable    |-> {"false", "text"}]
\* Stored values as Options would have them.
MCPlain == [reconnect |-> {"0", "7"}, workers |-> {"7"},
            target |-> {"parent"}, enable |-> {"true"}]

MCOverrides == [reconnect |-> {"0"}, workers |-> {}, target |-> {}, enable |-> {}]
=============================================================================
