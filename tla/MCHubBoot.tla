------------------------------ MODULE MCHubBoot ------------------------------
\* The instance of HubBoot that TLC checks.
EXTENDS HubBoot

TwoIds == {1, 2}

\* Every combination of Options, with QUIC off as one of the cases of its files.
MCInputs ==
  {i \in [node : {0, 1}, files : {"none", "half", "given"}, quic : BOOLEAN,
          auto : BOOLEAN, selfID : BOOLEAN, other : BOOLEAN] :
     i.quic \/ (i.files = "none" /\ ~i.auto)}

\* All handle subprotocols of their own.
MCSubProto == Rank

MCBuilds == {{"varstore", "flow"}, {"auth", "varstore"}}

\* The defaults, and what differs from them in one or two keys.
Defaults == [flow |-> "", varstore |-> "", archive |-> "", legacy |-> FALSE,
             dsn |-> FALSE, badTable |-> Nil]
MCConfigs ==
  {Defaults, [Defaults EXCEPT !.legacy = TRUE], [Defaults EXCEPT !.flow = "pg"]}
    \cup {[Defaults EXCEPT !.dsn = TRUE, !.flow = "pg", !.badTable = s] :
            s \in {"flow", "varstore", Nil}}
    \cup {[Defaults EXCEPT !.dsn = d, !.varstore = t] :
            d \in BOOLEAN, t \in {"memory", "pg", "unknown"}}
    \cup {[Defaults EXCEPT !.dsn = TRUE, !.archive = t, !.legacy = l] :
            t \in {"off", "pg", "unknown"}, l \in BOOLEAN}
=============================================================================
