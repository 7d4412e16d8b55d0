--------------------------- MODULE MCNodeLifecycle ---------------------------
(* Configurations around every check of Validate, the options and factories   *)
(* around every check of NewNode, and the deployments that are then started   *)
(* and stopped.                                                               *)
EXTENDS NodeLifecycle

Text(text, padded) == [text |-> text, padded |-> padded]
Dir(text, padded, unclean, capital) ==
    [text |-> text, padded |-> padded, unclean |-> unclean, hides |-> FALSE,
     capital |-> capital]
Level(text, padded, capital) ==
    [text |-> text, padded |-> padded, capital |-> capital]

LoggerSection(dir, level, size) == [dir |-> dir, level |-> level, size |-> size]
Service(name, id, size) == [name |-> name, id |-> id, size |-> size]
NodeSection(id, addr, timeout, logger, services) ==
    [id |-> id, addr |-> addr, callTimeout |-> timeout, logger |-> logger,
     services |-> services]

Logs == LoggerSection(Dir("a", FALSE, FALSE, FALSE), Level("warn", FALSE, FALSE), 2)
Plain == NodeSection(1, Text("x", FALSE), 0, Logs, <<>>)

Addrs == {Text("x", FALSE), Text("x", TRUE), Text("y", TRUE), Text("", TRUE)}
Loggers ==
    {NoLogger}
    \cup {LoggerSection(Dir(t, TRUE, u, c), Level("debug", TRUE, TRUE), 3) :
             t \in {"a", "b"}, u \in BOOLEAN, c \in BOOLEAN}
    \cup {[Logs EXCEPT !.dir = Dir("a", p, TRUE, FALSE), !.dir.hides = TRUE] :
             p \in BOOLEAN}
    \cup {[Logs EXCEPT !.dir = Dir("", TRUE, FALSE, FALSE)],
          [Logs EXCEPT !.dir.text = "c", !.level.text = "loud"],
          [Logs EXCEPT !.dir.text = "c", !.size = 0],
          [Logs EXCEPT !.dir.text = "c", !.size = 4]}
ServiceLists ==
    {<<>>, <<Service(Text("r", TRUE), 1, 0), Service(Text("r", FALSE), 2, 5)>>,
     <<Service(Text("r", TRUE), 1, 0), Service(Text("r", FALSE), 1, 0)>>,
     <<Service(Text("", TRUE), 1, 0)>>, <<Service(Text("r", FALSE), 0, 0)>>,
     <<Service(Text("r", FALSE), 1, -1)>>}

SecondNodes ==
    {NodeSection(id, addr, timeout, logger, services) :
        id \in {0, 1, 2}, addr \in Addrs, timeout \in {-1, 0, 1},
        logger \in Loggers, services \in ServiceLists}
Configs ==
    {[mainNode |-> 2, nodes |-> <<Plain, second>>] : second \in SecondNodes}
    \cup {[mainNode |-> main, nodes |-> <<Plain>>] : main \in 0..2}
    \cup {[mainNode |-> 1, nodes |-> <<>>]}

Options ==
    [factories |-> TRUE, registry |-> TRUE, connectTimeout |-> 5,
     heartbeatInterval |-> 3, heartbeatTimeout |-> 2, routeCacheTTL |-> 1,
     callTimeoutSet |-> FALSE, callTimeout |-> 3, logger |-> FALSE]
AllOptions ==
    {Options, [Options EXCEPT !.logger = TRUE],
     [Options EXCEPT !.factories = FALSE], [Options EXCEPT !.registry = FALSE],
     [Options EXCEPT !.connectTimeout = 0],
     [Options EXCEPT !.heartbeatInterval = 0],
     [Options EXCEPT !.heartbeatTimeout = 0],
     [Options EXCEPT !.heartbeatTimeout = 3],
     [Options EXCEPT !.routeCacheTTL = -1],
     [Options EXCEPT !.callTimeoutSet = TRUE],
     [Options EXCEPT !.callTimeoutSet = TRUE, !.callTimeout = 0]}

Input(config, id, options, factories) ==
    [config |-> config, id |-> id, options |-> options, factories |-> factories]

\* The node's services with factories that all work.
Working(config, id) ==
    LET i == NodeOf(config, id)
    IN  IF i = 0 THEN <<>>
        ELSE [s \in DOMAIN config.nodes[i].services |-> "ok"]

Rooms(n) == [s \in 1..n |-> Service(Text("r", FALSE), s, 0)]
With(n) == [mainNode |-> 1, nodes |-> <<[Plain EXCEPT !.services = Rooms(n)]>>]
Unlogged(config) == [config EXCEPT !.nodes[1].logger = NoLogger]

Started == {Input(With(n), 1, Options, [s \in 1..n |-> "ok"]) : n \in {0, 3}}
TestInputs ==
    {Input(config, 2, Options, Working(config, 2)) : config \in Configs}
    \cup {Input(config, id, options, <<"ok", "ok">>) :
             config \in {With(2), Unlogged(With(2))}, id \in {1, 2},
             options \in AllOptions}
    \cup {Input(With(2), 1, options, <<first, second>>) :
             first \in {"ok", "relogs", "fails"}, second \in {"ok", "fails"},
             options \in {Options, [Options EXCEPT !.logger = TRUE]}}
    \cup Started

=============================================================================
