----------------------------- MODULE NodeConfig -----------------------------
(***************************************************************************)
(* The configuration of a deployment and how it is validated (config.go),  *)
(* with the options of NewNode (node.go) and the log levels (logger.go).   *)
(*                                                                         *)
(* A string is a record: its text once trimmed, cleaned and lowered, and   *)
(* whether it is still padded with blanks, written as a path that Clean    *)
(* would shorten, or has capitals.  A path may also hide blanks, which     *)
(* Clean uncovers: "logs /" becomes "logs ", and "./ logs" becomes         *)
(* " logs".  The empty text stands for "".                                 *)
(***************************************************************************)
EXTENDS Integers, Sequences

CONSTANTS FileSizeMin, FileSizeMax  \* of the external package xtnet/log

TrimSpace(string) == [string EXCEPT !.padded = FALSE]
ToLower(string) == [string EXCEPT !.capital = FALSE]

\* Blanks around a path keep filepath.Clean from its ends; otherwise what it
\* takes away there may uncover blanks.
Clean(path) ==
    IF path.padded THEN path
    ELSE [path EXCEPT !.unclean = FALSE, !.padded = path.hides, !.hides = FALSE]

\* A node without a logger section.
NoLogger == [dir |-> {}]
HasLogger(node) == node.logger # NoLogger

Levels == {"none", "error", "warn", "debug"}

\* parseLogLevel trims and lowers what it is given.
parseLogLevel(level) == ToLower(TrimSpace(level)).text \in Levels

\* A loop over a slice: what step makes of acc, element by element.
ForEach(step(_, _), acc, slice) ==
    LET after[i \in 0..Len(slice)] ==
            IF i = 0 THEN acc ELSE step(after[i - 1], slice[i])
    IN  after[Len(slice)]

-----------------------------------------------------------------------------
(* Config.Validate.  What has been seen of the nodes before this one is      *)
(* accumulated in a record: the error flag, the nodes as they are left       *)
(* behind, and the identifiers, addresses and directories in use.            *)

Key(service) == <<TrimSpace(service.name), service.id>>

\* The loop over a node's services: names are trimmed in place, and the trimmed
\* name with the id is what must not repeat.
ServiceStep(acc, service) ==
    LET trimmed == [service EXCEPT !.name = TrimSpace(@)]
    IN  IF acc.err THEN [acc EXCEPT !.services = Append(@, service)]
        ELSE [err |-> \/ trimmed.name.text = ""
                      \/ service.id <= 0
                      \/ service.size < 0
                      \/ Key(trimmed) \in acc.keys,
              keys |-> acc.keys \cup {Key(trimmed)},
              services |-> Append(acc.services, trimmed)]

Services(services) ==
    ForEach(ServiceStep, [err |-> FALSE, keys |-> {}, services |-> <<>>],
            services)

\* Mutant of DirKey: directories are compared as they are written.
DirAsWritten(dir) == dir

\* What two log directories are compared by.
DirKey(dir) == ToLower(dir)

\* Mutant of CleanDir: the blanks are cut off last.
CleanBlanks(dir) == TrimSpace(Clean(dir))

CleanDir(dir) == Clean(TrimSpace(dir))

\* The logger section as it is left behind.
Logger(logger) ==
    IF logger = NoLogger THEN logger
    ELSE [logger EXCEPT !.dir = CleanDir(@),
                        !.level = ToLower(TrimSpace(@))]

LoggerErr(logger, dirs) ==
    /\ logger # NoLogger
    /\ \/ logger.dir.text = ""
       \/ DirKey(logger.dir) \in dirs
       \/ ~parseLogLevel(logger.level)
       \/ logger.size \notin FileSizeMin..FileSizeMax

\* A node as the loop leaves it behind.
Normal(node) ==
    [node EXCEPT !.addr = TrimSpace(@), !.logger = Logger(@),
                 !.services = Services(@).services]

NodeStep(acc, node) ==
    LET normal == Normal(node)
    IN  IF acc.err THEN [acc EXCEPT !.nodes = Append(@, node)]
        ELSE [err |-> \/ node.id <= 0
                      \/ node.id \in acc.ids
                      \/ normal.addr.text = ""
                      \/ normal.addr \in acc.addrs
                      \/ node.callTimeout < 0
                      \/ LoggerErr(normal.logger, acc.dirs)
                      \/ Services(node.services).err,
              nodes |-> Append(acc.nodes, normal),
              ids   |-> acc.ids \cup {node.id},
              addrs |-> acc.addrs \cup {normal.addr},
              dirs  |-> IF HasLogger(node)
                          THEN acc.dirs \cup {DirKey(normal.logger.dir)}
                          ELSE acc.dirs]

\* Config.Validate: the verdict and the configuration it leaves behind.
Validate(config) ==
    LET acc == ForEach(NodeStep, [err |-> FALSE, nodes |-> <<>>, ids |-> {},
                                  addrs |-> {}, dirs |-> {}], config.nodes)
    IN  [ok |-> /\ config.nodes # <<>>
                /\ ~acc.err
                /\ config.mainNode > 0
                /\ config.mainNode \in acc.ids,
         config |-> [config EXCEPT !.nodes = acc.nodes]]

\* Config.Node: the first node with the id, if there is one.
NodeOf(config, id) ==
    LET same == {i \in DOMAIN config.nodes : config.nodes[i].id = id}
    IN  IF same = {} THEN 0 ELSE CHOOSE i \in same : \A j \in same : i <= j

-----------------------------------------------------------------------------
(* The checks NewNode makes of its options. *)

OptionsOK(o) ==
    /\ o.factories /\ o.registry
    /\ o.connectTimeout > 0
    /\ o.heartbeatInterval > 0 /\ o.heartbeatTimeout > 0
    /\ o.heartbeatTimeout < o.heartbeatInterval
    /\ o.routeCacheTTL >= 0
    /\ o.callTimeoutSet => o.callTimeout > 0

\* Mutant of CallTimeout: the node's value is taken though it was not given.
CallTimeoutOfNode(o, node) ==
    IF o.callTimeoutSet THEN o.callTimeout ELSE node.callTimeout

\* The time for a Service call: the option, or the node's, or the default.
CallTimeout(o, node) ==
    IF ~o.callTimeoutSet /\ node.callTimeout > 0 THEN node.callTimeout
    ELSE o.callTimeout

-----------------------------------------------------------------------------
(* What a deployment must be, stated without an order of checks. *)

\* Two strings that are the same once trimmed and lowered, and two paths that
\* name the same directory: blanks that are not at the ends belong to the name.
Same(a, b) == a.text = b.text
SameDir(a, b) == a.text = b.text /\ a.hides = b.hides

\* No two nodes share an identifier, a listening address or a log directory,
\* no two services of a node share their name and identifier, everything is
\* named and in range, and the main node is one of the nodes.
Deployable(config) ==
    LET nodes == config.nodes
        Distinct(At(_)) ==
            \A i, j \in DOMAIN nodes : i # j => At(nodes[i]) # At(nodes[j])
    IN  /\ \E i \in DOMAIN nodes : nodes[i].id = config.mainNode
        /\ Distinct(LAMBDA node : node.id)
        /\ Distinct(LAMBDA node : node.addr.text)
        /\ \A i, j \in DOMAIN nodes :
              i # j /\ HasLogger(nodes[i]) /\ HasLogger(nodes[j])
                  => ~SameDir(nodes[i].logger.dir, nodes[j].logger.dir)
        /\ \A i \in DOMAIN nodes :
              /\ nodes[i].id > 0 /\ nodes[i].addr.text # ""
              /\ nodes[i].callTimeout >= 0
              /\ HasLogger(nodes[i]) =>
                    /\ nodes[i].logger.dir.text # ""
                    /\ nodes[i].logger.level.text \in Levels
                    /\ nodes[i].logger.size \in FileSizeMin..FileSizeMax
              /\ LET services == nodes[i].services
                 IN  /\ \A j \in DOMAIN services :
                           /\ services[j].id > 0
                           /\ services[j].name.text # ""
                           /\ services[j].size >= 0
                     /\ \A j, k \in DOMAIN services :
                           /\ j # k
                           /\ Same(services[j].name, services[k].name)
                           => services[j].id # services[k].id

=============================================================================
