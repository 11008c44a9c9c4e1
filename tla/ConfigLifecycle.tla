-------------------------- MODULE ConfigLifecycle --------------------------
(***************************************************************************)
(* The bundle's configuration over its life (config/*.go, cmd/start.go     *)
(* 98-119): created from the flags of the first start, with the only copy  *)
(* of the network's key; read back by every later start; published to the  *)
(* clients; overridden in memory by start-all-in-one. Starts are cut short *)
(* by a kill or a failed write anywhere, and the operator edits the file.  *)
(*                                                                         *)
(* A key is the number of the network it was generated for. Ports, paths   *)
(* and names that nothing here tells apart are left out. One process runs  *)
(* at a time. A write is lost by a kill or a full disk, not by a power     *)
(* failure after it; a full disk may cut a file short so that it parses.   *)
(***************************************************************************)
EXTENDS Naturals, Sequences

CONSTANTS
    Addr,           \* external addresses, and ports to listen on
    MaxNetworks,    \* bound: networks generated in one behaviour
    Missing,        \* a field that is not in the file
    Cut,            \* a field that the end of the file cuts short
    Unreadable,     \* a file that is not YAML, an empty one included
    NoFile

ASSUME NetworksAssumption == MaxNetworks \in Nat \ {0}

VARIABLES
    file,      \* bundle-config.yml
    client,    \* client-config.yml
    pc,        \* where the start has got to
    mode,      \* its command: bundle (start-bundle) or allInOne
    cfg,       \* the config in memory, if any
    nodes,     \* what NodeConfigs hands to the services that run, if any
    networks,  \* networks generated so far
    last       \* the latest run: its mode (none before the first) and nodes, and
               \* whether file was edited since

vars == <<file, client, pc, mode, cfg, nodes, networks, last>>

\* A connection string: which server, and the write concern it asks for.
Uri(server, w) == [server |-> server, w |-> w]
Malformed      == Uri("none", "none")

\* --initial-*: an S3 bucket may come without an endpoint, a limit may be absent.
Flags == [ext   : {{a} : a \in Addr},
          mongo : {Uri("external", w) : w \in {"unset", "one"}} \cup {Malformed},
          s3    : {"none", "complete", "incomplete"},
          limit : {Missing, "explicit"}]

\* The order in which yaml.Marshal writes the fields of Config.
Layout == <<"format", "ext", "identity", "account", "listen",
            "coordinator", "consensus", "redis", "s3", "limit">>

\* And those of the client config. In an address the port comes last.
ClientLayout == <<"network", "peer", "addrs", "listen">>

Fields(layout) == {layout[i] : i \in DOMAIN layout}

CurrentBundleFormat == "1"

\* What is read from a file whose end may be missing.
Partial(S) == S \cup {Missing, Cut}

Uris == [server : {"external", "embedded", "none"}, w : {"unset", "one", "majority", "none"}]

Config ==
    [format : Partial({CurrentBundleFormat}), ext : Partial({{a} : a \in Addr}),
     identity : Partial(1 .. MaxNetworks), account : Partial(1 .. MaxNetworks),
     listen : Partial(Addr \cup {"0.0.0.0"}),
     coordinator : Partial(Uris), consensus : Partial(Uris),
     redis : Partial({"external", "embedded"}), s3 : Partial({"complete", "incomplete"}),
     limit : Partial({"default", "explicit"})]

ClientConfig ==
    [network : Partial(1 .. MaxNetworks), peer : Partial(1 .. MaxNetworks),
     addrs : Partial({{a} : a \in Addr}), listen : Partial(Addr \cup {"0.0.0.0"})]

\* The markers are no values of what they stand for the absence of.
ASSUME MarkerAssumption ==
    /\ \A m \in {NoFile, Unreadable} : m \notin Config /\ m \notin ClientConfig
    /\ NoFile # Unreadable
    /\ Missing \notin Uris \cup Addr \cup {{a} : a \in Addr}
    /\ "embedded" \notin {Missing, Cut}

-----------------------------------------------------------------------------
(* Pure functions of config. Definitions called Mut_... are plausible faulty *)
(* versions of the one that follows them; no specification uses them.      *)

\* Consensus asks for majority writes unless the operator's URI says otherwise.
consensusURI(uri) == IF uri.w = "unset" THEN [uri EXCEPT !.w = "majority"] ELSE uri

\* newBundleConfig: a fresh network, one key for it and for the node's account.
\* An S3 section appears with any S3 option; an absent limit becomes explicit.
newBundleConfig(f, n) ==
    [format |-> CurrentBundleFormat, ext |-> f.ext, identity |-> n, account |-> n,
     listen |-> "0.0.0.0", coordinator |-> f.mongo, consensus |-> consensusURI(f.mongo),
     redis |-> "external", s3 |-> IF f.s3 = "none" THEN Missing ELSE f.s3,
     limit |-> IF f.limit = Missing THEN "default" ELSE f.limit]

\* Load without Config.Validate.
Mut_Valid(c) == c.format = CurrentBundleFormat

\* The format that Load asks for, and Config.Validate. It looks at neither the
\* identity nor the account; a URI that is cut short can pass.
Valid(c) ==
    /\ c.format = CurrentBundleFormat
    /\ Missing \notin {c.ext, c.listen, c.coordinator, c.consensus, c.redis}
    /\ Malformed \notin {c.coordinator, c.consensus}
    /\ c.s3 # "incomplete"

Readable(f) == f \notin {NoFile, Unreadable}

\* Where a field is in the file.
Position(layout, f) == CHOOSE i \in DOMAIN layout : layout[i] = f

\* The first n fields of c, and what became of the next one.
Prefix(layout, c, n, next) ==
    [f \in Fields(layout) |->
        LET i == Position(layout, f) IN
        IF i <= n THEN c[f] ELSE IF i = n + 1 /\ c[f] # Missing THEN next ELSE Missing]

\* What a write of c can leave when it fails: nothing that parses, or the fields
\* up to some point, the next one perhaps cut short; all of them if only the end
\* of the file is lost, which holds none of them, or closing it fails.
Torn(layout, c) ==
    UNION {{Unreadable, Prefix(layout, c, n, Missing), Prefix(layout, c, n, Cut)} :
           n \in 0 .. Len(layout)}

\* applyAllInOneDefaults
applyAllInOneDefaults(c) ==
    [c EXCEPT !.coordinator = Uri("embedded", "unset"),
              !.consensus = Uri("embedded", "majority"),
              !.redis = "embedded"]

\* The network as the services see it: this node is all of it, and they dial it
\* at its listen addresses (convertListenToConnect). The time it is stamped with
\* (CreationTime) differs from start to start and is left out here.
networkCfg(c) ==
    [network |-> c.identity, peer |-> c.account,
     dial |-> IF c.listen = "0.0.0.0" THEN "127.0.0.1" ELSE c.listen]

Node(c) == [account |-> c.account, network |-> networkCfg(c), listen |-> c.listen]

\* A file without a limit, an old one or one cut short, gets the default.
filenodeConfig(c) ==
    [node |-> Node(c), redis |-> c.redis, s3 |-> c.s3,
     limit |-> IF c.limit = Missing THEN "default" ELSE c.limit]

NodeConfigs(c) ==
    [coordinator |-> [node |-> Node(c), mongo |-> c.coordinator],
     consensus   |-> [node |-> Node(c), mongo |-> c.consensus],
     filenode    |-> filenodeConfig(c),
     sync        |-> [node |-> Node(c)]]

\* YamlClientConfig: the network, the node's public key and its addresses, without
\* the time that it, too, is stamped with.
YamlClientConfig(c) ==
    [network |-> c.identity, peer |-> c.account, addrs |-> c.ext, listen |-> c.listen]

-----------------------------------------------------------------------------
Init ==
    /\ file = NoFile
    /\ client = NoFile
    /\ pc = "down"
    /\ mode = "none"
    /\ cfg = Missing
    /\ nodes = Missing
    /\ networks = 0
    /\ last = [mode |-> "none", nodes |-> Missing, edited |-> FALSE]

\* The process ends. Files stay as they are.
Down == pc' = "down" /\ mode' = "none" /\ cfg' = Missing /\ nodes' = Missing

\* The operator runs one of the two commands.
Start ==
    /\ pc = "down"
    /\ mode' \in {"bundle", "allInOne"}
    /\ pc' = "stat"
    /\ UNCHANGED <<file, client, cfg, nodes, networks, last>>

\* This start's options are used although there is a file.
Mut_Load ==
    /\ pc = "stat"
    /\ file # NoFile
    /\ Readable(file) /\ Valid(file)
    /\ cfg' \in {[file EXCEPT !.limit = IF f.limit = Missing THEN @ ELSE f.limit] : f \in Flags}
    /\ pc' = "openClient"
    /\ UNCHANGED <<file, client, mode, nodes, networks, last>>

\* LoadOrCreate finds a file, which Load reads, or panics.
Load ==
    /\ pc = "stat"
    /\ file # NoFile
    /\ IF Readable(file) /\ Valid(file)
         THEN cfg' = file /\ pc' = "openClient" /\ UNCHANGED <<mode, nodes>>
         ELSE Down
    /\ UNCHANGED <<file, client, networks, last>>

\* The overrides are applied before the file is written.
Mut_CreateWrite ==
    /\ pc = "stat"
    /\ file = NoFile
    /\ networks < MaxNetworks
    /\ networks' = networks + 1
    /\ \E f \in Flags : LET c == newBundleConfig(f, networks') IN
         IF Valid(c)
           THEN /\ cfg' = IF mode = "allInOne" THEN applyAllInOneDefaults(c) ELSE c
                /\ pc' = "open"
                /\ UNCHANGED <<mode, nodes>>
           ELSE Down
    /\ UNCHANGED <<file, client, last>>

\* There is none: CreateWrite generates a config from the options, and panics
\* before it touches the disk if that is invalid.
CreateWrite ==
    /\ pc = "stat"
    /\ file = NoFile
    /\ networks < MaxNetworks
    /\ networks' = networks + 1
    /\ \E f \in Flags : LET c == newBundleConfig(f, networks') IN
         IF Valid(c) THEN cfg' = c /\ pc' = "open" /\ UNCHANGED <<mode, nodes>>
                     ELSE Down
    /\ UNCHANGED <<file, client, last>>

\* os.WriteFile truncates the file, then writes it.
OpenFile ==
    /\ pc = "open"
    /\ file' = Unreadable
    /\ pc' = "write"
    /\ UNCHANGED <<client, mode, cfg, nodes, networks, last>>

WriteFile ==
    /\ pc = "write"
    /\ file' = cfg
    /\ pc' = "openClient"
    /\ UNCHANGED <<client, mode, cfg, nodes, networks, last>>

\* The write's error is ignored.
Mut_WriteFails ==
    /\ pc = "write"
    /\ file' \in Torn(Layout, cfg)
    /\ pc' = "openClient"
    /\ UNCHANGED <<client, mode, cfg, nodes, networks, last>>

\* A short write, of a full disk for one, makes CreateWrite panic.
WriteFails ==
    /\ pc = "write"
    /\ file' \in Torn(Layout, cfg)
    /\ Down
    /\ UNCHANGED <<client, networks, last>>

\* The client config is written once, as the bundle config is.
Mut_OpenClient ==
    /\ pc = "openClient"
    /\ IF client = NoFile
         THEN client' = Unreadable /\ pc' = "writeClient"
         ELSE pc' = "run" /\ UNCHANGED client
    /\ UNCHANGED <<file, mode, cfg, nodes, networks, last>>

\* WriteClientConfig writes its file the same way.
OpenClient ==
    /\ pc = "openClient"
    /\ client' = Unreadable
    /\ pc' = "writeClient"
    /\ UNCHANGED <<file, mode, cfg, nodes, networks, last>>

WriteClient ==
    /\ pc = "writeClient"
    /\ client' = YamlClientConfig(cfg)
    /\ pc' = "run"
    /\ UNCHANGED <<file, mode, cfg, nodes, networks, last>>

\* And panics the same way: a client can import what the write has left.
WriteClientFails ==
    /\ pc = "writeClient"
    /\ client' \in Torn(ClientLayout, YamlClientConfig(cfg))
    /\ Down
    /\ UNCHANGED <<file, networks, last>>

\* start-all-in-one overrides the databases; NodeConfigs, and the services run.
Run ==
    /\ pc = "run"
    /\ cfg' = IF mode = "allInOne" THEN applyAllInOneDefaults(cfg) ELSE cfg
    /\ nodes' = NodeConfigs(cfg')
    /\ last' = [mode |-> mode, nodes |-> nodes', edited |-> FALSE]
    /\ pc' = "running"
    /\ UNCHANGED <<file, client, mode, networks>>

\* A stop, a failed startup or a kill, at any point.
Exit ==
    /\ pc # "down"
    /\ Down
    /\ UNCHANGED <<file, client, networks, last>>

-----------------------------------------------------------------------------
(* The operator *)

\* Edits a file that loads, by other valid values. An edit during a start is as
\* one right after it.
Edit ==
    /\ pc \in {"down", "running"}
    /\ Readable(file) /\ Valid(file)
    /\ \/ \E a \in Addr : file' = [file EXCEPT !.ext = {a}]
       \/ \E a \in Addr : file' = [file EXCEPT !.listen = a]
       \/ file' = [file EXCEPT !.limit = "explicit"]
    /\ last' = [last EXCEPT !.edited = TRUE]
    /\ UNCHANGED <<client, pc, mode, cfg, nodes, networks>>

\* Removes a file that a start has refused, to begin anew.
Remove ==
    /\ pc = "down"
    /\ file # NoFile
    /\ ~(Readable(file) /\ Valid(file))
    /\ file' = NoFile
    /\ UNCHANGED <<client, pc, mode, cfg, nodes, networks, last>>

Next ==
    \/ Start \/ Load \/ CreateWrite \/ OpenFile \/ WriteFile \/ WriteFails
    \/ OpenClient \/ WriteClient \/ WriteClientFails \/ Run \/ Exit \/ Edit \/ Remove

Spec == Init /\ [][Next]_vars

-----------------------------------------------------------------------------
(* Properties *)

\* A network that clients may have imported is never lost: what the client config
\* names is in a bundle config that loads, with its key, whichever start was cut
\* short and whatever the operator then removed (README.md:145, the file to back
\* up). A client config cut short may name less or end in a piece of a name, but
\* it names no other network, and has an address only with the whole name and key.
ClientNamesKeptNetwork ==
    Readable(client) =>
        /\ Readable(file) /\ Valid(file)
        /\ client.network \in {file.identity, Cut, Missing}
        /\ client.peer \in {file.account, Cut, Missing}
        /\ client.addrs # Missing => client.network = file.identity /\ client.peer = file.account

\* The account's key and the network's, as each service is given them.
Keys(ns) == {<<ns[s].node.account, ns[s].node.network.network>> : s \in DOMAIN ns}

\* The databases the services are given, and start-all-in-one's own.
Databases(ns) == [coordinator |-> ns.coordinator.mongo, consensus |-> ns.consensus.mongo,
                  filenode |-> ns.filenode.redis]
Own == [coordinator |-> Uri("embedded", "unset"), consensus |-> Uri("embedded", "majority"),
        filenode |-> "embedded"]

\* What runs is whole and its own. No part of a key is ever missing from a node,
\* although a short write can leave a file that loads and Validate looks at no key.
\* And the command decides which databases are used: start-all-in-one's own, also
\* with a file of start-bundle, which for its part never uses those (start.go:48).
RunsWhole ==
    pc = "running" =>
        /\ \A k \in Keys(nodes) : k[1] = k[2] /\ k[2] \in 1 .. networks
        /\ \A s \in DOMAIN Own : /\ Databases(nodes)[s] # Missing
                                 /\ mode = "allInOne" <=> Databases(nodes)[s] = Own[s]

\* A second start keeps the node's identity (bundle_test.go:217), and all its
\* settings if the operator has not edited the file, whatever its options are
\* (README.md:208); only the time that networkCfg puts on the network is new.
RestartKeeps ==
    [][pc = "run" /\ pc' = "running" /\ last.mode # "none" =>
        /\ Keys(nodes') = Keys(last.nodes)
        /\ mode = last.mode /\ ~last.edited => nodes' = last.nodes]_vars

\* The client config always matches the bundle config (client.go:31): clients
\* are told the network, the key and the port of every service that runs, at the
\* addresses the file had when it was read.
ClientMatches ==
    pc = "running" =>
        /\ Readable(client)
        /\ client.addrs = cfg.ext
        /\ \A s \in DOMAIN nodes :
              /\ client.network = nodes[s].node.network.network
              /\ client.peer = nodes[s].node.account
              /\ client.listen = nodes[s].node.listen

\* "Consensus requires majority writes." (bundle.go:334)
MajorityWrites ==
    pc = "running" => nodes.consensus.mongo.w = "majority"
=============================================================================
