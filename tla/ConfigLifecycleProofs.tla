----------------------- MODULE ConfigLifecycleProofs -----------------------
(***************************************************************************)
(* Theorems about ConfigLifecycle for every set of addresses and every     *)
(* number of networks. The inductive invariant says where each copy of the *)
(* configuration is at each step of a start, and that a file that loads    *)
(* holds the whole key of one network (Sound), however it was cut short:   *)
(* the fields Validate asks for come after the key in the file (Layout).   *)
(***************************************************************************)
EXTENDS ConfigLifecycle, TLAPS

Loads(f) == Readable(f) /\ Valid(f)

\* One whole key, of a network that has been generated, and no database of
\* start-all-in-one's.
Sound(c) ==
    /\ c.identity = c.account
    /\ c.identity \in 1 .. networks
    /\ c.coordinator.server # "embedded"
    /\ c.consensus.server # "embedded"
    /\ c.redis # "embedded"

\* What runs under a mode from the file f.
Effective(m, f) == IF m = "allInOne" THEN applyAllInOneDefaults(f) ELSE f

Modes == {"bundle", "allInOne"}

TypeOK ==
    /\ file \in Config \cup {NoFile, Unreadable}
    /\ client \in ClientConfig \cup {NoFile, Unreadable}
    /\ pc \in {"down", "stat", "open", "write", "openClient", "writeClient", "run", "running"}
    /\ mode \in Modes \cup {"none"}
    /\ pc \in {"open", "write", "openClient", "writeClient", "run", "running"} => cfg \in Config
    /\ networks \in 0 .. MaxNetworks
    /\ last = [mode |-> last.mode, nodes |-> last.nodes, edited |-> last.edited]
    /\ last.mode \in Modes \cup {"none"}
    /\ last.edited \in BOOLEAN

\* The file, and who relies on it: a client, or a run that a restart continues.
FileInv ==
    /\ Loads(file) => Sound(file)
    /\ Readable(client) \/ last.mode # "none" => Loads(file)

\* A start creates its file or has read it; then it publishes the same config.
StartInv ==
    /\ pc = "down" <=> mode = "none"
    /\ pc = "open" => file = NoFile
    /\ pc = "write" => file = Unreadable
    /\ pc \in {"open", "write"} => Valid(cfg) /\ Sound(cfg)
    /\ pc \in {"openClient", "writeClient", "run"} => file = cfg /\ Valid(cfg)
    /\ pc = "run" => client = YamlClientConfig(cfg)

\* The latest run was of the file as it was, and edits leave its key alone.
LastInv ==
    last.mode # "none" =>
        /\ Keys(last.nodes) = {<<file.account, file.identity>>}
        /\ ~last.edited => last.nodes = NodeConfigs(Effective(last.mode, file))

IInv ==
    /\ TypeOK /\ FileInv /\ StartInv /\ LastInv
    /\ ClientNamesKeptNetwork /\ RunsWhole /\ ClientMatches
-----------------------------------------------------------------------------
(* The pure functions *)

\* A config in memory is no marker: once written, the file is readable.
LEMMA Written ==
    /\ \A c \in Config : Readable(c)
    /\ \A c \in ClientConfig : Readable(c)
    /\ ~Readable(NoFile) /\ ~Readable(Unreadable)
BY MarkerAssumption DEF Readable

LEMMA ConfigFields ==
    ASSUME NEW c \in Config
    PROVE  /\ c.identity \in Partial(1 .. MaxNetworks) /\ c.account \in Partial(1 .. MaxNetworks)
           /\ c.ext \in Partial({{a} : a \in Addr})
           /\ c.listen \in Partial(Addr \cup {"0.0.0.0"})
BY DEF Config

\* What clients are told is of their config's type.
LEMMA ClientTyped ==
    ASSUME NEW c \in Config
    PROVE  YamlClientConfig(c) \in ClientConfig
BY DEF Config, ClientConfig, YamlClientConfig

LEMMA ClientFields ==
    ASSUME NEW c
    PROVE  /\ YamlClientConfig(c).network = c.identity
           /\ YamlClientConfig(c).peer = c.account
           /\ YamlClientConfig(c).addrs = c.ext
           /\ YamlClientConfig(c).listen = c.listen
BY DEF YamlClientConfig

\* A fresh config is of its type and holds one whole key.
LEMMA NewConfig ==
    ASSUME NEW f \in Flags, NEW n \in 1 .. MaxNetworks
    PROVE  LET c == newBundleConfig(f, n) IN
           /\ c \in Config
           /\ c.identity = n /\ c.account = n
           /\ c.coordinator.server # "embedded"
           /\ c.consensus.server # "embedded"
           /\ c.redis # "embedded"
<1> DEFINE c == newBundleConfig(f, n)
<1>1. /\ f.ext \in {{a} : a \in Addr}
      /\ f.mongo \in Uris
      /\ f.mongo.server # "embedded"
      /\ f.s3 \in {"none", "complete", "incomplete"}
      /\ f.limit = Missing \/ f.limit = "explicit"
  BY DEF Flags, Uri, Malformed, Uris
<1>2. consensusURI(f.mongo) \in Uris /\ consensusURI(f.mongo).server = f.mongo.server
  BY <1>1 DEF consensusURI, Uris
<1>3. /\ c.identity = n /\ c.account = n /\ c.coordinator = f.mongo
      /\ c.consensus = consensusURI(f.mongo) /\ c.redis = "external"
  BY DEF newBundleConfig
<1>4. c \in Config
  BY <1>1, <1>2 DEF newBundleConfig, Config, Partial
<1> QED
  BY <1>1, <1>2, <1>3, <1>4

\* start-all-in-one's overrides leave the network, the key and the addresses alone.
LEMMA Overrides ==
    ASSUME NEW c \in Config
    PROVE  LET d == applyAllInOneDefaults(c) IN
           /\ d \in Config
           /\ d.identity = c.identity /\ d.account = c.account
           /\ d.ext = c.ext /\ d.listen = c.listen
           /\ d.coordinator = Own.coordinator /\ d.consensus = Own.consensus
           /\ d.redis = Own.filenode
<1> DEFINE d == applyAllInOneDefaults(c)
<1>1. Uri("embedded", "unset") \in Uris /\ Uri("embedded", "majority") \in Uris
  BY DEF Uri, Uris
<1>2. d \in Config
  BY <1>1 DEF applyAllInOneDefaults, Config, Partial
<1>3. /\ d.identity = c.identity /\ d.account = c.account
      /\ d.ext = c.ext /\ d.listen = c.listen
      /\ d.coordinator = Uri("embedded", "unset") /\ d.consensus = Uri("embedded", "majority")
      /\ d.redis = "embedded"
  BY DEF applyAllInOneDefaults, Config
<1> QED
  BY <1>2, <1>3 DEF Own

\* Every service's node has the config's account and network.
LEMMA NodeKeys ==
    ASSUME NEW c
    PROVE  /\ Keys(NodeConfigs(c)) = {<<c.account, c.identity>>}
           /\ \A s \in DOMAIN NodeConfigs(c) : NodeConfigs(c)[s].node = Node(c)
<1>1. DOMAIN NodeConfigs(c) = {"coordinator", "consensus", "filenode", "sync"}
  BY DEF NodeConfigs
<1>2. \A s \in DOMAIN NodeConfigs(c) : NodeConfigs(c)[s].node = Node(c)
  BY <1>1 DEF NodeConfigs, filenodeConfig
<1>3. Node(c).account = c.account /\ Node(c).network.network = c.identity
  BY DEF Node, networkCfg
<1> QED
  BY <1>1, <1>2, <1>3 DEF Keys

\* The places of the fields in the two files, as numbers.
LEMMA Positions ==
    /\ Fields(Layout) = {"format", "ext", "identity", "account", "listen",
                         "coordinator", "consensus", "redis", "s3", "limit"}
    /\ Position(Layout, "format") = 1 /\ Position(Layout, "ext") = 2
    /\ Position(Layout, "identity") = 3 /\ Position(Layout, "account") = 4
    /\ Position(Layout, "listen") = 5 /\ Position(Layout, "coordinator") = 6
    /\ Position(Layout, "consensus") = 7 /\ Position(Layout, "redis") = 8
    /\ Position(Layout, "s3") = 9 /\ Position(Layout, "limit") = 10
    /\ Len(Layout) = 10
<1>1. DOMAIN Layout = 1 .. 10 /\ Len(Layout) = 10
  BY DEF Layout
<1>2. /\ Layout[1] = "format" /\ Layout[2] = "ext" /\ Layout[3] = "identity"
      /\ Layout[4] = "account" /\ Layout[5] = "listen" /\ Layout[6] = "coordinator"
      /\ Layout[7] = "consensus" /\ Layout[8] = "redis" /\ Layout[9] = "s3"
      /\ Layout[10] = "limit"
  BY DEF Layout
<1>3. \A i, j \in 1 .. 10 : Layout[i] = Layout[j] => i = j
  BY <1>2
<1>4. \A j \in 1 .. 10 : Position(Layout, Layout[j]) = j
  BY <1>1, <1>3 DEF Position
<1>5. Fields(Layout) = {Layout[j] : j \in 1 .. 10}
  BY <1>1 DEF Fields
<1>6. Fields(Layout) = {"format", "ext", "identity", "account", "listen",
                       "coordinator", "consensus", "redis", "s3", "limit"}
  BY <1>2, <1>5
<1> QED
  BY <1>1, <1>2, <1>4, <1>6

LEMMA ClientPositions ==
    /\ Fields(ClientLayout) = {"network", "peer", "addrs", "listen"}
    /\ Position(ClientLayout, "network") = 1 /\ Position(ClientLayout, "peer") = 2
    /\ Position(ClientLayout, "addrs") = 3 /\ Position(ClientLayout, "listen") = 4
    /\ Len(ClientLayout) = 4
<1>1. DOMAIN ClientLayout = 1 .. 4 /\ Len(ClientLayout) = 4
  BY DEF ClientLayout
<1>2. /\ ClientLayout[1] = "network" /\ ClientLayout[2] = "peer"
      /\ ClientLayout[3] = "addrs" /\ ClientLayout[4] = "listen"
  BY DEF ClientLayout
<1>3. \A i, j \in 1 .. 4 : ClientLayout[i] = ClientLayout[j] => i = j
  BY <1>2
<1>4. \A j \in 1 .. 4 : Position(ClientLayout, ClientLayout[j]) = j
  BY <1>1, <1>3 DEF Position
<1>5. Fields(ClientLayout) = {ClientLayout[j] : j \in 1 .. 4}
  BY <1>1 DEF Fields
<1>6. Fields(ClientLayout) = {"network", "peer", "addrs", "listen"}
  BY <1>2, <1>5
<1> QED
  BY <1>1, <1>2, <1>4, <1>6

\* A field of a file cut short is whole, cut or missing, by its place.
LEMMA PrefixFields ==
    ASSUME NEW layout, NEW c, NEW n \in Nat, NEW v \in {Missing, Cut},
           NEW f \in Fields(layout), Position(layout, f) \in Nat
    PROVE  LET t == Prefix(layout, c, n, v) IN
           /\ t[f] = c[f] \/ t[f] \in {Missing, Cut}
           /\ Position(layout, f) <= n => t[f] = c[f]
           /\ Position(layout, f) > n + 1 => t[f] = Missing
  BY DEF Prefix

\* A file cut short is still of its type, and if it loads its key is whole: redis,
\* which Validate asks for, comes after the key and the databases.
LEMMA TornFile ==
    ASSUME NEW c \in Config, Sound(c), NEW t \in Torn(Layout, c)
    PROVE  \/ t = Unreadable
           \/ t \in Config /\ (Valid(t) => Sound(t))
<1> SUFFICES ASSUME t # Unreadable
             PROVE  t \in Config /\ (Valid(t) => Sound(t))
  OBVIOUS
<1>1. PICK n \in 0 .. 10, v \in {Missing, Cut} : t = Prefix(Layout, c, n, v)
  BY Positions DEF Torn
<1>2. \A f \in Fields(Layout) : /\ t[f] = c[f] \/ t[f] \in {Missing, Cut}
                                /\ Position(Layout, f) <= n => t[f] = c[f]
                                /\ Position(Layout, f) > n + 1 => t[f] = Missing
  <2>1. \A f \in Fields(Layout) : Position(Layout, f) \in Nat
    BY Positions
  <2> QED
    BY <1>1, <2>1, PrefixFields
<1>3. /\ t.format \in Partial({CurrentBundleFormat})
      /\ t.ext \in Partial({{a} : a \in Addr})
      /\ t.identity \in Partial(1 .. MaxNetworks)
      /\ t.account \in Partial(1 .. MaxNetworks)
      /\ t.listen \in Partial(Addr \cup {"0.0.0.0"})
  BY <1>2, Positions DEF Config, Partial
<1>4. /\ t.coordinator \in Partial(Uris) /\ t.consensus \in Partial(Uris)
      /\ t.redis \in Partial({"external", "embedded"})
      /\ t.s3 \in Partial({"complete", "incomplete"})
      /\ t.limit \in Partial({"default", "explicit"})
  BY <1>2, Positions DEF Config, Partial
<1>5. t \in Config
  BY <1>1, <1>3, <1>4, Positions DEF Prefix, Config
<1>6. ASSUME Valid(t) PROVE Sound(t)
  <2>1. t.redis # Missing
    BY <1>6 DEF Valid
  <2>2. n >= 7
    BY <2>1, <1>2, Positions
  <2>3. /\ t.identity = c.identity /\ t.account = c.account
        /\ t.coordinator = c.coordinator /\ t.consensus = c.consensus
    BY <2>2, <1>2, Positions
  <2>4. t.redis = c.redis \/ t.redis \in {Missing, Cut}
    BY <1>2, Positions
  <2> QED
    BY <2>3, <2>4, MarkerAssumption DEF Sound
<1> QED
  BY <1>5, <1>6

\* A client config cut short names no other network or node, and tells where the
\* node is only if it says which it is.
LEMMA TornClient ==
    ASSUME NEW c \in Config, NEW t \in Torn(ClientLayout, YamlClientConfig(c))
    PROVE  \/ t = Unreadable
           \/ /\ t \in ClientConfig
              /\ t.network \in {c.identity, Cut, Missing}
              /\ t.peer \in {c.account, Cut, Missing}
              /\ t.addrs # Missing => t.network = c.identity /\ t.peer = c.account
<1> DEFINE y == YamlClientConfig(c)
<1> SUFFICES ASSUME t # Unreadable
             PROVE  /\ t \in ClientConfig
                    /\ t.network \in {c.identity, Cut, Missing}
                    /\ t.peer \in {c.account, Cut, Missing}
                    /\ t.addrs # Missing => t.network = c.identity /\ t.peer = c.account
  OBVIOUS
<1>1. PICK n \in 0 .. 4, v \in {Missing, Cut} : t = Prefix(ClientLayout, y, n, v)
  BY ClientPositions DEF Torn
<1>2. \A f \in Fields(ClientLayout) :
         /\ t[f] = y[f] \/ t[f] \in {Missing, Cut}
         /\ Position(ClientLayout, f) <= n => t[f] = y[f]
         /\ Position(ClientLayout, f) > n + 1 => t[f] = Missing
  <2>1. \A f \in Fields(ClientLayout) : Position(ClientLayout, f) \in Nat
    BY ClientPositions
  <2> QED
    BY <1>1, <2>1, PrefixFields
<1>3. /\ y \in ClientConfig
      /\ y.network = c.identity /\ y.peer = c.account
  BY ClientTyped, ClientFields
<1> HIDE DEF y
<1>4. t \in ClientConfig
  <2>1. /\ t.network \in Partial(1 .. MaxNetworks) /\ t.peer \in Partial(1 .. MaxNetworks)
        /\ t.addrs \in Partial({{a} : a \in Addr})
        /\ t.listen \in Partial(Addr \cup {"0.0.0.0"})
    BY <1>2, <1>3, ClientPositions DEF ClientConfig, Partial
  <2> QED
    BY <1>1, <2>1, ClientPositions DEF Prefix, ClientConfig
<1>5. t.network \in {c.identity, Cut, Missing} /\ t.peer \in {c.account, Cut, Missing}
  BY <1>2, <1>3, ClientPositions
<1>6. t.addrs # Missing => t.network = c.identity /\ t.peer = c.account
  BY <1>2, <1>3, ClientPositions
<1> QED
  BY <1>4, <1>5, <1>6

\* The operator's edits keep a file that loads, with its key and its databases.
EditOf(f, g) ==
    \/ \E a \in Addr : g = [f EXCEPT !.ext = {a}]
    \/ \E a \in Addr : g = [f EXCEPT !.listen = a]
    \/ g = [f EXCEPT !.limit = "explicit"]

SameKeyAndDatabases(f, g) ==
    /\ g.format = f.format /\ g.identity = f.identity /\ g.account = f.account
    /\ g.coordinator = f.coordinator /\ g.consensus = f.consensus
    /\ g.redis = f.redis /\ g.s3 = f.s3

LEMMA Edited ==
    ASSUME NEW f \in Config, Valid(f), NEW g, EditOf(f, g)
    PROVE  g \in Config /\ Valid(g) /\ SameKeyAndDatabases(f, g)
<1>1. CASE \E a \in Addr : g = [f EXCEPT !.ext = {a}]
  <2>1. PICK a \in Addr : g = [f EXCEPT !.ext = {a}]
    BY <1>1
  <2>2. g \in Config /\ SameKeyAndDatabases(f, g) /\ g.ext = {a} /\ g.listen = f.listen
    BY <2>1 DEF Config, Partial, SameKeyAndDatabases
  <2> QED
    BY <2>2, MarkerAssumption DEF Valid, SameKeyAndDatabases
<1>2. CASE \E a \in Addr : g = [f EXCEPT !.listen = a]
  <2>1. PICK a \in Addr : g = [f EXCEPT !.listen = a]
    BY <1>2
  <2>2. g \in Config /\ SameKeyAndDatabases(f, g) /\ g.ext = f.ext /\ g.listen = a
    BY <2>1 DEF Config, Partial, SameKeyAndDatabases
  <2> QED
    BY <2>2, MarkerAssumption DEF Valid, SameKeyAndDatabases
<1>3. CASE g = [f EXCEPT !.limit = "explicit"]
  <2>2. g \in Config /\ SameKeyAndDatabases(f, g) /\ g.ext = f.ext /\ g.listen = f.listen
    BY <1>3 DEF Config, Partial, SameKeyAndDatabases
  <2> QED
    BY <2>2 DEF Valid, SameKeyAndDatabases
<1> QED
  BY <1>1, <1>2, <1>3 DEF EditOf

-----------------------------------------------------------------------------
(* The invariant *)

LEMMA Initially == ASSUME Init PROVE IInv
<1>1. TypeOK
  BY NetworksAssumption DEF Init, TypeOK
<1>2. FileInv /\ StartInv /\ LastInv
  BY Written DEF Init, FileInv, StartInv, LastInv, Loads
<1>3. ClientNamesKeptNetwork /\ RunsWhole /\ ClientMatches
  BY Written DEF Init, ClientNamesKeptNetwork, RunsWhole, ClientMatches
<1> QED
  BY <1>1, <1>2, <1>3 DEF IInv

\* What a process that ends leaves behind is sound.
LEMMA Ending ==
    ASSUME IInv, Down, UNCHANGED <<file, client, last>>, networks' \in networks .. MaxNetworks
    PROVE  IInv'
<1> USE DEF IInv, Down
<1>n. networks \in Nat /\ networks' \in 0 .. MaxNetworks
  BY NetworksAssumption DEF TypeOK
<1>1. TypeOK'
  BY <1>n DEF TypeOK
<1>2. FileInv'
  BY <1>n DEF FileInv, Sound, Loads, Readable, Valid
<1>3. StartInv' /\ LastInv'
  BY DEF StartInv, LastInv
<1>4. ClientNamesKeptNetwork' /\ RunsWhole' /\ ClientMatches'
  BY DEF ClientNamesKeptNetwork, RunsWhole, ClientMatches, Readable, Valid
<1> QED
  BY <1>1, <1>2, <1>3, <1>4

LEMMA StartStep == ASSUME IInv, Start PROVE IInv'
<1> USE DEF IInv, Start
<1>1. TypeOK'
  BY DEF TypeOK, Modes
<1>2. FileInv' /\ StartInv' /\ LastInv'
  BY DEF FileInv, StartInv, LastInv, Sound, Loads, Readable, Valid
<1>3. ClientNamesKeptNetwork' /\ RunsWhole' /\ ClientMatches'
  BY DEF ClientNamesKeptNetwork, RunsWhole, ClientMatches, Readable, Valid
<1> QED
  BY <1>1, <1>2, <1>3

LEMMA LoadStep == ASSUME IInv, Load PROVE IInv'
<1>n. networks \in networks .. MaxNetworks
  BY NetworksAssumption DEF IInv, TypeOK
<1>1. CASE Down
  BY <1>1, <1>n, Ending DEF Load
<1>2. CASE ~Down
  <2>a. /\ pc = "stat" /\ Readable(file) /\ Valid(file)
        /\ cfg' = file /\ pc' = "openClient"
        /\ UNCHANGED <<file, client, mode, nodes, networks, last>>
    BY <1>2 DEF Load
  <2>1. TypeOK'
    BY <2>a DEF IInv, TypeOK, Readable
  <2>2. FileInv' /\ StartInv' /\ LastInv'
    BY <2>a DEF IInv, FileInv, StartInv, LastInv, Sound, Loads, Readable, Valid
  <2>3. ClientNamesKeptNetwork' /\ RunsWhole' /\ ClientMatches'
    BY <2>a DEF IInv, ClientNamesKeptNetwork, RunsWhole, ClientMatches, Readable, Valid
  <2> QED
    BY <2>1, <2>2, <2>3 DEF IInv
<1> QED
  BY <1>1, <1>2

LEMMA CreateStep == ASSUME IInv, CreateWrite PROVE IInv'
<1>n. networks \in Nat /\ networks' = networks + 1 /\ networks' \in 1 .. MaxNetworks
  BY NetworksAssumption DEF IInv, TypeOK, CreateWrite
<1>1. CASE Down
  <2>1. networks' \in networks .. MaxNetworks
    BY <1>n, NetworksAssumption
  <2> QED
    BY <1>1, <2>1, Ending DEF CreateWrite
<1>2. CASE ~Down
  <2>a. PICK f \in Flags :
          /\ pc = "stat" /\ file = NoFile
          /\ Valid(newBundleConfig(f, networks'))
          /\ cfg' = newBundleConfig(f, networks') /\ pc' = "open"
          /\ UNCHANGED <<file, client, mode, nodes, last>>
    BY <1>2 DEF CreateWrite
  <2>b. cfg' \in Config /\ Sound(cfg)'
    BY <2>a, <1>n, NewConfig DEF Sound
  <2>c. Valid(cfg)'
    BY <2>a DEF Valid
  <2>d. ~Readable(file) /\ ~Readable(client) /\ last.mode = "none"
    BY <2>a, Written DEF IInv, FileInv, Loads
  <2>1. TypeOK'
    BY <2>a, <2>b, <1>n DEF IInv, TypeOK
  <2>2. FileInv' /\ LastInv'
    BY <2>a, <2>d DEF IInv, FileInv, LastInv, Loads, Readable
  <2>3. StartInv'
    BY <2>a, <2>b, <2>c DEF IInv, StartInv
  <2>4. ClientNamesKeptNetwork' /\ RunsWhole' /\ ClientMatches'
    BY <2>a, <2>d DEF IInv, ClientNamesKeptNetwork, RunsWhole, ClientMatches, Readable, Valid
  <2> QED
    BY <2>1, <2>2, <2>3, <2>4 DEF IInv
<1> QED
  BY <1>1, <1>2

LEMMA OpenFileStep == ASSUME IInv, OpenFile PROVE IInv'
<1> USE DEF IInv, OpenFile
<1>d. ~Readable(file) /\ ~Readable(file') /\ ~Readable(client) /\ last.mode = "none"
  BY Written DEF FileInv, StartInv, Loads
<1>1. TypeOK'
  BY DEF TypeOK
<1>2. FileInv' /\ LastInv'
  BY <1>d DEF FileInv, LastInv, Loads, Readable
<1>3. StartInv'
  BY DEF StartInv, Valid, Sound
<1>4. ClientNamesKeptNetwork' /\ RunsWhole' /\ ClientMatches'
  BY <1>d DEF ClientNamesKeptNetwork, RunsWhole, ClientMatches, Readable, Valid
<1> QED
  BY <1>1, <1>2, <1>3, <1>4

LEMMA WriteFileStep == ASSUME IInv, WriteFile PROVE IInv'
<1> USE DEF IInv, WriteFile
<1>c. cfg \in Config /\ Valid(cfg) /\ Sound(cfg)
  BY DEF TypeOK, StartInv
<1>d. ~Readable(client) /\ last.mode = "none"
  BY Written DEF FileInv, StartInv, Loads
<1>1. TypeOK'
  BY <1>c DEF TypeOK
<1>2. FileInv' /\ LastInv'
  BY <1>c, <1>d DEF FileInv, LastInv, Loads, Readable, Sound
<1>3. StartInv'
  BY <1>c DEF StartInv, Valid
<1>4. ClientNamesKeptNetwork' /\ RunsWhole' /\ ClientMatches'
  BY <1>d DEF ClientNamesKeptNetwork, RunsWhole, ClientMatches, Readable, Valid
<1> QED
  BY <1>1, <1>2, <1>3, <1>4

LEMMA WriteFailsStep == ASSUME IInv, WriteFails PROVE IInv'
<1> USE DEF IInv, WriteFails, Down
<1>c. cfg \in Config /\ Sound(cfg)
  BY DEF TypeOK, StartInv
<1>d. ~Readable(client) /\ last.mode = "none"
  BY Written DEF FileInv, StartInv, Loads
<1>t. file' = Unreadable \/ (file' \in Config /\ (Valid(file') => Sound(file')))
  BY <1>c, TornFile
<1>1. TypeOK'
  BY <1>t DEF TypeOK
<1>2. FileInv' /\ LastInv'
  BY <1>t, <1>d, Written DEF FileInv, LastInv, Loads, Readable, Sound, Valid
<1>3. StartInv'
  BY DEF StartInv
<1>4. ClientNamesKeptNetwork' /\ RunsWhole' /\ ClientMatches'
  BY <1>d DEF ClientNamesKeptNetwork, RunsWhole, ClientMatches, Readable, Valid
<1> QED
  BY <1>1, <1>2, <1>3, <1>4

LEMMA OpenClientStep == ASSUME IInv, OpenClient PROVE IInv'
<1> USE DEF IInv, OpenClient
<1>1. TypeOK'
  BY DEF TypeOK
<1>2. FileInv' /\ LastInv'
  BY Written DEF FileInv, LastInv, Loads, Readable, Valid, Sound
<1>3. StartInv'
  BY DEF StartInv, Valid
<1>4. ClientNamesKeptNetwork' /\ RunsWhole' /\ ClientMatches'
  BY Written DEF ClientNamesKeptNetwork, RunsWhole, ClientMatches
<1> QED
  BY <1>1, <1>2, <1>3, <1>4

LEMMA WriteClientStep == ASSUME IInv, WriteClient PROVE IInv'
<1> USE DEF IInv, WriteClient
<1>c. cfg \in Config /\ file = cfg /\ Valid(cfg) /\ Loads(file)
  BY Written DEF TypeOK, StartInv, Loads
<1>1. TypeOK'
  BY <1>c, ClientTyped DEF TypeOK
<1>2. FileInv' /\ LastInv'
  BY <1>c DEF FileInv, LastInv, Loads, Readable, Valid, Sound
<1>3. StartInv'
  BY <1>c DEF StartInv, Valid, YamlClientConfig
<1>4. ClientNamesKeptNetwork' /\ RunsWhole' /\ ClientMatches'
  <2>1. Readable(file')
    BY <1>c DEF Loads
  <2> QED
    BY <1>c, <2>1, ClientFields DEF ClientNamesKeptNetwork, RunsWhole, ClientMatches
<1> QED
  BY <1>1, <1>2, <1>3, <1>4

LEMMA WriteClientFailsStep == ASSUME IInv, WriteClientFails PROVE IInv'
<1> USE DEF IInv, WriteClientFails, Down
<1>c. cfg \in Config /\ file = cfg /\ Valid(cfg) /\ Loads(file) /\ Loads(file')
  BY Written DEF TypeOK, StartInv, Loads, Readable, Valid
<1>t. \/ client' = Unreadable
      \/ /\ client' \in ClientConfig
         /\ client'.network \in {cfg.identity, Cut, Missing}
         /\ client'.peer \in {cfg.account, Cut, Missing}
         /\ client'.addrs # Missing => client'.network = cfg.identity /\ client'.peer = cfg.account
  BY <1>c, TornClient
<1>1. TypeOK'
  BY <1>t DEF TypeOK
<1>2. FileInv' /\ LastInv'
  BY <1>c DEF FileInv, LastInv, Sound
<1>3. StartInv'
  BY DEF StartInv
<1>4. ClientNamesKeptNetwork'
  BY <1>c, <1>t, Written DEF ClientNamesKeptNetwork, Loads
<1>5. RunsWhole' /\ ClientMatches'
  BY DEF RunsWhole, ClientMatches
<1> QED
  BY <1>1, <1>2, <1>3, <1>4, <1>5

\* What a mode makes of a sound config that loads.
LEMMA EffectiveIsWhole ==
    ASSUME NEW c \in Config, Valid(c), Sound(c), NEW m \in Modes
    PROVE  LET d == Effective(m, c) IN
           /\ d \in Config
           /\ d.identity = c.identity /\ d.account = c.account
           /\ d.ext = c.ext /\ d.listen = c.listen
           /\ \A s \in DOMAIN Own : /\ Databases(NodeConfigs(d))[s] # Missing
                                    /\ m = "allInOne" <=> Databases(NodeConfigs(d))[s] = Own[s]
<1> DEFINE d == Effective(m, c)
<1> DEFINE dbs == Databases(NodeConfigs(d))
<1>1. DOMAIN Own = {"coordinator", "consensus", "filenode"}
  BY DEF Own
<1>2. /\ dbs.coordinator = d.coordinator /\ dbs.consensus = d.consensus
      /\ dbs.filenode = d.redis
  BY DEF Databases, NodeConfigs, filenodeConfig
<1>3. /\ Own.coordinator \in Uris /\ Own.coordinator.server = "embedded"
      /\ Own.consensus \in Uris /\ Own.consensus.server = "embedded"
      /\ Own.filenode = "embedded"
  BY DEF Own, Uri, Uris
<1>4. CASE m = "allInOne"
  <2>1. d = applyAllInOneDefaults(c)
    BY <1>4 DEF Effective
  <2>2. /\ d \in Config
        /\ d.identity = c.identity /\ d.account = c.account
        /\ d.ext = c.ext /\ d.listen = c.listen
        /\ d.coordinator = Own.coordinator /\ d.consensus = Own.consensus
        /\ d.redis = Own.filenode
    BY <2>1, Overrides
  <2> HIDE DEF d, dbs
  <2>3. \A s \in DOMAIN Own : dbs[s] = Own[s] /\ Own[s] # Missing
    BY <1>1, <1>2, <1>3, <2>2, MarkerAssumption
  <2> QED
    BY <1>4, <2>2, <2>3 DEF d, dbs
<1>5. CASE m = "bundle"
  <2>1. d = c
    BY <1>5 DEF Effective
  <2>2. Missing \notin {c.coordinator, c.consensus, c.redis}
    BY DEF Valid
  <2>3. /\ c.coordinator # Own.coordinator /\ c.consensus # Own.consensus
        /\ c.redis # Own.filenode
    BY <1>3 DEF Sound
  <2> HIDE DEF d, dbs
  <2>4. \A s \in DOMAIN Own : dbs[s] # Own[s] /\ dbs[s] # Missing
    BY <1>1, <1>2, <2>1, <2>2, <2>3
  <2> QED
    BY <1>5, <2>1, <2>4 DEF d, dbs
<1> QED
  BY <1>4, <1>5 DEF Modes

LEMMA RunStep == ASSUME IInv, Run PROVE IInv'
<1>a. /\ pc = "run" /\ pc' = "running" /\ mode \in Modes
      /\ cfg' = Effective(mode, cfg)
      /\ nodes' = NodeConfigs(cfg')
      /\ last' = [mode |-> mode, nodes |-> nodes', edited |-> FALSE]
      /\ UNCHANGED <<file, client, mode, networks>>
  BY DEF IInv, Run, Effective, TypeOK, StartInv
<1>b. /\ cfg \in Config /\ file = cfg /\ Valid(cfg) /\ client = YamlClientConfig(cfg)
      /\ Loads(file)
  BY <1>a, Written DEF IInv, TypeOK, StartInv, Loads
<1>c. Sound(cfg)
  BY <1>b DEF IInv, FileInv
<1>d. /\ cfg' \in Config
      /\ cfg'.identity = cfg.identity /\ cfg'.account = cfg.account
      /\ cfg'.ext = cfg.ext /\ cfg'.listen = cfg.listen
      /\ \A s \in DOMAIN Own : /\ Databases(nodes')[s] # Missing
                               /\ mode = "allInOne" <=> Databases(nodes')[s] = Own[s]
  BY <1>a, <1>b, <1>c, EffectiveIsWhole
<1>e. last'.mode = mode /\ last'.nodes = nodes' /\ last'.edited = FALSE
  BY <1>a
<1>f. Keys(nodes') = {<<cfg.account, cfg.identity>>}
  BY <1>a, <1>d, NodeKeys
<1>1. TypeOK'
  <2>1. last' = [mode |-> last'.mode, nodes |-> last'.nodes, edited |-> last'.edited]
    BY <1>a, <1>e
  <2> QED
    BY <1>a, <1>d, <1>e, <2>1 DEF IInv, TypeOK
<1>2. FileInv'
  BY <1>a, <1>b DEF IInv, FileInv, Loads, Readable, Valid, Sound
<1>3. StartInv'
  BY <1>a DEF IInv, StartInv
<1>4. LastInv'
  BY <1>a, <1>b, <1>e, <1>f DEF LastInv
<1>5. ClientNamesKeptNetwork'
  BY <1>a DEF IInv, ClientNamesKeptNetwork, Readable
<1>6. RunsWhole'
  <2>1. \A k \in Keys(nodes') : k[1] = k[2] /\ k[2] \in 1 .. networks'
    BY <1>a, <1>c, <1>f DEF Sound
  <2> QED
    BY <1>a, <1>d, <2>1 DEF RunsWhole
<1>7. ClientMatches'
  <2>1. Readable(client')
    BY <1>a, <1>b, ClientTyped, Written
  <2>2. /\ client'.addrs = cfg'.ext /\ client'.network = cfg'.identity
        /\ client'.peer = cfg'.account /\ client'.listen = cfg'.listen
    BY <1>a, <1>b, <1>d, ClientFields
  <2>3. \A s \in DOMAIN nodes' : nodes'[s].node = Node(cfg')
    BY <1>a, NodeKeys
  <2>4. /\ Node(cfg').account = cfg'.account /\ Node(cfg').listen = cfg'.listen
        /\ Node(cfg').network.network = cfg'.identity
    BY DEF Node, networkCfg
  <2> QED
    BY <2>1, <2>2, <2>3, <2>4 DEF ClientMatches
<1> QED
  BY <1>1, <1>2, <1>3, <1>4, <1>5, <1>6, <1>7 DEF IInv

LEMMA ExitStep == ASSUME IInv, Exit PROVE IInv'
<1>1. networks' \in networks .. MaxNetworks
  BY NetworksAssumption DEF Exit, IInv, TypeOK
<1> QED
  BY <1>1, Ending DEF Exit

LEMMA EditStep == ASSUME IInv, Edit PROVE IInv'
<1>a. /\ pc \in {"down", "running"} /\ Loads(file) /\ file \in Config
      /\ EditOf(file, file')
      /\ last' = [last EXCEPT !.edited = TRUE]
      /\ UNCHANGED <<client, pc, mode, cfg, nodes, networks>>
  BY DEF IInv, TypeOK, Edit, EditOf, Loads, Readable
<1>b. file' \in Config /\ Valid(file') /\ SameKeyAndDatabases(file, file')
  BY <1>a, Edited DEF Loads
<1>c. Loads(file')
  BY <1>b, Written DEF Loads
<1>d. /\ last'.mode = last.mode /\ last'.nodes = last.nodes /\ last'.edited = TRUE
      /\ last' = [mode |-> last'.mode, nodes |-> last'.nodes, edited |-> last'.edited]
  <2>1. last = [mode |-> last.mode, nodes |-> last.nodes, edited |-> last.edited]
    BY DEF IInv, TypeOK
  <2> QED
    BY <1>a, <2>1
<1>1. TypeOK'
  BY <1>a, <1>b, <1>d DEF IInv, TypeOK
<1>2. FileInv'
  BY <1>a, <1>b, <1>c, <1>d DEF IInv, FileInv, Sound, SameKeyAndDatabases, Loads
<1>3. StartInv'
  BY <1>a DEF IInv, StartInv
<1>4. LastInv'
  BY <1>b, <1>d DEF IInv, LastInv, SameKeyAndDatabases
<1>5. ClientNamesKeptNetwork'
  BY <1>a, <1>b, <1>c DEF IInv, ClientNamesKeptNetwork, SameKeyAndDatabases, Loads, Readable
<1>6. RunsWhole' /\ ClientMatches'
  BY <1>a DEF IInv, RunsWhole, ClientMatches, Readable
<1> QED
  BY <1>1, <1>2, <1>3, <1>4, <1>5, <1>6 DEF IInv

LEMMA RemoveStep == ASSUME IInv, Remove PROVE IInv'
<1> USE DEF IInv, Remove
<1>d. ~Readable(file') /\ ~Readable(client) /\ last.mode = "none"
  BY Written DEF FileInv, Loads
<1>1. TypeOK'
  BY DEF TypeOK
<1>2. FileInv' /\ LastInv'
  BY <1>d DEF FileInv, LastInv, Loads, Readable
<1>3. StartInv'
  BY DEF StartInv
<1>4. ClientNamesKeptNetwork' /\ RunsWhole' /\ ClientMatches'
  BY <1>d DEF ClientNamesKeptNetwork, RunsWhole, ClientMatches, Readable, Valid
<1> QED
  BY <1>1, <1>2, <1>3, <1>4

LEMMA Step == ASSUME IInv, [Next]_vars PROVE IInv'
<1>1. CASE UNCHANGED vars
  <2>1. TypeOK' /\ FileInv' /\ StartInv' /\ LastInv'
    BY <1>1 DEF vars, IInv, TypeOK, FileInv, StartInv, LastInv, Loads, Readable, Valid, Sound
  <2>2. ClientNamesKeptNetwork' /\ RunsWhole' /\ ClientMatches'
    BY <1>1 DEF vars, IInv, ClientNamesKeptNetwork, RunsWhole, ClientMatches, Readable, Valid
  <2> QED
    BY <2>1, <2>2 DEF IInv
<1> QED
  BY <1>1, StartStep, LoadStep, CreateStep, OpenFileStep, WriteFileStep, WriteFailsStep,
     OpenClientStep, WriteClientStep, WriteClientFailsStep, RunStep, ExitStep, EditStep,
     RemoveStep DEF Next

-----------------------------------------------------------------------------
(* Theorems *)

\* Wherever starts are cut short and whatever the operator edits or removes, each
\* copy of the configuration is where IInv says, and a file that loads holds one
\* whole key (config/bundle.go, config/client.go).
THEOREM Invariance == Spec => []IInv
BY Initially, Step, PTL DEF Spec

\* The files, the configuration in memory and the history keep to their types.
THEOREM TypeCorrect == Spec => []TypeOK
<1>1. IInv => TypeOK
  BY DEF IInv
<1> QED
  BY <1>1, Invariance, PTL

\* The network that a client config names, and its key, are in a bundle config that
\* loads: no start that is cut short, while it writes either file, and no removal
\* of a refused file loses them (README.md:145, config/client.go:42).
THEOREM NetworkIsNeverLost == Spec => []ClientNamesKeptNetwork
<1>1. IInv => ClientNamesKeptNetwork
  BY DEF IInv
<1> QED
  BY <1>1, Invariance, PTL

\* No service ever runs with part of a key, although a file cut short can load; and
\* the command alone decides whether the embedded databases are used (start.go:48).
THEOREM RunsAreWhole == Spec => []RunsWhole
<1>1. IInv => RunsWhole
  BY DEF IInv
<1> QED
  BY <1>1, Invariance, PTL

\* Where MajorityWrites does fail, it fails for start-bundle: start-all-in-one gives
\* consensus majority writes with any file, one whose URI asks for fewer and one that
\* was cut short included (infra.go:106-110).
THEOREM OwnDatabaseHasMajority ==
    Spec => [](pc = "running" /\ mode = "allInOne" => nodes.consensus.mongo.w = "majority")
<1>1. RunsWhole => (pc = "running" /\ mode = "allInOne" => nodes.consensus.mongo.w = "majority")
  <2> SUFFICES ASSUME pc = "running", mode = "allInOne", RunsWhole
               PROVE  nodes.consensus.mongo.w = "majority"
    OBVIOUS
  <2>1. DOMAIN Own = {"coordinator", "consensus", "filenode"}
    BY DEF Own
  <2>2. Databases(nodes).consensus = Own.consensus
    BY <2>1 DEF RunsWhole
  <2>3. Own.consensus.w = "majority"
    BY DEF Own, Uri
  <2> QED
    BY <2>2, <2>3 DEF Databases
<1> QED
  BY <1>1, RunsAreWhole, PTL

\* While services run, the client config tells of them (client.go:31).
THEOREM ClientsMatch == Spec => []ClientMatches
<1>1. IInv => ClientMatches
  BY DEF IInv
<1> QED
  BY <1>1, Invariance, PTL

\* A restart keeps the node's identity, and everything else that was not edited but
\* the time stamp of the network, whatever its own options are (bundle_test.go:217, README.md:208).
THEOREM RestartsKeep == Spec => RestartKeeps
<1> DEFINE Keeps == pc = "run" /\ pc' = "running" /\ last.mode # "none" =>
        /\ Keys(nodes') = Keys(last.nodes)
        /\ mode = last.mode /\ ~last.edited => nodes' = last.nodes
<1>1. ASSUME IInv, [Next]_vars PROVE Keeps
  <2>1. SUFFICES ASSUME pc = "run", pc' = "running", last.mode # "none"
                 PROVE  /\ Keys(nodes') = Keys(last.nodes)
                        /\ mode = last.mode /\ ~last.edited => nodes' = last.nodes
    OBVIOUS
  <2>2. Run
    BY <1>1, <2>1 DEF Next, vars, Start, Load, CreateWrite, OpenFile, WriteFile, WriteFails,
       OpenClient, WriteClient, WriteClientFails, Exit, Edit, Remove, Down
  <2>3. cfg' = Effective(mode, cfg) /\ nodes' = NodeConfigs(cfg')
    BY <2>2 DEF Run, Effective
  <2>4. file = cfg /\ cfg \in Config /\ mode \in Modes
    BY <1>1, <2>1 DEF IInv, StartInv, TypeOK
  <2>5. cfg'.identity = cfg.identity /\ cfg'.account = cfg.account
    BY <2>3, <2>4, Overrides DEF Effective
  <2>6. Keys(nodes') = {<<file.account, file.identity>>}
    BY <2>3, <2>4, <2>5, NodeKeys
  <2> QED
    BY <1>1, <2>1, <2>3, <2>4, <2>6 DEF IInv, LastInv
<1>2. Spec => [][Keeps]_vars
  <2>1. IInv /\ [Next]_vars => [Keeps]_vars
    BY <1>1
  <2> QED
    BY <2>1, Invariance, PTL DEF Spec
<1> QED
  BY <1>2 DEF RestartKeeps
=============================================================================
