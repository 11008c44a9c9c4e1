------------------------------ MODULE Assembly ------------------------------
(***************************************************************************)
(* The bundle as NewBundle puts it together (lightnode/anynodes.go): four  *)
(* upstream Apps with their components, three of them children of the      *)
(* coordinator's, and two transports that the coordinator initializes and  *)
(* the bundle runs.                                                        *)
(*                                                                         *)
(* Services says when an App starts and closes; here its components do so  *)
(* one by one, as any-sync's app.App has them: all are initialized in the  *)
(* order of their registration, then all are run; the first that fails     *)
(* makes the App close them again; Close goes backwards. So the components *)
(* of an App that have been initialized, and those that run, are prefixes  *)
(* of its list, and their lengths are all there is to know.                *)
(***************************************************************************)
EXTENDS Services, Sequences

CONSTANT S3Bucket    \* the bundle config names an S3 bucket

ASSUME BucketAssumption == S3Bucket \in BOOLEAN

VARIABLES
    inited,     \* for each App, how many components have been initialized
    running     \* and how many run

appVars == <<vars, inited, running>>

-----------------------------------------------------------------------------
(* NewBundle                                                                 *)

Transports == <<"tcp", "udp">>

newCoordinatorApp ==
    <<"config", "db", "metric", "account", "nodeconfstore", "nodeconf", "nodeconfsource",
      "deletionlog", "peerservice", "pool", "secureservice", "server", "coordinatorlog",
      "acleventlog", "spacestatus", "consensusclient", "acl", "subscribe", "inbox",
      "accountlimit", "fileusage", "identityrepo", "invitestore", "coordinator",
      Transports[1], Transports[2]>>

\* The standalone consensus node's list, network included.
Mut_newConsensusApp ==
    <<"config", "consensusdb", "coordinatorclient", "stream", "consensusrpc", "deletelog", "server">>

newConsensusApp ==
    <<"config", "consensusdb", "coordinatorclient", "stream", "consensusrpc", "deletelog">>

selectFileStore == IF S3Bucket THEN "s3store" ELSE "lightfilenodestore"

newFileNodeApp ==
    <<"config", "stat", "coordinatorclient", selectFileStore, "redisprovider", "index",
      "filenode", "deletelog">>

newSyncApp ==
    <<"config", "debugstat", "credentialprovider", "coordinatorclient", "nodestorage",
      "syncqueues", "nodeclient", "consensusclient", "streamopener", "streampool", "nodehead",
      "nodecache", "hotsync", "coldsync", "nodesync", "commonspace", "nodespace",
      "pubsubrelay", "spacedeleter", "peermanager", "debugserver", "spacechecker",
      "nodedebugrpc", "archivestore", "archive", "adopter", "resharder", "repairer">>

App == <<newCoordinatorApp, newConsensusApp, newFileNodeApp, newSyncApp>>
coordinator == 1
consensus   == 2

ASSUME AppAssumption == NumServices = Len(App) /\ NumListeners = Len(Transports)

\* The bare transport is registered.
Mut_Deferred(c) == FALSE

\* The components wrapped in deferredTransport: Run and Close do nothing.
Deferred(c) == \E l \in Listener : Transports[l] = c

Has(s, name)   == \E i \in DOMAIN App[s] : App[s][i] = name
Index(s, name) == CHOOSE i \in DOMAIN App[s] : App[s][i] = name

\* app.Component in an App made by ChildApp: its own components, then the
\* coordinator's. The answer is the App that owns it.
Owner(s, name) == IF Has(s, name) THEN s ELSE coordinator

Runs(s, name) == Has(s, name) /\ Index(s, name) <= running[s]

AssemblyTypeOK ==
    /\ TypeOK
    /\ \A s \in Service : /\ inited[s] \in 0 .. Len(App[s])
                          /\ running[s] \in 0 .. inited[s]

AssemblyInit ==
    /\ Init
    /\ inited = [s \in Service |-> 0]
    /\ running = [s \in Service |-> 0]

-----------------------------------------------------------------------------
(* App.Start of the service whose turn it is                                 *)

InitComponent ==
    /\ svcPC = "starting"
    /\ inited[at] < Len(App[at])
    /\ inited' = [inited EXCEPT ![at] = @ + 1]
    /\ UNCHANGED <<cause, svcVars, running>>

\* A transport that runs listens, whoever runs it.
RunComponent ==
    /\ svcPC = "starting"
    /\ inited[at] = Len(App[at]) /\ running[at] < Len(App[at])
    /\ LET c == App[at][running[at] + 1] IN
         lst' = [l \in Listener |->
                   IF c = Transports[l] /\ ~Deferred(c) THEN "open" ELSE lst[l]]
    /\ running' = [running EXCEPT ![at] = @ + 1]
    /\ UNCHANGED <<cause, svc, svcPC, at, err, closeErr, ready, inited>>

Started ==
    /\ ServiceStarts
    /\ running[at] = Len(App[at])
    /\ UNCHANGED <<inited, running>>

\* A component fails in Init or Run; the App closes what it had begun.
Unwound ==
    /\ ServiceFails
    /\ running[at] < Len(App[at])
    /\ running' = [running EXCEPT ![at] = 0]
    /\ UNCHANGED inited

-----------------------------------------------------------------------------
(* App.Close, and everything else that runServices does                      *)

CloseComponent ==
    /\ svcPC = "closing"
    /\ running[at] > 0
    /\ running' = [running EXCEPT ![at] = @ - 1]
    /\ UNCHANGED <<cause, svcVars, inited>>

\* Every component is closed, those after a failing one too.
Closed ==
    /\ ServiceCloses
    /\ running[at] = 0
    /\ UNCHANGED <<inited, running>>

\* A listener runs with what Init gave it.
OpenListener ==
    /\ \/ /\ ListenerOpens
          /\ inited[coordinator] >= Index(coordinator, Transports[at])
       \/ ListenerFails
    /\ UNCHANGED <<inited, running>>

OtherStep ==
    /\ \/ CheckRoot \/ TestReady \/ EmitReady \/ RootStops \/ Classify \/ Fail
       \/ CloseListener \/ CloseService \/ RunServicesReturns
       \/ (OperatorStop \/ EmbeddedLoss) /\ UNCHANGED svcVars
    /\ UNCHANGED <<inited, running>>

AssemblyNext ==
    \/ InitComponent \/ RunComponent \/ Started \/ Unwound
    \/ CloseComponent \/ Closed \/ OpenListener \/ OtherStep

AssemblySpec == AssemblyInit /\ [][AssemblyNext]_appVars

-----------------------------------------------------------------------------
(* Properties *)

\* The network that the other Apps share (anynodes_test.go:86-89), and what the
\* consensus App's requests need from the moment it can dial (106-107).
Network == {"account", "metric", "nodeconf", "nodeconfstore", "peerservice", "pool",
            "secureservice", "server", "acl"}
Needs(s, name) ==
    (IF s = coordinator THEN {} ELSE Network)
        \cup (IF s = consensus /\ name = "coordinatorclient" THEN {"consensusdb"} ELSE {})

\* Whatever a component uses runs for as long as the component does. The network
\* is the coordinator's, not a second copy of it that nothing else is connected
\* to (anynodes.go:91-96).
UsesRunning ==
    \A s \in Service : \A i \in 1 .. running[s] : \A name \in Needs(s, App[s][i]) :
        /\ Runs(Owner(s, name), name)
        /\ name \in Network => Owner(s, name) = coordinator

\* While a listener is open every component of every App runs, from the first
\* request to the last: transports run after all of them and close before any
\* (anynodes.go:98-103), though one of the Apps has them in its list.
RequestsServed ==
    (\E l \in Listener : lst[l] = "open") =>
        \A s \in Service : running[s] = Len(App[s])
=============================================================================
