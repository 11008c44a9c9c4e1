--------------------------- MODULE AssemblyProofs ---------------------------
(***************************************************************************)
(* Theorems about Assembly for every set of embedded databases and with    *)
(* either file store. Every step of the assembled bundle is a step of      *)
(* Services or leaves it alone (AssemblyUses), so what ServicesProofs says *)
(* holds here; AppInv adds how far each App has come with its components.  *)
(***************************************************************************)
EXTENDS Assembly, ServicesProofs

\* How many components are initialized and run, by the state of their App.
AppInv ==
    /\ inited \in [Service -> Nat] /\ running \in [Service -> Nat]
    /\ \A s \in Service :
          /\ inited[s] <= Len(App[s])
          /\ running[s] > 0 => inited[s] = Len(App[s])
          /\ running[s] <= Len(App[s])
          /\ svc[s] = "up" => running[s] = Len(App[s])
          /\ svc[s] \in {"new", "unwound", "closed"} => running[s] = 0

AssemblyIInv == IInv /\ AppInv

-----------------------------------------------------------------------------
(* The four lists *)

LEMMA FourApps ==
    /\ Service = 1 .. 4 /\ Listener = 1 .. 2
    /\ App[1] = newCoordinatorApp /\ App[2] = newConsensusApp
    /\ App[3] = newFileNodeApp /\ App[4] = newSyncApp
BY AppAssumption DEF Service, Listener, App, Transports

LEMMA Lengths ==
    /\ Len(App[1]) = 26 /\ DOMAIN App[1] = 1 .. 26
    /\ Len(App[2]) = 6 /\ DOMAIN App[2] = 1 .. 6
    /\ Len(App[3]) = 8 /\ DOMAIN App[3] = 1 .. 8
    /\ Len(App[4]) = 28 /\ DOMAIN App[4] = 1 .. 28
    /\ \A s \in Service : Len(App[s]) \in Nat
<1>1. Len(newCoordinatorApp) = 26 /\ DOMAIN newCoordinatorApp = 1 .. 26
  BY DEF newCoordinatorApp
<1>2. Len(newConsensusApp) = 6 /\ DOMAIN newConsensusApp = 1 .. 6
  BY DEF newConsensusApp
<1>3. Len(newFileNodeApp) = 8 /\ DOMAIN newFileNodeApp = 1 .. 8
  BY DEF newFileNodeApp
<1>4. Len(newSyncApp) = 28 /\ DOMAIN newSyncApp = 1 .. 28
  BY DEF newSyncApp
<1> QED
  BY <1>1, <1>2, <1>3, <1>4, FourApps

\* The coordinator's App has the whole network,
LEMMA CoordinatorHasNetwork == \A name \in Network : Has(coordinator, name)
<1>1. \A i \in 1 .. 26 : Has(1, newCoordinatorApp[i])
  BY FourApps, Lengths DEF Has
<1>2. /\ Has(1, "metric") /\ Has(1, "account") /\ Has(1, "nodeconfstore")
      /\ Has(1, "nodeconf") /\ Has(1, "peerservice") /\ Has(1, "pool")
      /\ Has(1, "secureservice") /\ Has(1, "server") /\ Has(1, "acl")
  BY <1>1 DEF newCoordinatorApp
<1> QED
  BY <1>2 DEF Network, coordinator

\* and no other App has any of it.
LEMMA NetworkIsNotCopied ==
    \A s \in Service \ {coordinator} : \A name \in Network : ~Has(s, name)
<1>1. \A i \in 1 .. 6 : newConsensusApp[i] \notin Network
  BY DEF newConsensusApp, Network
<1>2. \A i \in 1 .. 8 : newFileNodeApp[i] \notin Network
  BY DEF newFileNodeApp, Network, selectFileStore
<1>3. \A i \in 1 .. 28 : newSyncApp[i] \notin Network
  BY DEF newSyncApp, Network
<1>4. SUFFICES ASSUME NEW s \in 2 .. 4, NEW i \in DOMAIN App[s] PROVE App[s][i] \notin Network
  BY FourApps DEF Has, coordinator
<1>5. CASE s = 2
  BY <1>1, <1>4, <1>5, FourApps, Lengths
<1>6. CASE s = 3
  BY <1>2, <1>4, <1>6, FourApps, Lengths
<1>7. CASE s = 4
  BY <1>3, <1>4, <1>7, FourApps, Lengths
<1> QED
  BY <1>5, <1>6, <1>7

\* The consensus App has its database before what dials the coordinator.
LEMMA DatabaseFirst ==
    /\ Has(consensus, "consensusdb") /\ Index(consensus, "consensusdb") = 2
    /\ \A i \in DOMAIN App[consensus] : App[consensus][i] = "coordinatorclient" => i >= 2
<1>1. /\ App[2][1] = "config" /\ App[2][2] = "consensusdb"
      /\ App[2][3] = "coordinatorclient" /\ App[2][4] = "stream"
      /\ App[2][5] = "consensusrpc" /\ App[2][6] = "deletelog"
  BY FourApps DEF newConsensusApp
<1>2. \A i \in 1 .. 6 : App[2][i] = "consensusdb" => i = 2
  BY <1>1
<1>3. Index(2, "consensusdb") = 2
  BY <1>1, <1>2, Lengths DEF Index
<1> QED
  BY <1>1, <1>3, Lengths DEF Has, consensus

\* No App runs a transport: those in the coordinator's list are wrapped.
LEMMA TransportsDeferred == \A l \in Listener : Deferred(Transports[l])
BY DEF Deferred

-----------------------------------------------------------------------------
(* Assembly implements Services *)

LEMMA AssemblyInitInv == AssemblyInit => Init /\ AssemblyIInv
<1> SUFFICES ASSUME AssemblyInit PROVE AssemblyIInv
  BY DEF AssemblyInit
<1>1. IInv
  BY InitInv DEF AssemblyInit
<1>2. AppInv
  BY Lengths DEF AssemblyInit, Init, AppInv
<1> QED
  BY <1>1, <1>2 DEF AssemblyIInv

\* A component at a time changes nothing that Services sees: above all no
\* listener, though two of the coordinator's components are transports.
LEMMA AssemblyUses == TypeOK /\ [AssemblyNext]_appVars => [Next]_vars
<1> SUFFICES ASSUME TypeOK, [AssemblyNext]_appVars PROVE [Next]_vars
  OBVIOUS
<1>1. CASE InitComponent
  BY <1>1 DEF InitComponent, vars, svcVars
<1>2. CASE RunComponent
  <2>1. lst' = [l \in Listener |-> lst[l]]
    BY <1>2, TransportsDeferred DEF RunComponent
  <2>2. lst' = lst
    BY <2>1 DEF TypeOK
  <2> QED
    BY <1>2, <2>2 DEF RunComponent, vars, svcVars
<1>3. CASE Started
  BY <1>3 DEF Started, Next, ServicesStep
<1>4. CASE Unwound
  BY <1>4 DEF Unwound, Next, ServicesStep
<1>5. CASE CloseComponent
  BY <1>5 DEF CloseComponent, vars, svcVars
<1>6. CASE Closed
  BY <1>6 DEF Closed, Next, ServicesStep
<1>7. CASE OpenListener
  BY <1>7 DEF OpenListener, Next, ServicesStep
<1>8. CASE OtherStep
  BY <1>8 DEF OtherStep, Next, ServicesStep
<1>9. CASE UNCHANGED appVars
  BY <1>9 DEF appVars
<1> QED
  BY <1>1, <1>2, <1>3, <1>4, <1>5, <1>6, <1>7, <1>8, <1>9 DEF AssemblyNext

\* One App at a time starts or closes, component by component.
LEMMA AppStep == AssemblyIInv /\ [AssemblyNext]_appVars => AppInv'
<1> SUFFICES ASSUME TypeOK, SvcInv, AppInv, [AssemblyNext]_appVars PROVE AppInv'
  BY DEF AssemblyIInv, IInv
<1>0. svcPC \in {"starting", "closing"} => at \in Service
  BY DEF TypeOK
<1> USE Lengths, <1>0 DEF AppInv
<1>1. CASE InitComponent
  BY <1>1 DEF InitComponent, svcVars
<1>2. CASE RunComponent
  BY <1>2 DEF RunComponent, SvcInv
<1>3. CASE Started
  BY <1>3 DEF Started, ServiceStarts, TypeOK
<1>4. CASE Unwound
  BY <1>4 DEF Unwound, ServiceFails, TypeOK
<1>5. CASE CloseComponent
  BY <1>5 DEF CloseComponent, svcVars, SvcInv
<1>6. CASE Closed
  BY <1>6 DEF Closed, ServiceCloses, TypeOK
<1>7. CASE OpenListener
  BY <1>7 DEF OpenListener, ListenerOpens, ListenerFails
<1>8. CASE OtherStep
  <2>1. inited' = inited /\ running' = running
    BY <1>8 DEF OtherStep
  <2>2. CASE svc' = svc
    BY <2>1, <2>2
  <2>3. CASE CheckRoot
    BY <2>1, <2>3 DEF CheckRoot, TypeOK
  <2>4. CASE CloseService
    BY <2>1, <2>4 DEF CloseService, TypeOK
  <2> QED
    BY <1>8, <2>2, <2>3, <2>4
       DEF OtherStep, TestReady, EmitReady, RootStops, Classify, Fail, CloseListener,
           RunServicesReturns, svcVars
<1>9. CASE UNCHANGED appVars
  BY <1>9 DEF appVars, vars, svcVars
<1> QED
  BY <1>1, <1>2, <1>3, <1>4, <1>5, <1>6, <1>7, <1>8, <1>9 DEF AssemblyNext

\* The assembled bundle is a Services: nothing that its components do on their
\* way shows there.
THEOREM AssemblyIsServices == AssemblySpec => Spec
<1>1. AssemblyInit => Init /\ TypeOK
  BY AssemblyInitInv DEF AssemblyIInv, IInv
<1>2. TypeOK /\ [AssemblyNext]_appVars => [Next]_vars /\ TypeOK'
  BY AssemblyUses, TypeStep
<1> QED
  BY <1>1, <1>2, PTL DEF AssemblySpec, Spec

\* AssemblyIInv holds in every reachable state.
THEOREM AssemblyInvariance == AssemblySpec => []AssemblyIInv
<1>1. AssemblyIInv /\ [AssemblyNext]_appVars => AssemblyIInv'
  <2> SUFFICES ASSUME AssemblyIInv, [AssemblyNext]_appVars PROVE AssemblyIInv'
    OBVIOUS
  <2>1. [Next]_vars
    BY AssemblyUses DEF AssemblyIInv, IInv
  <2>2. IInv'
    BY <2>1, TypeStep, DependenciesStep, SvcStep, LstStep, ErrStep DEF AssemblyIInv, IInv
  <2> QED
    BY <2>2, AppStep DEF AssemblyIInv
<1> QED
  BY <1>1, AssemblyInitInv, PTL DEF AssemblySpec

\* AssemblyTypeOK: no App goes past the end of its list, nor runs a component
\* that it has not initialized.
THEOREM AssemblyTypeCorrect == AssemblySpec => []AssemblyTypeOK
<1>1. AssemblyIInv => AssemblyTypeOK
  BY Lengths DEF AssemblyIInv, IInv, AppInv, AssemblyTypeOK
<1> QED
  BY <1>1, AssemblyInvariance, PTL

-----------------------------------------------------------------------------
(* What the components are promised *)

\* UsesRunning: whatever a component uses runs as long as it does, and the
\* network it uses is the coordinator's.
THEOREM ComponentsHaveWhatTheyUse == AssemblySpec => []UsesRunning
<1>1. AssemblyIInv => UsesRunning
  <2> SUFFICES ASSUME TypeOK, DependenciesUp, AppInv, NEW s \in Service,
                      NEW i \in 1 .. running[s], NEW name \in Needs(s, App[s][i])
               PROVE  /\ Runs(Owner(s, name), name)
                      /\ name \in Network => Owner(s, name) = coordinator
    BY DEF AssemblyIInv, IInv, UsesRunning
  <2>1. /\ s # coordinator
        /\ name \in Network \/ (s = consensus /\ name = "consensusdb"
                                 /\ App[s][i] = "coordinatorclient")
    BY DEF Needs, coordinator, consensus
  <2>2. i \in DOMAIN App[s] /\ i <= running[s]
    <3>1. running[s] \in Nat /\ running[s] <= Len(App[s])
      BY DEF AppInv
    <3>2. DOMAIN App[s] = 1 .. Len(App[s])
      BY Lengths, FourApps
    <3> QED
      BY <3>1, <3>2
  <2>3. svc[s] \in {"starting", "up", "closing"}
    <3>1. running[s] \in Nat /\ running[s] # 0
      BY <2>2 DEF AppInv
    <3>2. svc[s] \notin {"new", "unwound", "closed"}
      BY <3>1 DEF AppInv
    <3> QED
      BY <3>2 DEF TypeOK
  <2>4. CASE name \in Network
    <3>1. Owner(s, name) = coordinator
      BY <2>1, <2>4, NetworkIsNotCopied DEF Owner
    <3>2. svc[coordinator] = "up"
      <4>1. s \in Nat /\ 1 \in 1 .. s - 1
        BY <2>1, FourApps DEF coordinator
      <4> QED
        BY <2>3, <4>1 DEF DependenciesUp, coordinator
    <3>3. running[coordinator] = 26
      <4>1. coordinator \in Service /\ Len(App[coordinator]) = 26
        BY FourApps, Lengths DEF coordinator
      <4> QED
        BY <3>2, <4>1 DEF AppInv
    <3>4. Has(coordinator, name)
      BY <2>4, CoordinatorHasNetwork
    <3>5. Index(coordinator, name) \in 1 .. 26
      <4>1. \E j \in 1 .. 26 : App[1][j] = name
        BY <3>4, Lengths DEF Has, coordinator
      <4>2. (CHOOSE j \in 1 .. 26 : App[1][j] = name) \in 1 .. 26
        BY <4>1
      <4> QED
        BY <4>2, Lengths DEF Index, coordinator
    <3> QED
      BY <3>1, <3>3, <3>4, <3>5 DEF Runs
  <2>5. CASE s = consensus /\ name = "consensusdb" /\ App[s][i] = "coordinatorclient"
    <3>1. 2 <= running[consensus]
      BY <2>2, <2>5, DatabaseFirst DEF AppInv
    <3>2. Owner(consensus, "consensusdb") = consensus /\ Runs(consensus, "consensusdb")
      BY <3>1, DatabaseFirst DEF Owner, Runs
    <3>3. "consensusdb" \notin Network
      BY DEF Network
    <3> QED
      BY <2>5, <3>2, <3>3
  <2> QED
    BY <2>1, <2>4, <2>5
<1> QED
  BY <1>1, AssemblyInvariance, PTL

\* RequestsServed: an open listener finds every component of every App running.
THEOREM RequestsAreServed == AssemblySpec => []RequestsServed
<1>1. AssemblyIInv => RequestsServed
  BY Promises DEF AssemblyIInv, AppInv, RequestsServed, NoEarlyRequest
<1> QED
  BY <1>1, AssemblyInvariance, PTL

\* NoEarlyRequest, DependenciesUp, AllClosed and OutcomeIsTrue of the bundle as
\* it is assembled: no transport is opened by an App on its way, no App outlives
\* one it borrows from, and what runServices returns is true.
THEOREM AssemblyKeepsPromises ==
    AssemblySpec => [](NoEarlyRequest /\ DependenciesUp /\ AllClosed /\ OutcomeIsTrue)
<1>1. AssemblyIInv => NoEarlyRequest /\ DependenciesUp /\ AllClosed /\ OutcomeIsTrue
  BY Promises DEF AssemblyIInv, OutcomeIsTrue
<1> QED
  BY <1>1, AssemblyInvariance, PTL

\* NoLateStart: no App of the assembled bundle starts after the stop, but the one
\* whose turn it was.
THEOREM NoAppStartsAfterStop == AssemblySpec => NoLateStart
BY AssemblyIsServices, NoStartAfterStop
=============================================================================
