--------------------------- MODULE ServicesProofs ---------------------------
(***************************************************************************)
(* Theorems about Services for any number of services and listeners. The   *)
(* inductive invariant says, for each place runServices can be at, which   *)
(* services and listeners are in which state, and what the startup error   *)
(* and the root context's cause have to do with each other.                *)
(***************************************************************************)
EXTENDS Services, TLAPS

Whole   == {"listen", "announce", "emit", "serving"}
Decided == {"classify", "fail", "closeListeners"}
Closing == {"closeListeners", "closeServices", "closing", "returned"}
Left    == {"up", "new", "unwound"}       \* a service before its Close
Gone    == {"new", "unwound", "closed"}   \* and after it

\* The services, by the place of runServices.
SvcInv ==
    /\ svcPC \in {"check", "starting"} =>
          \A s \in Service : /\ s < at => svc[s] = "up"
                             /\ s > at => svc[s] = "new"
    /\ svcPC = "check" => svc[at] = "new"
    /\ svcPC = "starting" => svc[at] = "starting"
    /\ svcPC \in Whole => \A s \in Service : svc[s] = "up"
    /\ svcPC \in Decided => \A s \in Service : svc[s] \in Left
    /\ svcPC = "closeServices" =>
          \A s \in Service : svc[s] \in IF s <= at THEN Left ELSE Gone
    /\ svcPC = "closing" =>
          /\ svc[at] = "closing"
          /\ \A s \in Service : s # at => svc[s] \in IF s < at THEN Left ELSE Gone
    /\ svcPC = "returned" => \A s \in Service : svc[s] \in Gone

\* The listeners, by the place of runServices.
LstInv ==
    /\ svcPC \in {"check", "starting"} => \A l \in Listener : lst[l] = "new"
    /\ svcPC = "listen" =>
          \A l \in Listener : lst[l] = IF l < at THEN "open" ELSE "new"
    /\ svcPC \in {"announce", "emit", "serving"} => \A l \in Listener : lst[l] = "open"
    /\ svcPC \in Decided => NoEarlyRequest
    /\ svcPC = "closeListeners" => \A l \in Listener : l < at => lst[l] = "closed"
    /\ svcPC \in {"closeServices", "closing", "returned"} =>
          \A l \in Listener : lst[l] = "closed"

\* The startup error and the cause. Between Classify and Fail the root context
\* can still be ended by a signal, but only with an error of the service's own.
ErrInv ==
    /\ err = "stopped" => ctxDone
    /\ svcPC \notin {"classify", "fail"} \cup Closing => err = "none"
    /\ svcPC \in {"classify", "fail"} => err # "none"
    /\ svcPC \in {"fail"} \cup Closing /\ err = "stopped" => cause # Signal
    /\ svcPC \in Closing => ctxDone
    /\ cause = Startup => svcPC \in Closing /\ err # "none"
    /\ svcPC \in Closing /\ err = "none" /\ cause # Signal =>
          \A s \in Service : svc[s] \in {"up", "closing", "closed"}

IInv == TypeOK /\ DependenciesUp /\ SvcInv /\ LstInv /\ ErrInv

-----------------------------------------------------------------------------
\* Both loops have something to begin with, and count upwards.
LEMMA Indexes == 1 \in Service /\ 1 \in Listener /\ Service \subseteq Nat /\ Listener \subseteq Nat
  BY NumAssumption DEF Service, Listener

\* The initial states.
LEMMA InitInv == Init => IInv
<1> SUFFICES ASSUME Init PROVE IInv
  OBVIOUS
<1> USE Indexes DEF Init
<1>1. TypeOK
  BY DEF TypeOK, Pc, Starting, Stopping
<1>2. DependenciesUp
  BY DEF DependenciesUp
<1>3. SvcInv
  BY DEF SvcInv, Whole, Decided, Service
<1>4. LstInv
  BY DEF LstInv, Decided
<1>5. ErrInv
  BY EmbeddedAssumption DEF ErrInv, Closing, NoCause, Signal, Startup
<1> QED
  BY <1>1, <1>2, <1>3, <1>4, <1>5 DEF IInv

\* Types are kept by every step, whatever else holds.
LEMMA TypeStep == TypeOK /\ [Next]_vars => TypeOK'
<1> SUFFICES ASSUME TypeOK, [Next]_vars PROVE TypeOK'
  OBVIOUS
<1> USE NumAssumption DEF TypeOK, Pc, Starting, Stopping, Service, Listener, NoCause, Signal, Startup
<1>1. CASE (OperatorStop \/ EmbeddedLoss) /\ UNCHANGED svcVars
  BY <1>1 DEF OperatorStop, EmbeddedLoss, svcVars, ctxDone
<1>2. CASE CheckRoot
  BY <1>2 DEF CheckRoot, ctxDone
<1>3. CASE ServiceStarts
  BY <1>3 DEF ServiceStarts
<1>4. CASE ServiceFails
  BY <1>4 DEF ServiceFails, CallError, ctxDone
<1>5. CASE ListenerOpens
  BY <1>5 DEF ListenerOpens
<1>6. CASE ListenerFails
  BY <1>6 DEF ListenerFails, CallError, ctxDone
<1>7. CASE TestReady
  BY <1>7 DEF TestReady, ctxDone
<1>8. CASE EmitReady
  BY <1>8 DEF EmitReady
<1>9. CASE RootStops
  BY <1>9 DEF RootStops, ctxDone
<1>10. CASE Classify
  BY <1>10 DEF Classify, stoppedByOperator, ctxDone
<1>11. CASE Fail
  BY <1>11 DEF Fail, stopRoot, ctxDone
<1>12. CASE CloseListener
  <2>1. closeErr' \in BOOLEAN
    BY <1>12, Zenon DEF CloseListener
  <2>2. TypeOK!1' /\ TypeOK!2' /\ TypeOK!3' /\ TypeOK!4' /\ TypeOK!5' /\ TypeOK!6'
        /\ TypeOK!7' /\ TypeOK!8' /\ TypeOK!9' /\ TypeOK!11'
    BY <1>12 DEF CloseListener
  <2> QED
    BY <2>1, <2>2
<1>13. CASE CloseService
  BY <1>13 DEF CloseService
<1>14. CASE ServiceCloses
  <2>1. closeErr' \in BOOLEAN
    BY <1>14, Zenon DEF ServiceCloses
  <2>2. TypeOK!1' /\ TypeOK!2' /\ TypeOK!3' /\ TypeOK!4' /\ TypeOK!5' /\ TypeOK!6'
        /\ TypeOK!7' /\ TypeOK!8' /\ TypeOK!9' /\ TypeOK!11'
    BY <1>14 DEF ServiceCloses
  <2> QED
    BY <2>1, <2>2
<1>15. CASE RunServicesReturns
  BY <1>15 DEF RunServicesReturns
<1>16. CASE UNCHANGED vars
  BY <1>16 DEF vars, svcVars, ctxDone
<1> QED
  BY <1>1, <1>2, <1>3, <1>4, <1>5, <1>6, <1>7, <1>8, <1>9, <1>10, <1>11, <1>12, <1>13, <1>14, <1>15, <1>16 DEF Next, ServicesStep

\* Services come up one after the other and go down in reverse.
LEMMA DependenciesStep == IInv /\ [Next]_vars => DependenciesUp'
<1> SUFFICES ASSUME TypeOK, DependenciesUp, SvcInv, LstInv, [Next]_vars PROVE DependenciesUp'
  BY DEF IInv
<1> USE NumAssumption DEF TypeOK, DependenciesUp, SvcInv, Whole, Decided, Left, Gone, Service
<1>1. CASE (OperatorStop \/ EmbeddedLoss) /\ UNCHANGED svcVars
  BY <1>1 DEF OperatorStop, EmbeddedLoss, svcVars, ctxDone
<1>2. CASE CheckRoot
  BY <1>2 DEF CheckRoot, ctxDone
<1>3. CASE ServiceStarts
  BY <1>3 DEF ServiceStarts
<1>4. CASE ServiceFails
  BY <1>4 DEF ServiceFails, CallError, ctxDone
<1>5. CASE ListenerOpens
  BY <1>5 DEF ListenerOpens
<1>6. CASE ListenerFails
  BY <1>6 DEF ListenerFails, CallError, ctxDone
<1>7. CASE TestReady
  BY <1>7 DEF TestReady, ctxDone
<1>8. CASE EmitReady
  BY <1>8 DEF EmitReady
<1>9. CASE RootStops
  BY <1>9 DEF RootStops, ctxDone
<1>10. CASE Classify
  BY <1>10 DEF Classify, stoppedByOperator, ctxDone
<1>11. CASE Fail
  BY <1>11 DEF Fail, stopRoot, ctxDone
<1>12. CASE CloseListener
  BY <1>12 DEF CloseListener
<1>13. CASE CloseService
  BY <1>13 DEF CloseService
<1>14. CASE ServiceCloses
  BY <1>14 DEF ServiceCloses
<1>15. CASE RunServicesReturns
  BY <1>15 DEF RunServicesReturns
<1>16. CASE UNCHANGED vars
  BY <1>16 DEF vars, svcVars, ctxDone
<1> QED
  BY <1>1, <1>2, <1>3, <1>4, <1>5, <1>6, <1>7, <1>8, <1>9, <1>10, <1>11, <1>12, <1>13, <1>14, <1>15, <1>16 DEF Next, ServicesStep

\* Every step leaves the services as its next place expects them.
LEMMA SvcStep == IInv /\ [Next]_vars => SvcInv'
<1> SUFFICES ASSUME TypeOK, DependenciesUp, SvcInv, [Next]_vars PROVE SvcInv'
  BY DEF IInv
<1> USE NumAssumption DEF TypeOK, SvcInv, Whole, Decided, Left, Gone, Service, Listener
<1>1. CASE (OperatorStop \/ EmbeddedLoss) /\ UNCHANGED svcVars
  BY <1>1 DEF OperatorStop, EmbeddedLoss, svcVars, ctxDone
<1>2. CASE CheckRoot
  BY <1>2 DEF CheckRoot, ctxDone
<1>3. CASE ServiceStarts
  BY <1>3 DEF ServiceStarts
<1>4. CASE ServiceFails
  BY <1>4 DEF ServiceFails, CallError, ctxDone
<1>5. CASE ListenerOpens
  BY <1>5 DEF ListenerOpens
<1>6. CASE ListenerFails
  BY <1>6 DEF ListenerFails, CallError, ctxDone
<1>7. CASE TestReady
  BY <1>7 DEF TestReady, ctxDone
<1>8. CASE EmitReady
  BY <1>8 DEF EmitReady
<1>9. CASE RootStops
  BY <1>9 DEF RootStops, ctxDone
<1>10. CASE Classify
  BY <1>10 DEF Classify, stoppedByOperator, ctxDone
<1>11. CASE Fail
  BY <1>11 DEF Fail, stopRoot, ctxDone
<1>12. CASE CloseListener
  BY <1>12 DEF CloseListener
<1>13. CASE CloseService
  BY <1>13 DEF CloseService
<1>14. CASE ServiceCloses
  BY <1>14 DEF ServiceCloses
<1>15. CASE RunServicesReturns
  BY <1>15 DEF RunServicesReturns
<1>16. CASE UNCHANGED vars
  BY <1>16 DEF vars, svcVars, ctxDone
<1> QED
  BY <1>1, <1>2, <1>3, <1>4, <1>5, <1>6, <1>7, <1>8, <1>9, <1>10, <1>11, <1>12, <1>13, <1>14, <1>15, <1>16 DEF Next, ServicesStep

\* Every step leaves the listeners as its next place expects them.
LEMMA LstStep == IInv /\ [Next]_vars => LstInv'
<1> SUFFICES ASSUME TypeOK, SvcInv, LstInv, [Next]_vars PROVE LstInv'
  BY DEF IInv
<1> USE NumAssumption DEF TypeOK, SvcInv, LstInv, NoEarlyRequest, Whole, Decided, Service, Listener
<1>1. CASE (OperatorStop \/ EmbeddedLoss) /\ UNCHANGED svcVars
  BY <1>1 DEF OperatorStop, EmbeddedLoss, svcVars, ctxDone
<1>2. CASE CheckRoot
  BY <1>2 DEF CheckRoot, ctxDone
<1>3. CASE ServiceStarts
  BY <1>3 DEF ServiceStarts
<1>4. CASE ServiceFails
  BY <1>4 DEF ServiceFails, CallError, ctxDone
<1>5. CASE ListenerOpens
  BY <1>5 DEF ListenerOpens
<1>6. CASE ListenerFails
  BY <1>6 DEF ListenerFails, CallError, ctxDone
<1>7. CASE TestReady
  BY <1>7 DEF TestReady, ctxDone
<1>8. CASE EmitReady
  BY <1>8 DEF EmitReady
<1>9. CASE RootStops
  BY <1>9 DEF RootStops, ctxDone
<1>10. CASE Classify
  BY <1>10 DEF Classify, stoppedByOperator, ctxDone
<1>11. CASE Fail
  BY <1>11 DEF Fail, stopRoot, ctxDone
<1>12. CASE CloseListener
  BY <1>12 DEF CloseListener
<1>13. CASE CloseService
  BY <1>13 DEF CloseService
<1>14. CASE ServiceCloses
  BY <1>14 DEF ServiceCloses
<1>15. CASE RunServicesReturns
  BY <1>15 DEF RunServicesReturns
<1>16. CASE UNCHANGED vars
  BY <1>16 DEF vars, svcVars, ctxDone
<1> QED
  BY <1>1, <1>2, <1>3, <1>4, <1>5, <1>6, <1>7, <1>8, <1>9, <1>10, <1>11, <1>12, <1>13, <1>14, <1>15, <1>16 DEF Next, ServicesStep

\* The error and the cause keep to each other, whoever comes first.
LEMMA ErrStep == IInv /\ [Next]_vars => ErrInv'
<1> SUFFICES ASSUME TypeOK, SvcInv, ErrInv, [Next]_vars PROVE ErrInv'
  BY DEF IInv
<1> USE NumAssumption, EmbeddedAssumption DEF TypeOK, SvcInv, ErrInv, Whole, Decided, Left, Closing, Service, Listener, ctxDone, NoCause, Signal, Startup
<1>1. CASE (OperatorStop \/ EmbeddedLoss) /\ UNCHANGED svcVars
  BY <1>1 DEF OperatorStop, EmbeddedLoss, svcVars, ctxDone
<1>2. CASE CheckRoot
  BY <1>2 DEF CheckRoot, ctxDone
<1>3. CASE ServiceStarts
  BY <1>3 DEF ServiceStarts
<1>4. CASE ServiceFails
  BY <1>4 DEF ServiceFails, CallError, ctxDone
<1>5. CASE ListenerOpens
  BY <1>5 DEF ListenerOpens
<1>6. CASE ListenerFails
  BY <1>6 DEF ListenerFails, CallError, ctxDone
<1>7. CASE TestReady
  BY <1>7 DEF TestReady, ctxDone
<1>8. CASE EmitReady
  BY <1>8 DEF EmitReady
<1>9. CASE RootStops
  BY <1>9 DEF RootStops, ctxDone
<1>10. CASE Classify
  BY <1>10 DEF Classify, stoppedByOperator, ctxDone
<1>11. CASE Fail
  BY <1>11 DEF Fail, stopRoot, ctxDone
<1>12. CASE CloseListener
  BY <1>12 DEF CloseListener
<1>13. CASE CloseService
  BY <1>13 DEF CloseService
<1>14. CASE ServiceCloses
  BY <1>14 DEF ServiceCloses
<1>15. CASE RunServicesReturns
  BY <1>15 DEF RunServicesReturns
<1>16. CASE UNCHANGED vars
  BY <1>16 DEF vars, svcVars, ctxDone
<1> QED
  BY <1>1, <1>2, <1>3, <1>4, <1>5, <1>6, <1>7, <1>8, <1>9, <1>10, <1>11, <1>12, <1>13, <1>14, <1>15, <1>16 DEF Next, ServicesStep

-----------------------------------------------------------------------------
\* The values of all variables stay in their types; in particular the loops never
\* index past the services or the listeners.
THEOREM TypeCorrect == Spec => []TypeOK
<1>1. Init => TypeOK
  BY InitInv DEF IInv
<1> QED
  BY <1>1, TypeStep, PTL DEF Spec

\* IInv holds in every reachable state.
THEOREM Invariance == Spec => []IInv
<1>1. IInv /\ [Next]_vars => IInv'
  BY TypeStep, DependenciesStep, SvcStep, LstStep, ErrStep DEF IInv
<1> QED
  BY <1>1, InitInv, PTL DEF Spec

\* What IInv comes to, for a caller that keeps it too.
LEMMA Promises ==
    IInv => NoEarlyRequest /\ DependenciesUp /\ AllClosed /\ OperatorStopIsNoFailure /\ FailureReported
<1> SUFFICES ASSUME TypeOK, DependenciesUp, SvcInv, LstInv, ErrInv
             PROVE  NoEarlyRequest /\ AllClosed /\ OperatorStopIsNoFailure /\ FailureReported
  BY DEF IInv
<1>1. NoEarlyRequest
  <2>1. CASE svcPC \in Whole \cup Decided
    BY <2>1 DEF NoEarlyRequest, SvcInv, LstInv, Whole, Decided
  <2>2. CASE svcPC \in {"check", "starting", "closeServices", "closing", "returned"}
    BY <2>2 DEF NoEarlyRequest, LstInv
  <2> QED
    BY <2>1, <2>2 DEF TypeOK, Pc, Starting, Stopping, Whole, Decided
<1>2. AllClosed
  BY DEF SvcInv, LstInv, AllClosed, Gone
<1>3. OperatorStopIsNoFailure
  BY DEF ErrInv, OperatorStopIsNoFailure, Closing
<1>4. FailureReported
  <2> SUFFICES ASSUME svcPC = "returned", err = "none", cause # Signal
               PROVE  cause \in Embedded /\ \A s \in Service : svc[s] = "closed"
    BY DEF FailureReported
  <2>1. cause \in Embedded
    BY DEF TypeOK, ErrInv, Closing, ctxDone
  <2>2. \A s \in Service : svc[s] = "closed"
    BY DEF SvcInv, ErrInv, Closing, Gone
  <2> QED
    BY <2>1, <2>2
<1> QED
  BY <1>1, <1>2, <1>3, <1>4

\* NoEarlyRequest: a listener is open only while every service is up, however
\* many there are and wherever the startup fails.
THEOREM NoEarlyRequests == Spec => []NoEarlyRequest
  BY Promises, Invariance, PTL

\* DependenciesUp: from its start to the end of its Close, a service finds all the
\* services before it up.
THEOREM DependenciesStayUp == Spec => []DependenciesUp
  BY Promises, Invariance, PTL

\* AllClosed: when runServices returns nothing is left open or up.
THEOREM EverythingClosed == Spec => []AllClosed
  BY Promises, Invariance, PTL

\* OperatorStopIsNoFailure: the root context's own error is never returned when a
\* signal ended it.
THEOREM OperatorStopsAreNoFailure == Spec => []OperatorStopIsNoFailure
  BY Promises, Invariance, PTL

\* FailureReported: without a signal, a nil result comes only from a bundle that
\* was completely up when a database was lost.
THEOREM FailuresReported == Spec => []FailureReported
  BY Promises, Invariance, PTL

\* OutcomeIsTrue: an operator's stop is returned as such, and a failure as one.
THEOREM OutcomesAreTrue == Spec => []OutcomeIsTrue
  BY OperatorStopsAreNoFailure, FailuresReported, PTL DEF OutcomeIsTrue

\* ReadyIsTrue: bundle_ready is emitted by a bundle that is completely up.
THEOREM ReadinessIsTrue == Spec => ReadyIsTrue
<1> DEFINE Up == /\ \A s \in Service : svc[s] = "up"
                 /\ \A l \in Listener : lst[l] = "open"
<1>1. IInv /\ [Next]_vars => [ready' # ready => Up]_vars
  <2> SUFFICES ASSUME SvcInv, LstInv, [Next]_vars, ready' # ready PROVE Up
    BY DEF IInv
  <2>1. EmitReady
    BY DEF Next, ServicesStep, CheckRoot, ServiceStarts, ServiceFails, ListenerOpens,
           ListenerFails, TestReady, RootStops, Classify, Fail, CloseListener,
           CloseService, ServiceCloses, RunServicesReturns, vars, svcVars
  <2> QED
    BY <2>1 DEF EmitReady, SvcInv, LstInv, Whole
<1> QED
  BY <1>1, Invariance, PTL DEF Spec, ReadyIsTrue

-----------------------------------------------------------------------------
\* A service that has not started is followed only by such services.
NewInv == \A s \in Service : s > 1 /\ svc[s - 1] = "new" => svc[s] = "new"

\* Only CheckRoot begins a service, and SvcInv says which.
LEMMA NewStep == TypeOK /\ SvcInv /\ NewInv /\ [Next]_vars => NewInv'
<1> SUFFICES ASSUME TypeOK, SvcInv, NewInv, [Next]_vars PROVE NewInv'
  OBVIOUS
<1> USE NumAssumption DEF TypeOK, SvcInv, NewInv, Service
<1>1. CASE svc' = svc
  BY <1>1
<1>2. CASE CheckRoot
  BY <1>2 DEF CheckRoot
<1>3. CASE ServiceStarts
  BY <1>3 DEF ServiceStarts
<1>4. CASE ServiceFails
  BY <1>4 DEF ServiceFails
<1>5. CASE CloseService
  BY <1>5 DEF CloseService
<1>6. CASE ServiceCloses
  BY <1>6 DEF ServiceCloses
<1> QED
  BY <1>1, <1>2, <1>3, <1>4, <1>5, <1>6
     DEF Next, ServicesStep, ListenerOpens, ListenerFails, TestReady, EmitReady, RootStops,
         Classify, Fail, CloseListener, RunServicesReturns, vars, svcVars

\* NoLateStart: once the root context is done, only the service whose turn it was
\* can still start.
THEOREM NoStartAfterStop == Spec => NoLateStart
<1> SUFFICES ASSUME NEW s \in Service, s > 1
             PROVE  Spec => [](ctxDone /\ svc[s - 1] = "new" => [](svc[s] = "new"))
  BY DEF NoLateStart
<1> DEFINE Stopped == ctxDone /\ svc[s - 1] = "new"
<1>1. Init => NewInv
  BY DEF Init, NewInv, Service
<1>2. IInv /\ NewInv /\ [Next]_vars => NewInv'
  BY NewStep DEF IInv
<1>3. IInv /\ Stopped /\ [Next]_vars => Stopped'
  <2> SUFFICES ASSUME TypeOK, SvcInv, Stopped, [Next]_vars PROVE Stopped'
    BY DEF IInv
  <2>1. ctxDone'
    BY DEF Next, ServicesStep, CheckRoot, ServiceStarts, ServiceFails, ListenerOpens,
           ListenerFails, TestReady, EmitReady, RootStops, Classify, Fail, CloseListener,
           CloseService, ServiceCloses, RunServicesReturns, vars, svcVars,
           ctxDone, stopRoot, OperatorStop, EmbeddedLoss
  <2>2. svc'[s - 1] = "new"
    <3>1. s - 1 \in Service /\ at \in Nat
      BY NumAssumption DEF Service, TypeOK
    <3> USE <3>1 DEF TypeOK, SvcInv
    <3>2. CASE svc' = svc
      BY <3>2
    <3>3. CASE CheckRoot
      BY <3>3 DEF CheckRoot
    <3>4. CASE ServiceStarts
      BY <3>4 DEF ServiceStarts
    <3>5. CASE ServiceFails
      BY <3>5 DEF ServiceFails
    <3>6. CASE CloseService
      BY <3>6 DEF CloseService
    <3>7. CASE ServiceCloses
      BY <3>7 DEF ServiceCloses
    <3> QED
      BY <3>2, <3>3, <3>4, <3>5, <3>6, <3>7
         DEF Next, ServicesStep, ListenerOpens, ListenerFails, TestReady, EmitReady,
             RootStops, Classify, Fail, CloseListener, RunServicesReturns, vars, svcVars
  <2> QED
    BY <2>1, <2>2
<1>4. NewInv /\ Stopped => svc[s] = "new"
  BY DEF NewInv
<1> QED
  BY <1>1, <1>2, <1>3, <1>4, Invariance, PTL DEF Spec
=============================================================================
