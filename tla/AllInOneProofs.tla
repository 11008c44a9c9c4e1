--------------------------- MODULE AllInOneProofs ---------------------------
(***************************************************************************)
(* Theorems about the start-all-in-one command, for any two databases, any *)
(* ends they may come to, and any number of services and listeners.        *)
(*                                                                         *)
(* The command calls the suite and the bundle as Infra and Services let a  *)
(* caller call them, so that the theorems of InfraProofs and ServicesProofs *)
(* hold of it too (Suite!..., Bundle!...). What is left is an invariant of *)
(* the main goroutine, MainInv, that joins the two.                        *)
(***************************************************************************)
EXTENDS AllInOne, MongoInit, TLAPS

Suite  == INSTANCE InfraProofs
Bundle == INSTANCE ServicesProofs WITH Embedded <- Proc

\* The components' assumptions, as their theorems ask for them.
LEMMA SuiteAssumptions ==
    /\ Proc \cap {Suite!NoCause, Suite!Signal, Suite!Startup} = {}
    /\ Crash \cap {"none", "zero", "sigterm", "sigkill", "canceled"} = {}
  BY DatabaseAssumption, CrashAssumption
     DEF Suite!NoCause, Suite!Signal, Suite!Startup, NoCause, Signal, Startup

LEMMA BundleAssumptions ==
    /\ Proc \cap {Bundle!NoCause, Bundle!Signal, Bundle!Startup} = {}
    /\ NumServices \in Nat \ {0} /\ NumListeners \in Nat \ {0}
  BY DatabaseAssumption, NumAssumption
     DEF Bundle!NoCause, Bundle!Signal, Bundle!Startup, NoCause, Signal, Startup

-----------------------------------------------------------------------------
(* The suite's caller                                                        *)

\* Apart from the suite's own steps, the command only ends the root context, as
\* Infra lets its environment do.
LEMMA SuiteStep == [Next]_vars => [I!Next]_(I!vars)
<1> SUFFICES ASSUME [Next]_vars PROVE [I!Next]_(I!vars)
  OBVIOUS
<1> USE DEF I!vars, I!childVars, I!stopVars, infraVars
<1>1. CASE Refuse \/ Prepare \/ Finish \/ Return \/ Watchdog \/ Classify
  BY <1>1 DEF Refuse, Prepare, Finish, Return, Watchdog, Classify, Exit, GoTo
<1>2. CASE StartInfra
  <2>1. \A p \in Proc : I!Start(p) => I!Next
    BY DEF I!Next
  <2>2. UNCHANGED <<cause, infraVars>> \/ \E p \in Proc : I!Start(p)
    BY <1>2 DEF StartInfra, CheckRoot, StartDatabase, Reachable, SawExit, SawStop, TimesOut,
       InitReplicaSet, InfraFails, Proc
  <2> QED
    BY <2>1, <2>2
<1>3. CASE RunServices
  <2>1. UNCHANGED cause \/ stopRoot(Startup)
    BY <1>3 DEF RunServices, GoTo, S!ServicesStep, S!CheckRoot, S!ServiceStarts, S!ServiceFails,
       S!ListenerOpens, S!ListenerFails, S!TestReady, S!EmitReady, S!RootStops, S!Classify, S!Fail,
       S!CloseListener, S!CloseService, S!ServiceCloses, S!RunServicesReturns,
       S!stopRoot, stopRoot, S!ctxDone, ctxDone, S!NoCause, NoCause, S!Startup, Startup
  <2>2. UNCHANGED infraVars
    BY <1>3 DEF RunServices
  <2> QED
    BY <2>1, <2>2 DEF stopRoot, ctxDone, Startup, NoCause, I!Next, I!StartupFailure, I!Startup, I!NoCause
<1>4. CASE Fail
  BY <1>4 DEF Fail, stopRoot, ctxDone, Startup, NoCause, I!Next, I!StartupFailure, I!Startup, I!NoCause
<1>5. CASE StopInfra
  BY <1>5 DEF StopInfra, I!Next, I!SuiteStep
<1>6. CASE ChildrenStep
  BY <1>6 DEF ChildrenStep, I!Next, I!SuiteStep
<1>7. ASSUME NEW p \in Proc, Accept(p) PROVE UNCHANGED I!vars
  BY <1>7 DEF Accept
<1>8. CASE OperatorStop /\ UNCHANGED <<infraVars, svcVars, mainVars>>
  BY <1>8 DEF OperatorStop, I!Next, I!OperatorStop, I!NoCause, I!Signal, NoCause, Signal
<1>9. CASE UNCHANGED vars
  BY <1>9 DEF vars
<1> QED
  BY <1>1, <1>2, <1>3, <1>4, <1>5, <1>6, <1>7, <1>8, <1>9 DEF Next, MainStep

\* UsesSuite: whatever the command does, it starts and stops its databases as
\* Infra lets any caller do, so that what is proved of Infra holds here.
THEOREM SuiteIsUsed == Spec => UsesSuite
<1>1. Init => I!Init
  BY DEF Init
<1> QED
  BY <1>1, SuiteStep, PTL DEF Spec, UsesSuite, I!Spec

\* I and Suite are one module under two names: Infra, and what is proved of it.
LEMMA SameSuite == I!Spec <=> Suite!Spec
<1> USE DEF I!NoCause, Suite!NoCause, I!Signal, Suite!Signal, I!Startup, Suite!Startup,
            I!ctxDone, Suite!ctxDone, I!stopRoot, Suite!stopRoot,
            I!childVars, Suite!childVars, I!stopVars, Suite!stopVars,
            I!Started, Suite!Started, I!Done, Suite!Done, I!Unlocked, Suite!Unlocked
<1>1. I!StopStep <=> Suite!StopStep
  BY DEF I!StopStep, Suite!StopStep, I!StopLoop, Suite!StopLoop,
     I!CancelChildren, Suite!CancelChildren, I!WaitForProcesses, Suite!WaitForProcesses,
     I!Settle, Suite!Settle, I!KillSurvivor, Suite!KillSurvivor, I!KillLoopEnds, Suite!KillLoopEnds,
     I!Reap, Suite!Reap, I!shutdownError, Suite!shutdownError, I!StopReturns, Suite!StopReturns
<1>2. \A p \in Proc : I!OwnerStep(p) <=> Suite!OwnerStep(p)
  BY DEF I!OwnerStep, Suite!OwnerStep, I!WaitReturns, Suite!WaitReturns, I!Publish, Suite!Publish,
     I!CloseDone, Suite!CloseDone, I!WaitResult, Suite!WaitResult
<1>3. \A p \in Proc : I!WatcherStep(p) <=> Suite!WatcherStep(p)
  BY DEF I!WatcherStep, Suite!WatcherStep, I!SendTerm, Suite!SendTerm,
     I!WaitDelayKill, Suite!WaitDelayKill, I!childrenCtxDone, Suite!childrenCtxDone
<1>4. \A p \in Proc : I!ChildExit(p) <=> Suite!ChildExit(p)
  BY DEF I!ChildExit, Suite!ChildExit, I!Exit, Suite!Exit
<1>5. \A p \in Proc : I!Start(p) <=> Suite!Start(p)
  BY DEF I!Start, Suite!Start
<1>6. /\ I!Handoff <=> Suite!Handoff
      /\ I!ShutdownDeadline <=> Suite!ShutdownDeadline
      /\ I!OperatorStop <=> Suite!OperatorStop
      /\ I!StartupFailure <=> Suite!StartupFailure
  BY DEF I!Handoff, Suite!Handoff, I!ShutdownDeadline, Suite!ShutdownDeadline,
     I!OperatorStop, Suite!OperatorStop, I!StartupFailure, Suite!StartupFailure
<1>7. [I!Next]_(I!vars) <=> [Suite!Next]_(Suite!vars)
  BY <1>1, <1>2, <1>3, <1>4, <1>5, <1>6
     DEF I!Next, Suite!Next, I!SuiteStep, Suite!SuiteStep, I!vars, Suite!vars
<1>8. I!Init <=> Suite!Init
  BY DEF I!Init, Suite!Init
<1> QED
  BY <1>7, <1>8, PTL DEF I!Spec, Suite!Spec

\* The inductive invariant of the suite, carried over.
LEMMA SuiteInvariant == Spec => []Suite!IInv
<1>1. Suite!Spec => []Suite!IInv
  BY Suite!Invariance, SuiteAssumptions
<1> QED
  BY <1>1, SuiteIsUsed, SameSuite, PTL DEF UsesSuite

-----------------------------------------------------------------------------
(* The bundle's caller                                                       *)

\* S and Bundle are one module under two names, too.
LEMMA SameBundle ==
    /\ S!ServicesStep <=> Bundle!ServicesStep
    /\ S!Init <=> Bundle!Init
<1> USE DEF S!NoCause, Bundle!NoCause, S!Signal, Bundle!Signal, S!Startup, Bundle!Startup,
            S!ctxDone, Bundle!ctxDone, S!stopRoot, Bundle!stopRoot,
            S!stoppedByOperator, Bundle!stoppedByOperator, S!CallError, Bundle!CallError,
            S!Service, Bundle!Service, S!Listener, Bundle!Listener
<1>1. S!Init <=> Bundle!Init
  BY DEF S!Init, Bundle!Init
<1>2. S!ServicesStep <=> Bundle!ServicesStep
  BY DEF S!ServicesStep, Bundle!ServicesStep, S!CheckRoot, Bundle!CheckRoot,
     S!ServiceStarts, Bundle!ServiceStarts, S!ServiceFails, Bundle!ServiceFails,
     S!ListenerOpens, Bundle!ListenerOpens, S!ListenerFails, Bundle!ListenerFails,
     S!TestReady, Bundle!TestReady, S!EmitReady, Bundle!EmitReady,
     S!RootStops, Bundle!RootStops, S!Classify, Bundle!Classify, S!Fail, Bundle!Fail,
     S!CloseListener, Bundle!CloseListener, S!CloseService, Bundle!CloseService,
     S!ServiceCloses, Bundle!ServiceCloses, S!RunServicesReturns, Bundle!RunServicesReturns
<1> QED
  BY <1>1, <1>2

\* The first cause wins: whatever happens to a process that is being stopped, the
\* reason for its stop stays.
LEMMA CauseStays == [Next]_vars /\ ctxDone => cause' = cause
<1> SUFFICES ASSUME [Next]_vars, ctxDone PROVE cause' = cause
  OBVIOUS
<1> USE DEF ctxDone, stopRoot, NoCause
<1>1. CASE Refuse \/ Prepare \/ Finish \/ Return \/ Watchdog \/ Classify \/ Fail
  BY <1>1 DEF Refuse, Prepare, Finish, Return, Watchdog, Classify, Fail, Exit
<1>2. CASE StartInfra
  BY <1>2 DEF StartInfra, CheckRoot, StartDatabase, Reachable, SawExit, SawStop, TimesOut,
     InitReplicaSet, InfraFails, I!Start
<1>3. CASE RunServices
  BY <1>3 DEF RunServices, S!ServicesStep, S!CheckRoot, S!ServiceStarts, S!ServiceFails,
     S!ListenerOpens, S!ListenerFails, S!TestReady, S!EmitReady, S!RootStops, S!Classify, S!Fail,
     S!CloseListener, S!CloseService, S!ServiceCloses, S!RunServicesReturns,
     S!stopRoot, S!ctxDone, S!NoCause
<1>4. CASE StopInfra
  BY <1>4 DEF StopInfra, I!Handoff, I!StopStep, I!ShutdownDeadline, I!CancelChildren,
     I!WaitForProcesses, I!Settle, I!StopLoop, I!KillSurvivor, I!KillLoopEnds, I!Reap, I!StopReturns
<1>5. CASE ChildrenStep
  BY <1>5 DEF ChildrenStep, I!ChildExit, I!WatcherStep, I!SendTerm, I!WaitDelayKill,
     I!OwnerStep, I!WaitReturns, I!Publish, I!CloseDone, I!stopRoot, I!ctxDone, I!NoCause
<1>6. ASSUME NEW p \in Proc, Accept(p) PROVE cause' = cause
  BY <1>6 DEF Accept
<1>7. CASE OperatorStop
  BY <1>7 DEF OperatorStop
<1>8. CASE UNCHANGED vars
  BY <1>8 DEF vars
<1> QED
  BY <1>1, <1>2, <1>3, <1>4, <1>5, <1>6, <1>7, <1>8 DEF Next, MainStep

\* Only RunServices and the end of the root context are seen by the bundle.
LEMMA BundleStep == [Next]_vars => [Bundle!Next]_(Bundle!vars) \/ Fail
<1> SUFFICES ASSUME [Next]_vars, ~Fail PROVE [Bundle!Next]_(Bundle!vars)
  OBVIOUS
<1> USE DEF Bundle!vars, Bundle!svcVars, svcVars
<1>1. CASE Refuse \/ Prepare \/ Finish \/ Return \/ Watchdog \/ Classify
  BY <1>1 DEF Refuse, Prepare, Finish, Return, Watchdog, Classify, Exit
<1>2. CASE StartInfra
  BY <1>2 DEF StartInfra, CheckRoot, StartDatabase, Reachable, SawExit, SawStop, TimesOut,
     InitReplicaSet, InfraFails, I!Start
<1>3. CASE RunServices
  BY <1>3, SameBundle DEF RunServices, Bundle!Next
<1>4. CASE StopInfra
  BY <1>4 DEF StopInfra, I!Handoff, I!StopStep, I!ShutdownDeadline, I!CancelChildren,
     I!WaitForProcesses, I!Settle, I!StopLoop, I!KillSurvivor, I!KillLoopEnds, I!Reap, I!StopReturns
<1>5. CASE ChildrenStep
  <2>1. UNCHANGED cause \/ (~Bundle!ctxDone /\ cause' \in Proc)
    BY <1>5 DEF ChildrenStep, I!ChildExit, I!WatcherStep, I!SendTerm, I!WaitDelayKill,
       I!OwnerStep, I!WaitReturns, I!Publish, I!CloseDone, I!stopRoot, I!ctxDone, I!NoCause,
       Bundle!ctxDone, Bundle!NoCause
  <2> QED
    BY <1>5, <2>1 DEF ChildrenStep, Bundle!Next, Bundle!EmbeddedLoss
<1>6. ASSUME NEW p \in Proc, Accept(p) PROVE UNCHANGED Bundle!vars
  BY <1>6 DEF Accept
<1>7. CASE OperatorStop /\ UNCHANGED <<infraVars, svcVars, mainVars>>
  BY <1>7 DEF OperatorStop, Bundle!Next, Bundle!OperatorStop, Bundle!NoCause, Bundle!Signal, NoCause, Signal
<1>8. CASE UNCHANGED vars
  BY <1>8 DEF vars
<1> QED
  BY <1>1, <1>2, <1>3, <1>4, <1>5, <1>6, <1>7, <1>8 DEF Next, MainStep

\* Services' inductive invariant is kept by every step that Services knows.
LEMMA BundleInvariantStep == Bundle!IInv /\ [Bundle!Next]_(Bundle!vars) => Bundle!IInv'
  BY Bundle!TypeStep, Bundle!DependenciesStep, Bundle!SvcStep, Bundle!LstStep, Bundle!ErrStep,
     BundleAssumptions DEF Bundle!IInv

-----------------------------------------------------------------------------
(* The main goroutine                                                        *)

Preparing == {"prepare", "infra", "startMongo", "startRedis", "waitMongo",
              "initReplicaSet", "waitRedis"}
Ending    == {"stop", "return", "exited"}

MainTypeOK ==
    /\ mainPC \in Pc
    /\ accepting \subseteq Proc
    /\ infraErr \in {"none", "stopped", "lost", "failed"}
    /\ avxShown \in BOOLEAN
    /\ code \in {0, 1}
    /\ forced \in BOOLEAN
    /\ complete \in BOOLEAN

\* runServices has not been called.
Untouched ==
    /\ svcPC = "check" /\ at = 1
    /\ svc = [s \in S!Service |-> "new"]
    /\ lst = [l \in S!Listener |-> "new"]
    /\ err = "none" /\ closeErr = FALSE /\ ready = FALSE

\* Either the bundle is as Services has it, or the databases did not come up and
\* it never runs.
BundleInv == Bundle!IInv \/ (Untouched /\ mainPC \in Ending)

\* infra.stop runs after the bundle, or without it.
OrderInv ==
    /\ mainPC \in Preparing \cup {"classify", "fail"} => Untouched
    /\ mainPC \in {"stop", "return"} \/ stopPC # "idle" => svcPC = "returned" \/ Untouched
    /\ stopPC # "idle" => mainPC \in Ending

\* Before infra.stop, a published result means that its owner stopped the root.
LossInv ==
    ~stopping /\ (\E p \in Proc : stage[p] \in Suite!Published) => ctxDone

\* How the startup's error and the cause belong together, as ErrInv of Services
\* has it for the bundle.
CauseInv ==
    /\ mainPC \in Preparing \cup {"services"} => infraErr = "none"
    /\ mainPC \in {"classify", "fail"} => infraErr # "none"
    /\ infraErr \in {"stopped", "lost"} => ctxDone
    /\ infraErr \in {"stopped", "lost"} /\ mainPC # "classify" /\ ~forced => cause # Signal
    /\ mainPC \in {"stop", "return"} /\ svcPC # "returned" /\ infraErr = "none" => cause = Signal

\* What has been reported, and on which grounds.
ReportInv ==
    /\ mainPC = "return" => complete
    /\ complete => /\ mainPC \in {"return", "exited"}
                   /\ stopPC = "returned" /\ ~shutdownErr
                   /\ svcPC = "returned" \/ cause = Signal
    /\ forced => mainPC = "exited"
    /\ mainPC = "exited" /\ ~forced /\ code # 0 /\ stopPC = "returned" => shutdownErr

MainInv == MainTypeOK /\ BundleInv /\ OrderInv /\ LossInv /\ CauseInv /\ ReportInv

LEMMA MainInit == Init => MainInv
<1> SUFFICES ASSUME Init PROVE MainInv
  OBVIOUS
<1>1. Bundle!IInv
  BY SameBundle, Bundle!InitInv, BundleAssumptions DEF Init
<1> QED
  BY <1>1 DEF Init, I!Init, S!Init, MainInv, MainTypeOK, BundleInv, OrderInv, LossInv, CauseInv,
     ReportInv, Untouched, Preparing, Ending, Pc, shutdownErr, Suite!Published

LEMMA MainTypeStep == MainTypeOK /\ [Next]_vars => MainTypeOK'
<1> SUFFICES ASSUME MainTypeOK, [Next]_vars PROVE MainTypeOK'
  OBVIOUS
<1> USE DEF MainTypeOK, mainVars, Pc
<1>1. CASE Refuse \/ Prepare \/ Finish \/ Return \/ Watchdog \/ Classify \/ Fail
  BY <1>1 DEF Refuse, Prepare, Finish, Return, Watchdog, Classify, Fail, Exit, GoTo
<1>2. CASE StartInfra
  BY <1>2 DEF StartInfra, CheckRoot, StartDatabase, Reachable, SawExit, SawStop, TimesOut,
     InitReplicaSet, InfraFails, GoTo
<1>3. CASE RunServices
  BY <1>3 DEF RunServices, GoTo
<1>4. CASE StopInfra \/ ChildrenStep
  BY <1>4 DEF StopInfra, ChildrenStep
<1>5. ASSUME NEW p \in Proc, Accept(p) PROVE MainTypeOK'
  BY <1>5 DEF Accept
<1>6. CASE UNCHANGED mainVars
  BY <1>6
<1> QED
  BY <1>1, <1>2, <1>3, <1>4, <1>5, <1>6 DEF Next, MainStep, vars

LEMMA BundleInvStep == MainInv /\ [Next]_vars => BundleInv'
<1> SUFFICES ASSUME MainInv, [Next]_vars PROVE BundleInv'
  OBVIOUS
<1>1. CASE Fail
  BY <1>1 DEF Fail, GoTo, MainInv, OrderInv, BundleInv, Untouched, Ending, svcVars
<1>2. CASE ~Fail /\ Bundle!IInv
  BY <1>2, BundleStep, BundleInvariantStep DEF BundleInv
<1>3. CASE Untouched /\ mainPC \in Ending
  BY <1>3 DEF Next, MainStep, Refuse, Prepare, StartInfra, CheckRoot, StartDatabase, Reachable,
     SawExit, SawStop, TimesOut, InitReplicaSet, RunServices, Classify, Fail, StopInfra, Finish,
     Return, Watchdog, ChildrenStep, Accept, Exit, vars, mainVars, svcVars, BundleInv, Untouched, Ending
<1> QED
  BY <1>1, <1>2, <1>3 DEF MainInv, BundleInv

\* The steps that leave infra.stop where it is, and those that move it.
LEMMA StopPCStep ==
    [Next]_vars => \/ UNCHANGED <<stopPC, errs, stopping>>
                   \/ StopInfra /\ UNCHANGED <<cause, svcVars, mainVars>>
<1> SUFFICES ASSUME [Next]_vars, ~StopInfra PROVE UNCHANGED <<stopPC, errs, stopping>>
  BY DEF StopInfra, I!Handoff, I!StopStep, I!ShutdownDeadline, I!CancelChildren,
     I!WaitForProcesses, I!Settle, I!StopLoop, I!KillSurvivor, I!KillLoopEnds, I!Reap, I!StopReturns
<1> USE DEF infraVars
<1>1. CASE Refuse \/ Prepare \/ RunServices \/ Finish \/ Return \/ Watchdog \/ Classify \/ Fail
  BY <1>1 DEF Refuse, Prepare, RunServices, Finish, Return, Watchdog, Classify, Fail, Exit
<1>2. CASE StartInfra
  BY <1>2 DEF StartInfra, CheckRoot, StartDatabase, Reachable, SawExit, SawStop, TimesOut,
     InitReplicaSet, InfraFails, I!Start, I!stopVars
<1>3. CASE ChildrenStep
  BY <1>3 DEF ChildrenStep, I!ChildExit, I!WatcherStep, I!SendTerm, I!WaitDelayKill,
     I!OwnerStep, I!WaitReturns, I!Publish, I!CloseDone, I!stopVars
<1>4. ASSUME NEW p \in Proc, Accept(p) PROVE UNCHANGED <<stopPC, errs, stopping>>
  BY <1>4 DEF Accept
<1>5. CASE OperatorStop /\ UNCHANGED <<infraVars, svcVars, mainVars>>
  BY <1>5
<1>6. CASE UNCHANGED vars
  BY <1>6 DEF vars
<1> QED
  BY <1>1, <1>2, <1>3, <1>4, <1>5, <1>6 DEF Next, MainStep

LEMMA OrderInvStep == MainInv /\ [Next]_vars => OrderInv'
<1> SUFFICES ASSUME OrderInv, MainTypeOK, [Next]_vars PROVE OrderInv'
  BY DEF MainInv
<1> USE DEF OrderInv, Preparing, Ending, Untouched, svcVars, mainVars
<1>1. CASE Refuse \/ Prepare \/ Finish \/ Return \/ Watchdog \/ Classify \/ Fail
  BY <1>1 DEF Refuse, Prepare, Finish, Return, Watchdog, Classify, Fail, Exit, GoTo, infraVars
<1>2. CASE StartInfra
  BY <1>2, StopPCStep DEF StartInfra, CheckRoot, StartDatabase, Reachable, SawExit, SawStop, TimesOut,
     InitReplicaSet, InfraFails, GoTo, StopInfra
<1>3. CASE RunServices
  <2>1. CASE svcPC = "returned"
    BY <1>3, <2>1 DEF RunServices, GoTo, infraVars
  <2>2. CASE svcPC # "returned"
    BY <1>3, <2>2 DEF RunServices, infraVars
  <2> QED
    BY <2>1, <2>2
<1>4. CASE StopInfra
  BY <1>4 DEF StopInfra
<1>5. CASE ChildrenStep
  BY <1>5, StopPCStep DEF ChildrenStep, StopInfra
<1>6. ASSUME NEW p \in Proc, Accept(p) PROVE OrderInv'
  BY <1>6 DEF Accept, infraVars
<1>7. CASE UNCHANGED <<infraVars, svcVars, mainVars>>
  BY <1>7 DEF infraVars
<1> QED
  BY <1>1, <1>2, <1>3, <1>4, <1>5, <1>6, <1>7 DEF Next, MainStep, vars

LEMMA LossInvStep == MainInv /\ Suite!IInv /\ [Next]_vars => LossInv'
<1> SUFFICES ASSUME LossInv, Suite!IInv, [Next]_vars PROVE LossInv'
  BY DEF MainInv
<1> USE DEF LossInv, Suite!Published, ctxDone, infraVars
<1>0. ctxDone => ctxDone'
  BY CauseStays
<1>1. CASE Refuse \/ Prepare \/ RunServices \/ Finish \/ Return \/ Watchdog \/ Classify \/ Fail
  BY <1>0, <1>1 DEF Refuse, Prepare, RunServices, Finish, Return, Watchdog, Classify, Fail, Exit
<1>2. CASE StartInfra
  BY <1>0, <1>2 DEF StartInfra, CheckRoot, StartDatabase, Reachable, SawExit, SawStop, TimesOut,
     InitReplicaSet, InfraFails, I!Start, I!stopVars, Suite!IInv, Suite!TypeOK, Suite!Stage
<1>3. CASE StopInfra
  BY <1>0, <1>3 DEF StopInfra, I!Handoff, I!StopStep, I!ShutdownDeadline, I!CancelChildren, I!childVars,
     I!WaitForProcesses, I!Settle, I!StopLoop, I!KillSurvivor, I!KillLoopEnds, I!Reap, I!StopReturns
<1>4. ASSUME NEW p \in Proc, I!ChildExit(p) \/ I!WatcherStep(p) \/ I!OwnerStep(p) PROVE LossInv'
  <2>1. CASE I!Publish(p)
    BY <1>0, <2>1, DatabaseAssumption DEF I!Publish, I!stopRoot, I!ctxDone, I!NoCause, NoCause, I!stopVars
  <2>2. CASE I!ChildExit(p) \/ I!WatcherStep(p) \/ I!WaitReturns(p)
    BY <1>0, <2>2 DEF I!ChildExit, I!WatcherStep, I!SendTerm, I!WaitDelayKill, I!WaitReturns, I!stopVars,
       Suite!IInv, Suite!TypeOK, Suite!Stage
  <2>3. CASE I!CloseDone(p)
    BY <1>0, <2>3 DEF I!CloseDone, I!stopVars
  <2> QED
    BY <1>4, <2>1, <2>2, <2>3 DEF I!OwnerStep
<1>5. CASE UNCHANGED infraVars
  BY <1>0, <1>5
<1> QED
  BY <1>1, <1>2, <1>3, <1>4, <1>5 DEF Next, MainStep, vars, ChildrenStep, Accept

\* An interrupted startup is told from a failed one by the cause alone.
LEMMA CauseInvStep ==
    MainInv /\ Suite!IInv /\ Suite!LossIsNotOperatorStop /\ [Next]_vars => CauseInv'
<1> SUFFICES ASSUME MainInv, Suite!IInv, Suite!LossIsNotOperatorStop, [Next]_vars PROVE CauseInv'
  OBVIOUS
<1> USE DEF MainInv, CauseInv, Preparing, mainVars
<1>0. ctxDone => cause' = cause
  BY CauseStays
<1>1. CASE Refuse \/ Prepare \/ Finish \/ Return
  BY <1>0, <1>1 DEF Refuse, Prepare, Finish, Return, Exit, GoTo, svcVars, ctxDone
<1>2. CASE Watchdog
  BY <1>2 DEF Watchdog, Exit, ctxDone
<1>3. CASE Classify
  <2>1. I!OperatorStopped => cause = Signal
    BY DatabaseAssumption DEF I!OperatorStopped, I!stoppedByOperator, I!ctxDone, I!NoCause, I!Signal,
       Signal, Suite!LossIsNotOperatorStop, Suite!OperatorStopped, Suite!stoppedByOperator,
       Suite!ctxDone, Suite!NoCause, Suite!Signal
  <2>2. ctxDone /\ cause = Signal => I!OperatorStopped
    BY DEF I!OperatorStopped, I!stoppedByOperator, I!ctxDone, I!NoCause, I!Signal, Signal, ctxDone, NoCause
  <2> QED
    BY <1>3, <2>1, <2>2 DEF Classify, ctxDone, svcVars
<1>4. CASE Fail
  BY <1>4 DEF Fail, GoTo, stopRoot, ctxDone, Startup, Signal, NoCause
<1>5. CASE StartInfra
  <2>1. ASSUME NEW p \in Proc, NEW here \in {"waitMongo", "waitRedis"}, SawExit(p, here)
        PROVE ctxDone
    BY <2>1 DEF SawExit, I!Done, OrderInv, Ending, LossInv, Suite!Published, Suite!IInv, Suite!StopInv
  <2>2. (infraErr' = infraErr /\ mainPC' \in Preparing \cup {"services"})
        \/ (mainPC' = "classify" /\ infraErr' # "none" /\ (infraErr' \in {"stopped", "lost"} => ctxDone))
    BY <1>5, <2>1 DEF StartInfra, CheckRoot, StartDatabase, Reachable, SawExit, SawStop, TimesOut,
       InitReplicaSet, InfraFails, GoTo, Proc
  <2>3. mainPC \in Preparing
    BY <1>5 DEF StartInfra, CheckRoot, StartDatabase, Reachable, SawExit, SawStop, TimesOut, InitReplicaSet
  <2> QED
    BY <1>0, <2>2, <2>3 DEF ctxDone
<1>6. CASE RunServices
  <2>1. CASE svcPC = "returned"
    BY <1>0, <1>6, <2>1 DEF RunServices, GoTo, svcVars
  <2>2. CASE svcPC # "returned"
    BY <1>0, <1>6, <2>2 DEF RunServices
  <2> QED
    BY <2>1, <2>2
<1>7. CASE UNCHANGED <<svcVars, mainVars>>
  BY <1>0, <1>7 DEF svcVars, ctxDone, Signal, NoCause
<1>8. ASSUME NEW p \in Proc, Accept(p) PROVE CauseInv'
  BY <1>0, <1>8 DEF Accept, svcVars, ctxDone
<1> QED
  BY <1>1, <1>2, <1>3, <1>4, <1>5, <1>6, <1>7, <1>8 DEF Next, MainStep, vars, StopInfra, ChildrenStep

LEMMA ReportInvStep == MainInv /\ [Next]_vars => ReportInv'
<1> SUFFICES ASSUME MainInv, [Next]_vars PROVE ReportInv'
  OBVIOUS
<1> USE DEF MainInv, ReportInv, shutdownErr, svcVars, mainVars
<1>0. ctxDone => cause' = cause
  BY CauseStays
<1>1. CASE mainPC = "exited"
  BY <1>0, <1>1 DEF Next, vars, infraVars
<1>2. CASE mainPC = "return"
  <2>1. \/ Return \/ Watchdog \/ ChildrenStep
        \/ UNCHANGED <<infraVars, svcVars, mainVars>>
    BY <1>2 DEF Next, vars, MainStep, Refuse, Prepare, StartInfra, CheckRoot, StartDatabase,
       Reachable, SawExit, SawStop, TimesOut, InitReplicaSet, RunServices, Classify, Fail, StopInfra,
       Finish, Accept
  <2>2. UNCHANGED <<stopPC, errs, svcVars, infraErr>>
    BY <1>2, <2>1, StopPCStep DEF Return, Watchdog, ChildrenStep, Exit, infraVars, StopInfra
  <2>3. mainPC' \in {"return", "exited"} /\ complete' = complete
    BY <1>2, <2>1 DEF Return, Watchdog, ChildrenStep, Exit
  <2>4. shutdownErr' = shutdownErr
    BY <2>2
  <2>5. cause = Signal => cause' = Signal
    BY <1>0 DEF ctxDone, Signal, NoCause
  <2>6. forced' => mainPC' = "exited"
    BY <1>2, <2>1 DEF Return, Watchdog, ChildrenStep, Exit
  <2>7. ~(mainPC' = "exited" /\ ~forced' /\ code' # 0)
    BY <1>2, <2>1 DEF Return, Watchdog, ChildrenStep, Exit
  <2> HIDE DEF shutdownErr, svcVars
  <2>8. svcPC' = svcPC
    BY <2>2 DEF svcVars
  <2> QED
    BY <1>2, <2>2, <2>3, <2>4, <2>5, <2>6, <2>7, <2>8
<1>3. CASE Finish
  BY <1>3 DEF Finish, Exit, CauseInv, infraVars
<1>4. CASE Refuse
  BY <1>4 DEF Refuse, Exit, OrderInv, Ending, infraVars
<1>5. CASE Watchdog
  BY <1>5 DEF Watchdog, Exit, infraVars
<1>6. CASE mainPC \notin {"exited", "return"} /\ ~Finish /\ ~Refuse /\ ~Watchdog
  <2>1. ~complete /\ complete' = complete /\ mainPC' \notin {"exited", "return"} /\ forced' = forced
    BY <1>6 DEF Next, vars, MainStep, Prepare, StartInfra, CheckRoot, StartDatabase,
     Reachable, SawExit, SawStop, TimesOut, InitReplicaSet, RunServices, Classify, Fail, StopInfra,
     Return, ChildrenStep, Accept, InfraFails, GoTo
  <2> QED
    BY <1>6, <2>1
<1> QED
  BY <1>1, <1>2, <1>3, <1>4, <1>5, <1>6

\* The invariant of the main goroutine, with the suite's below it.
THEOREM MainInvariance == Spec => [](MainInv /\ Suite!IInv)
<1>1. Suite!Spec => []Suite!LossIsNotOperatorStop
  BY Suite!LossNeverOperatorStop, SuiteAssumptions
<1>2. Spec => []Suite!LossIsNotOperatorStop
  BY <1>1, SuiteIsUsed, SameSuite, PTL DEF UsesSuite
<1>3. MainInv /\ Suite!IInv /\ Suite!LossIsNotOperatorStop /\ [Next]_vars => MainInv'
  BY MainTypeStep, BundleInvStep, OrderInvStep, LossInvStep, CauseInvStep, ReportInvStep DEF MainInv
<1> QED
  BY <1>2, <1>3, MainInit, SuiteInvariant, PTL DEF Spec

-----------------------------------------------------------------------------
(* What follows from it                                                      *)

\* infra.stop has begun only after the bundle, or without it.
LEMMA DownBeforeStop ==
    MainInv /\ stopPC # "idle" =>
        /\ \A s \in S!Service : svc[s] \in {"new", "unwound", "closed"}
        /\ \A l \in S!Listener : lst[l] \in {"new", "closed"}
<1> SUFFICES ASSUME MainInv, stopPC # "idle"
             PROVE  /\ \A s \in S!Service : svc[s] \in {"new", "unwound", "closed"}
                    /\ \A l \in S!Listener : lst[l] \in {"new", "closed"}
  OBVIOUS
<1>1. CASE Untouched
  BY <1>1 DEF Untouched
<1>2. CASE svcPC = "returned" /\ ~Untouched
  BY <1>2 DEF MainInv, BundleInv, Bundle!IInv, Bundle!SvcInv, Bundle!LstInv, Bundle!Gone,
     S!Service, Bundle!Service, S!Listener, Bundle!Listener
<1> QED
  BY <1>1, <1>2 DEF MainInv, OrderInv

\* Every variable keeps its type, the composed modules' included.
THEOREM TypeCorrect == Spec => []TypeOK
<1>1. Suite!IInv => I!TypeOK
  BY DEF Suite!IInv, Suite!TypeOK, I!TypeOK, I!Stage, Suite!Stage, I!Exit, Suite!Exit, I!Pc, Suite!Pc,
     I!Kind, Suite!Kind, I!NoCause, Suite!NoCause, I!Signal, Suite!Signal, I!Startup, Suite!Startup
<1>2. Bundle!TypeOK => S!TypeOK
  BY DEF Bundle!TypeOK, S!TypeOK, Bundle!Service, S!Service, Bundle!Listener, S!Listener,
     Bundle!Pc, S!Pc, Bundle!Starting, S!Starting, Bundle!Stopping, S!Stopping,
     S!NoCause, Bundle!NoCause, S!Signal, Bundle!Signal, S!Startup, Bundle!Startup
<1>3. Untouched /\ Suite!IInv => S!TypeOK
  <2> SUFFICES ASSUME Untouched, Suite!IInv PROVE S!TypeOK
    OBVIOUS
  <2>1. cause \in {S!NoCause, S!Signal, S!Startup} \cup Proc
    BY DEF Suite!IInv, Suite!TypeOK, S!NoCause, Suite!NoCause, S!Signal, Suite!Signal, S!Startup, Suite!Startup
  <2>2. 1 \in S!Service
    BY NumAssumption DEF S!Service
  <2> QED
    BY <2>1, <2>2 DEF Untouched, S!TypeOK, S!Pc, S!Starting
<1>4. MainInv /\ Suite!IInv => TypeOK
  BY <1>1, <1>2, <1>3 DEF MainInv, MainTypeOK, BundleInv, Bundle!IInv, TypeOK
<1> QED
  BY <1>4, MainInvariance, PTL

\* DatabasesOutliveServices: no child is told to stop under a bundle that still
\* uses it.
THEOREM DatabasesStayUp == Spec => []DatabasesOutliveServices
<1>1. MainInv /\ Suite!IInv => DatabasesOutliveServices
  <2> SUFFICES ASSUME MainInv, Suite!IInv, signalled \cup killed # {}
               PROVE  /\ \A s \in S!Service : svc[s] \notin {"starting", "up", "closing"}
                      /\ \A l \in S!Listener : lst[l] # "open"
    BY DEF DatabasesOutliveServices
  <2>1. stopPC # "idle"
    BY DEF Suite!IInv, Suite!StopInv
  <2> QED
    BY <2>1, DownBeforeStop
<1> QED
  BY <1>1, MainInvariance, PTL

\* The suite's promises hold of the databases of this command.
LEMMA SuitePromises ==
    Spec => [](Suite!StopReapsAll /\ Suite!CleanIsClean /\ Suite!OrdinaryStopIsClean)
<1>1. Suite!Spec => []Suite!StopReapsAll
  BY Suite!ReapsAll, SuiteAssumptions
<1>2. Suite!Spec => []Suite!CleanIsClean
  BY Suite!CleanVerdictIsTrue, SuiteAssumptions
<1>3. Suite!Spec => []Suite!OrdinaryStopIsClean
  BY Suite!OrdinaryStopsAreClean, SuiteAssumptions
<1> QED
  BY <1>1, <1>2, <1>3, SuiteIsUsed, SameSuite, PTL DEF UsesSuite

\* The bundle's promises, although it is stopped by more than Services knows and
\* may never run at all.
LEMMA BundlePromises ==
    MainInv => S!NoEarlyRequest /\ S!DependenciesUp /\ S!AllClosed /\ S!OutcomeIsTrue
<1> SUFFICES ASSUME BundleInv PROVE S!NoEarlyRequest /\ S!DependenciesUp /\ S!AllClosed /\ S!OutcomeIsTrue
  BY DEF MainInv
<1> USE DEF S!NoEarlyRequest, S!DependenciesUp, S!AllClosed, S!OutcomeIsTrue,
            S!OperatorStopIsNoFailure, S!FailureReported, S!Service, S!Listener
<1>1. CASE Untouched
  BY <1>1 DEF Untouched
<1>2. CASE Bundle!IInv
  BY <1>2, Bundle!Promises, BundleAssumptions
     DEF Bundle!NoEarlyRequest, Bundle!DependenciesUp, Bundle!AllClosed, Bundle!OperatorStopIsNoFailure,
         Bundle!FailureReported, Bundle!Service, Bundle!Listener, Bundle!Signal, S!Signal
<1> QED
  BY <1>1, <1>2 DEF BundleInv

\* NoEarlyRequest, DependenciesUp, AllClosed and OutcomeIsTrue of Services hold of
\* the bundle that runs on the embedded databases.
THEOREM BundleKeepsPromises ==
    Spec => [](S!NoEarlyRequest /\ S!DependenciesUp /\ S!AllClosed /\ S!OutcomeIsTrue)
  BY BundlePromises, MainInvariance, PTL

\* MarkerIsTrue: bundle_shutdown_complete is emitted only after an operator's stop,
\* with every service closed without error and every database ended in peace.
THEOREM MarkersAreTrue == Spec => []MarkerIsTrue
<1>1. MainInv /\ Suite!IInv /\ Suite!StopReapsAll /\ Suite!CleanIsClean => MarkerIsTrue
  <2> SUFFICES ASSUME MainInv, Suite!IInv, Suite!StopReapsAll, Suite!CleanIsClean, complete
               PROVE  /\ cause = Signal
                      /\ ~closeErr /\ \A s \in S!Service : svc[s] \in {"new", "unwound", "closed"}
                      /\ killed = {}
                      /\ \A p \in I!Started : stage[p] = "done" /\ exit[p] \in {"zero", "sigterm"}
    BY DEF MarkerIsTrue
  <2>1. stopPC = "returned" /\ infraErr = "none" /\ err = "none" /\ errs = {}
    BY DEF MainInv, ReportInv, shutdownErr
  <2>2. ~closeErr
    BY DEF MainInv, ReportInv, shutdownErr
  <2>3. svcPC = "returned" \/ cause = Signal
    BY DEF MainInv, ReportInv
  <2>4. \A s \in S!Service : svc[s] \in {"new", "unwound", "closed"}
    BY <2>1, DownBeforeStop
  <2>5. /\ cause \notin Proc /\ killed = {}
        /\ \A p \in I!Started : stage[p] = "done" /\ exit[p] \in {"zero", "sigterm"}
    BY <2>1 DEF Suite!CleanIsClean, Suite!StopReapsAll, Suite!Started, I!Started
  <2>6. cause = Signal
    BY <2>1, <2>3, <2>5, BundlePromises DEF S!OutcomeIsTrue, S!FailureReported, S!Signal, Signal
  <2> QED
    BY <2>2, <2>4, <2>5, <2>6
<1> QED
  BY <1>1, MainInvariance, SuitePromises, PTL

\* OperatorStopIsClean: an operator's stop that meets no trouble of its own ends
\* with status 0, whatever it interrupts.
THEOREM OperatorStopsAreClean == Spec => []OperatorStopIsClean
<1>1. MainInv /\ Suite!IInv /\ Suite!OrdinaryStopIsClean => OperatorStopIsClean
  <2> SUFFICES ASSUME MainInv, Suite!IInv, Suite!OrdinaryStopIsClean,
                      mainPC = "exited", ~forced, stopPC = "returned", cause = Signal,
                      infraErr # "failed", err # "failed", ~closeErr, ~expired,
                      I!Started \subseteq signalled,
                      \A p \in I!Started : exit[p] \in {"zero", "sigterm"}
               PROVE  code = 0
    BY DEF OperatorStopIsClean
  <2>1. errs = {}
    BY DEF Suite!OrdinaryStopIsClean, Suite!Started, I!Started
  <2>2. infraErr = "none"
    BY DEF MainInv, MainTypeOK, CauseInv
  <2>3. err # "stopped"
    <3>1. CASE svcPC = "returned"
      BY <3>1, BundlePromises DEF S!OutcomeIsTrue, S!OperatorStopIsNoFailure, S!Signal, Signal
    <3>2. CASE Untouched
      BY <3>2 DEF Untouched
    <3> QED
      BY <3>1, <3>2 DEF MainInv, OrderInv
  <2>4. err = "none"
    BY <2>3 DEF MainInv, BundleInv, Bundle!IInv, Bundle!TypeOK, Untouched
  <2>5. ~shutdownErr
    BY <2>1, <2>2, <2>4 DEF shutdownErr
  <2> QED
    BY <2>5 DEF MainInv, ReportInv
<1> QED
  BY <1>1, MainInvariance, SuitePromises, PTL

\* Once the process is being stopped the reason stays what it was, whatever fails
\* on the way down: the first call of stopRoot wins (main.go).
THEOREM FirstCauseWins == Spec => [][ctxDone => UNCHANGED cause]_vars
<1>1. [Next]_vars => [ctxDone => UNCHANGED cause]_vars
  BY CauseStays
<1> QED
  BY <1>1, PTL DEF Spec

-----------------------------------------------------------------------------
(* What the process promises whoever runs it                                 *)

\* Nothing but the end of the process moves the exit status, and it exits with 0
\* only from Return, after the marker.
LEMMA ExitStep ==
    MainInv /\ Next /\ exitStatus' # exitStatus => Process!Exit
<1> SUFFICES ASSUME MainInv, Next, exitStatus' # exitStatus PROVE Process!Exit
  OBVIOUS
<1>1. mainPC # "exited" /\ mainPC' = "exited"
  BY DEF Next, exitStatus
<1>2. Refuse \/ Finish \/ Return \/ Watchdog
  BY <1>1 DEF Next, MainStep, Prepare, StartInfra, CheckRoot, StartDatabase, Reachable, SawExit,
     SawStop, TimesOut, InitReplicaSet, RunServices, Classify, Fail, StopInfra, ChildrenStep, Accept,
     GoTo, InfraFails, mainVars
<1>3. UNCHANGED <<cause, ready, complete>>
  BY <1>1, <1>2 DEF Refuse, Finish, Return, Watchdog, Exit, svcVars
<1>4. code' = 1 \/ (code' = 0 /\ complete)
  BY <1>1, <1>2 DEF Refuse, Finish, Return, Watchdog, Exit, MainInv, ReportInv
<1>5. exitStatus = "none" /\ exitStatus' = (IF code' = 0 THEN "zero" ELSE "failed")
  BY <1>1 DEF exitStatus
<1> QED
  BY <1>3, <1>4, <1>5 DEF Process!Exit

\* A step of runServices, or none of the bundle's.
LEMMA BundleCall == [Next]_vars => RunServices \/ UNCHANGED svcVars
<1> SUFFICES ASSUME [Next]_vars, ~RunServices PROVE UNCHANGED svcVars
  OBVIOUS
<1>1. CASE Refuse \/ Prepare \/ Finish \/ Return \/ Watchdog \/ Classify \/ Fail \/ StopInfra \/ ChildrenStep
  BY <1>1 DEF Refuse, Prepare, Finish, Return, Watchdog, Classify, Fail, StopInfra, ChildrenStep, Exit
<1>2. CASE StartInfra
  BY <1>2 DEF StartInfra, CheckRoot, StartDatabase, Reachable, SawExit, SawStop, TimesOut,
     InitReplicaSet, InfraFails
<1> QED
  BY <1>1, <1>2 DEF Next, MainStep, Accept, vars

LEMMA ReadyStep ==
    MainInv /\ [Next]_vars /\ ready' # ready => Process!BecomeReady
<1> SUFFICES ASSUME MainInv, [Next]_vars, ready' # ready PROVE Process!BecomeReady
  OBVIOUS
<1>1. RunServices
  BY BundleCall DEF svcVars
<1>2. mainPC = "services" /\ UNCHANGED mainVars
  BY <1>1 DEF RunServices, svcVars
<1>3. UNCHANGED <<exitStatus, complete>> /\ exitStatus = "none" /\ ~complete
  BY <1>2 DEF exitStatus, mainVars, MainInv, ReportInv
<1>4. S!EmitReady
  BY <1>1 DEF RunServices, svcVars, S!ServicesStep, S!CheckRoot, S!ServiceStarts, S!ServiceFails,
     S!ListenerOpens, S!ListenerFails, S!TestReady, S!RootStops, S!Classify, S!Fail,
     S!CloseListener, S!CloseService, S!ServiceCloses, S!RunServicesReturns
<1>5. ready' = TRUE /\ cause' = cause
  BY <1>4 DEF S!EmitReady
<1>6. ready \in BOOLEAN
  <2>1. CASE Untouched
    BY <2>1 DEF Untouched
  <2>2. CASE Bundle!IInv
    BY <2>2 DEF Bundle!IInv, Bundle!TypeOK
  <2> QED
    BY <2>1, <2>2 DEF MainInv, BundleInv
<1> QED
  BY <1>3, <1>5, <1>6 DEF Process!BecomeReady

LEMMA CompleteStep ==
    MainInv /\ MarkerIsTrue' /\ [Next]_vars /\ complete' # complete => Process!Complete
<1> SUFFICES ASSUME MainInv, MarkerIsTrue', [Next]_vars, complete' # complete PROVE Process!Complete
  OBVIOUS
<1>1. Finish
  BY DEF Next, vars, mainVars, MainStep, Refuse, Prepare, StartInfra, CheckRoot, StartDatabase,
     Reachable, SawExit, SawStop, TimesOut, InitReplicaSet, RunServices, Classify, Fail, StopInfra,
     Return, Watchdog, ChildrenStep, Accept, Exit, GoTo, InfraFails
<1>2. complete' /\ mainPC = "stop" /\ mainPC' = "return" /\ UNCHANGED <<cause, ready>>
  BY <1>1 DEF Finish, svcVars
<1>3. cause = Signal
  BY <1>2 DEF MarkerIsTrue
<1>4. exitStatus = "none" /\ exitStatus' = "none" /\ ~complete
  BY <1>2 DEF exitStatus, MainInv, ReportInv
<1> QED
  BY <1>2, <1>3, <1>4 DEF Process!Complete, Process!Signal, Signal

\* The safety part of ImplementsProcess: its events and its exit status tell the
\* truth, whatever becomes of databases and services.
THEOREM ProcessIsReliable == Spec => Process!Spec
<1>1. Init => Process!Init
  BY DEF Init, S!Init, I!Init, Process!Init, exitStatus, I!NoCause, Process!NoCause
<1>2. MainInv /\ MarkerIsTrue' /\ [Next]_vars => [Process!Next]_(Process!cvars)
  <2> SUFFICES ASSUME MainInv, MarkerIsTrue', [Next]_vars, ~UNCHANGED Process!cvars PROVE Process!Next
    OBVIOUS
  <2> USE DEF Process!Next
  <2>1. CASE exitStatus' # exitStatus
    <3>1. Next
      BY <2>1 DEF vars, mainVars, exitStatus
    <3> QED
      BY <2>1, <3>1, ExitStep
  <2>2. CASE ready' # ready
    BY <2>2, ReadyStep
  <2>3. CASE complete' # complete
    BY <2>3, CompleteStep
  <2>4. CASE UNCHANGED <<exitStatus, ready, complete>>
    <3>1. cause' # cause
      BY <2>4 DEF Process!cvars
    <3>2. ~ctxDone
      BY <3>1, CauseStays
    <3> QED
      BY <2>4, <3>1, <3>2 DEF Process!RootEnds, Process!ctxDone, Process!NoCause, ctxDone, NoCause
  <2> QED
    BY <2>1, <2>2, <2>3, <2>4
<1> QED
  BY <1>1, <1>2, MainInvariance, MarkersAreTrue, PTL DEF Spec, Process!Spec

-----------------------------------------------------------------------------
(* The attempts at the replica set                                           *)

\* What the attempt knows of the server and of the stop.
AnswerInv ==
    /\ initPC # "done" => result = "pending"
    /\ initPC = "stabilise" => replSet
    /\ initPC \in {"disconnect", "returned"} /\ tryErr = "nil" => replSet
    /\ initPC \in {"disconnect", "returned"} /\ tryErr = "stopped" => ctxDone

\* An attempt has at most two faults; one that fails without a stop has at least
\* one, if not in replSetInitiate then in the status check.
FaultInv ==
    /\ faults <= 2 * attempt
    /\ initPC \in {"delay", "connect", "initiate", "stabilise"} => faults <= 2 * (attempt - 1)
    /\ initPC = "status" => faults <= 2 * attempt - 1
    /\ ~ctxDone =>
          /\ initPC # "done" => faults >= attempt - 1
          /\ initPC = "status" => replSet \/ faults >= attempt
          /\ initPC \in {"disconnect", "returned"} /\ tryErr = "driver" => faults >= attempt

\* AttemptsTypeOK, whatever may end the root context.
RetryTypeOK ==
    /\ replSet \in BOOLEAN
    /\ faults \in 0 .. 2 * Len(attemptDelays)
    /\ initPC \in {"delay", "connect", "initiate", "stabilise", "status",
                   "disconnect", "returned", "done"}
    /\ attempt \in Attempt
    /\ tryErr \in Error
    /\ result \in Error \cup {"pending"}

RetryInv == RetryTypeOK /\ AnswerInv /\ FaultInv /\ ToleratesFaults

LEMMA TenAttempts == Len(attemptDelays) = 10 /\ Attempt = 1 .. 10
<1>1. Len(attemptDelays) = 10
  BY DEF attemptDelays
<1> QED
  BY <1>1 DEF Attempt

LEMMA RetryInit == AttemptsInit => RetryInv
BY TenAttempts DEF AttemptsInit, RetryInv, RetryTypeOK, Error, AnswerInv, FaultInv,
   ToleratesFaults, ctxDone, NoCause

\* The end of the root context is all that the attempts see of the rest.
LEMMA RootStep == RetryInv /\ (ctxDone => ctxDone') /\ UNCHANGED initVars => RetryInv'
BY DEF initVars, RetryInv, RetryTypeOK, AnswerInv, FaultInv, ToleratesFaults

LEMMA RetryStep == RetryInv /\ InitStep => RetryInv'
<1> SUFFICES ASSUME RetryInv, InitStep PROVE RetryInv'
  OBVIOUS
<1> USE TenAttempts DEF RetryInv, RetryTypeOK, Error, AnswerInv, FaultInv,
       ToleratesFaults, ctxDone, NoCause
<1>1. CASE DelayOver
  BY <1>1 DEF DelayOver
<1>2. CASE DelayInterrupted
  BY <1>2 DEF DelayInterrupted, Returns
<1>3. CASE AttemptEnds
  <2>1. CASE tryErr = "nil"
    BY <1>3, <2>1 DEF AttemptEnds, Returns
  <2>2. CASE tryErr # "nil" /\ ctxDone
    BY <1>3, <2>2 DEF AttemptEnds, Returns
  <2>3. CASE tryErr # "nil" /\ ~ctxDone /\ attempt = 10
    BY <1>3, <2>3 DEF AttemptEnds, Returns
  <2>4. CASE tryErr # "nil" /\ ~ctxDone /\ attempt # 10
    <3>1. /\ initPC = "returned" /\ initPC' = "delay" /\ attempt' = attempt + 1
          /\ UNCHANGED <<cause, replSet, faults, tryErr, result>>
      BY <1>3, <2>4 DEF AttemptEnds
    <3>2. attempt \in 1 .. 9 /\ faults \in Nat /\ faults <= 20
      BY <2>4
    <3>3. ~ctxDone => faults >= attempt
      BY <3>1, <2>4
    <3> QED
      BY <3>1, <3>2, <3>3
  <2> QED
    BY <2>1, <2>2, <2>3, <2>4
<1>4. CASE Connected
  BY <1>4 DEF Connected
<1>5. CASE ConnectFails
  <2>1. CASE ctxDone
    BY <1>5, <2>1 DEF ConnectFails, Fault, TryEnds
  <2>2. CASE ~ctxDone
    BY <1>5, <2>2 DEF ConnectFails, Fault, TryEnds
  <2> QED
    BY <2>1, <2>2
<1>6. CASE Initiated
  BY <1>6 DEF Initiated
<1>7. CASE InitiateFails
  <2>1. CASE ctxDone
    BY <1>7, <2>1 DEF InitiateFails, Fault, TryEnds
  <2>2. CASE ~ctxDone
    <3>1. /\ initPC' = "status" /\ UNCHANGED <<cause, attempt, result, tryErr>>
      BY <1>7, <2>2 DEF InitiateFails
    <3>2. replSet' \in BOOLEAN
      <4>1. replSet' = replSet \/ replSet' = TRUE
        BY ONLY <1>7, Zenon DEF InitiateFails
      <4>2. replSet \in BOOLEAN
        OBVIOUS
      <4> QED
        BY ONLY <4>1, <4>2, Zenon
    <3>3. (replSet' /\ faults' = faults) \/ faults' = faults + 1
      <4>1. (faults' = IF ctxDone THEN faults ELSE faults + 1)
            \/ (replSet /\ replSet' = replSet /\ faults' = faults)
        BY ONLY <1>7, Zenon DEF InitiateFails, Fault
      <4> QED
        BY ONLY <2>2, <4>1
    <3>4. /\ initPC = "initiate" /\ attempt \in 1 .. 10
          /\ faults \in attempt - 1 .. 2 * (attempt - 1)
      BY <1>7, <2>2 DEF InitiateFails
    <3>5. faults' \in 0 .. 20 /\ faults' <= 2 * attempt - 1 /\ faults' >= attempt - 1
      BY <3>3, <3>4
    <3>6. replSet' \/ faults' >= attempt
      BY <3>3, <3>4
    <3>7. FaultInv'
      BY <3>1, <3>5, <3>6
    <3>8. AnswerInv'
      BY <3>1, <3>4
    <3>9. RetryTypeOK' /\ ToleratesFaults'
      BY <3>1, <3>2, <3>4, <3>5
    <3> QED
      BY <3>7, <3>8, <3>9
  <2> QED
    BY <2>1, <2>2
<1>8. CASE Stabilised
  BY <1>8 DEF Stabilised, TryEnds
<1>9. CASE StatusAnswered
  BY <1>9 DEF StatusAnswered, TryEnds
<1>10. CASE StatusFails
  <2>1. CASE ctxDone
    BY <1>10, <2>1 DEF StatusFails, Fault, TryEnds
  <2>2. CASE ~ctxDone
    BY <1>10, <2>2 DEF StatusFails, Fault, TryEnds
  <2> QED
    BY <2>1, <2>2
<1>11. CASE Disconnect
  BY <1>11 DEF Disconnect
<1> QED
  BY <1>1, <1>2, <1>3, <1>4, <1>5, <1>6, <1>7, <1>8, <1>9, <1>10, <1>11
     DEF InitStep

\* RetryInv holds in every reachable state of MongoInit, with AttemptsTypeOK.
THEOREM AttemptsInvariance == AttemptsSpec => [](AttemptsTypeOK /\ RetryInv)
<1>1. AttemptsInit => AttemptsTypeOK /\ RetryInv
  <2>1. AttemptsInit => RetryInv
    BY RetryInit
  <2> QED
    BY <2>1 DEF AttemptsInit, RetryInv, RetryTypeOK, AttemptsTypeOK
<1>2. AttemptsTypeOK /\ RetryInv /\ [AttemptsNext]_attemptVars => AttemptsTypeOK' /\ RetryInv'
  <2> SUFFICES ASSUME AttemptsTypeOK, RetryInv, [AttemptsNext]_attemptVars
               PROVE  AttemptsTypeOK' /\ RetryInv'
    OBVIOUS
  <2>1. CASE InitStep
    <3>1. RetryInv'
      BY <2>1, RetryStep
    <3>2. cause' = cause
      BY <2>1 DEF InitStep, DelayOver, DelayInterrupted, AttemptEnds, Connected, ConnectFails,
         Initiated, InitiateFails, Stabilised, StatusAnswered, StatusFails, Disconnect
    <3> QED
      BY <3>1, <3>2 DEF RetryInv, RetryTypeOK, AttemptsTypeOK
  <2>2. CASE ~InitStep
    <3>1. UNCHANGED initVars /\ (cause' = cause \/ cause' = Signal)
      BY <2>2 DEF AttemptsNext, attemptVars, OperatorStop
    <3>2. RetryInv'
      BY <3>1, RootStep DEF ctxDone, Signal, NoCause
    <3> QED
      BY <3>1, <3>2 DEF RetryInv, RetryTypeOK, AttemptsTypeOK
  <2> QED
    BY <2>1, <2>2
<1> QED
  BY <1>1, <1>2, PTL DEF AttemptsSpec

\* ToleratesFaults: a driver error is the answer only when every attempt had a
\* fault of the network's or the server's.
THEOREM FaultsAreTolerated == AttemptsSpec => []ToleratesFaults
<1>1. RetryInv => ToleratesFaults
  BY DEF RetryInv
<1> QED
  BY <1>1, AttemptsInvariance, PTL

\* Only a retry counts on, and only while the root context lives.
LEMMA RetriesEnd == InitStep /\ ctxDone => attempt' = attempt
  BY DEF InitStep, DelayOver, DelayInterrupted, Returns, AttemptEnds, Connected, ConnectFails,
     Initiated, InitiateFails, Stabilised, StatusAnswered, StatusFails, Disconnect

\* StopEndsRetries: once the root context is done no further attempt is scheduled. The
\* one whose delay is running may still begin, since the select of mongo.go:40 may find
\* the delay over, too; no other follows it.
THEOREM StopsEndRetries == AttemptsSpec => StopEndsRetries
<1>1. [AttemptsNext]_attemptVars => [ctxDone => attempt' = attempt]_attemptVars
  BY RetriesEnd DEF AttemptsNext, attemptVars, initVars
<1> QED
  BY <1>1, PTL DEF AttemptsSpec, StopEndsRetries

\* The safety part of ImplementsReplicaSet: the attempts are one call with one
\* answer. nil is a replica set, the context's error a stop, a driver error none.
THEOREM OneTrueAnswer == AttemptsSpec => Contract!Init /\ [][Contract!Next]_(Contract!cvars)
<1>1. AttemptsInit => Contract!Init
  BY DEF AttemptsInit, Contract!Init, NoCause, Contract!NoCause
<1>2. AttemptsTypeOK /\ RetryInv /\ [AttemptsNext]_attemptVars => [Contract!Next]_(Contract!cvars)
  <2> SUFFICES ASSUME AttemptsTypeOK, RetryInv, [AttemptsNext]_attemptVars, ~UNCHANGED Contract!cvars
               PROVE  Contract!Next
    OBVIOUS
  <2> USE DEF RetryInv, RetryTypeOK, AttemptsTypeOK, Error, AnswerInv, Contract!cvars, Contract!Next,
         ctxDone, Contract!ctxDone, NoCause, Contract!NoCause,
         Signal, Contract!Signal
  <2>1. CASE DelayInterrupted
    BY <2>1 DEF DelayInterrupted, Returns, Contract!Answer
  <2>2. CASE AttemptEnds
    BY <2>2, TenAttempts DEF AttemptEnds, Returns, Contract!Answer
  <2>3. CASE Initiated
    BY <2>3 DEF Initiated, Contract!Configure
  <2>4. CASE InitiateFails
    BY <2>4 DEF InitiateFails, Contract!Configure
  <2>5. CASE OperatorStop /\ UNCHANGED initVars
    BY <2>5 DEF OperatorStop, Contract!OperatorStop, initVars
  <2> QED
    BY <2>1, <2>2, <2>3, <2>4, <2>5
       DEF AttemptsNext, InitStep, DelayOver, Connected,
           ConnectFails, Stabilised, StatusAnswered,
           StatusFails, Disconnect, attemptVars, initVars
<1> QED
  BY <1>1, <1>2, AttemptsInvariance, PTL DEF AttemptsSpec

-----------------------------------------------------------------------------
(* The command with the attempts in the place of InitReplicaSet's one step   *)

commandVars == <<vars, initVars>>

\* initReplicaSetAction runs in the main goroutine and shares the root context with
\* the rest. A mongod that has ended answers nothing any more. What the call returns
\* decides how startAllInOneInfra goes on.
TryReplicaSet ==
    /\ mainPC = "initReplicaSet"
    /\ InitStep
    /\ stage[Mongo] # "alive" =>
          ~StatusAnswered /\ (initPC = "initiate" => Fault /\ UNCHANGED replSet)
    /\ UNCHANGED <<infraVars, svcVars, accepting, avxShown, code, forced, complete>>
    /\ CASE result' = "pending" -> UNCHANGED <<mainPC, infraErr>>
         [] result' = "nil"     -> mainPC' = "waitRedis" /\ UNCHANGED infraErr
         [] result' = "stopped" -> mainPC' = "classify" /\ infraErr' = "stopped"
         [] result' = "driver"  -> mainPC' = "classify" /\ infraErr' = "failed"

CommandInit == Init /\ AttemptsInit
CommandNext ==
    /\ mainPC # "exited"
    /\ \/ TryReplicaSet
       \/ Next /\ ~InitReplicaSet /\ UNCHANGED initVars
CommandSpec == CommandInit /\ [][CommandNext]_commandVars

LEMMA AttemptsLeaveRoot == InitStep => cause' = cause
  BY DEF InitStep, DelayOver, DelayInterrupted, AttemptEnds, Connected, ConnectFails,
     Initiated, InitiateFails, Stabilised, StatusAnswered, StatusFails, Disconnect

\* There is one answer, and each has its ground.
LEMMA AnswerStep ==
    RetryInv /\ InitStep => /\ result = "pending"
                            /\ \/ result' = "pending"
                               \/ result' = "nil" /\ replSet'
                               \/ result' = "stopped" /\ ctxDone
                               \/ result' = "driver" /\ ~ctxDone
<1> SUFFICES ASSUME RetryInv, InitStep
             PROVE  /\ result = "pending"
                    /\ \/ result' = "pending"
                       \/ result' = "nil" /\ replSet'
                       \/ result' = "stopped" /\ ctxDone
                       \/ result' = "driver" /\ ~ctxDone
  OBVIOUS
<1> USE DEF RetryInv, RetryTypeOK, Error, AnswerInv
<1>1. CASE DelayInterrupted
  BY <1>1 DEF DelayInterrupted, Returns
<1>2. CASE AttemptEnds
  BY <1>2 DEF AttemptEnds, Returns
<1>3. CASE ~DelayInterrupted /\ ~AttemptEnds
  BY <1>3 DEF InitStep, DelayOver, Connected, ConnectFails, Initiated, InitiateFails,
     Stabilised, StatusAnswered, StatusFails, Disconnect
<1> QED
  BY <1>1, <1>2, <1>3

\* The rest of the command sees of the attempts what InitReplicaSet does.
LEMMA TryStep == RetryInv /\ TryReplicaSet => [Next]_vars
<1> SUFFICES ASSUME RetryInv, TryReplicaSet PROVE InitReplicaSet \/ UNCHANGED vars
  BY DEF TryReplicaSet, Next, MainStep, StartInfra
<1>1. cause' = cause /\ UNCHANGED <<infraVars, svcVars, accepting, avxShown, code, forced, complete>>
  BY AttemptsLeaveRoot DEF TryReplicaSet
<1>2. CASE result' = "pending"
  BY <1>1, <1>2 DEF TryReplicaSet, vars, mainVars
<1>3. CASE result' = "nil"
  BY <1>1, <1>3 DEF TryReplicaSet, InitReplicaSet, GoTo
<1>4. CASE result' = "stopped" /\ ctxDone
  BY <1>1, <1>4 DEF TryReplicaSet, InitReplicaSet, InfraFails
<1>5. CASE result' = "driver" /\ ~ctxDone
  BY <1>1, <1>5 DEF TryReplicaSet, InitReplicaSet, InfraFails
<1> QED
  BY <1>2, <1>3, <1>4, <1>5, AnswerStep DEF TryReplicaSet

LEMMA CommandStep == RetryInv /\ [CommandNext]_commandVars => [Next]_vars /\ RetryInv'
<1> SUFFICES ASSUME RetryInv, [CommandNext]_commandVars PROVE [Next]_vars /\ RetryInv'
  OBVIOUS
<1>1. CASE TryReplicaSet
  BY <1>1, TryStep, RetryStep DEF TryReplicaSet
<1>2. CASE [Next]_vars /\ UNCHANGED initVars
  BY <1>2, CauseStays, RootStep DEF ctxDone
<1> QED
  BY <1>1, <1>2 DEF CommandNext, commandVars

\* RetryInv holds in the command, where more than an operator ends the root context.
LEMMA CommandInvariance == CommandSpec => []RetryInv
  BY RetryInit, CommandStep, PTL DEF CommandSpec, CommandInit

\* AllInOne may take initReplicaSetAction for one step: with the attempts in its
\* place the command still is AllInOne, and all that is proved of it holds.
THEOREM CommandIsAllInOne == CommandSpec => Spec
  BY CommandStep, CommandInvariance, PTL DEF CommandSpec, CommandInit, Spec

\* ToleratesFaults of a start whose root context a lost database may end, too.
THEOREM CommandToleratesFaults == CommandSpec => []ToleratesFaults
<1>1. RetryInv => ToleratesFaults
  BY DEF RetryInv
<1> QED
  BY <1>1, CommandInvariance, PTL

\* Once the root context is done, be it for a lost database, no further attempt is
\* scheduled.
THEOREM CommandEndsRetries == CommandSpec => [][ctxDone => attempt' = attempt]_commandVars
<1>1. RetryInv /\ [CommandNext]_commandVars => [ctxDone => attempt' = attempt]_commandVars
  <2> SUFFICES ASSUME InitStep, ctxDone PROVE attempt' = attempt
    BY DEF CommandNext, TryReplicaSet, commandVars, initVars
  <2> QED
    BY RetriesEnd
<1> QED
  BY <1>1, CommandInvariance, PTL DEF CommandSpec

\* Where the command is, against the answer it has.
Unanswered == {"prepare", "infra", "startMongo", "startRedis", "waitMongo", "initReplicaSet"}
LinkInv ==
    /\ mainPC \in Unanswered => result = "pending"
    /\ mainPC \in {"waitRedis", "services"} \/ ~Untouched => result = "nil"
    /\ result = "nil" => replSet

LEMMA LinkStep == MainInv /\ RetryInv /\ LinkInv /\ [CommandNext]_commandVars => LinkInv'
<1> SUFFICES ASSUME MainInv, RetryInv, LinkInv, [CommandNext]_commandVars PROVE LinkInv'
  OBVIOUS
<1>1. CASE TryReplicaSet
  <2>1. Untouched' = Untouched /\ Untouched
    BY <1>1 DEF TryReplicaSet, MainInv, OrderInv, Preparing, svcVars, Untouched
  <2>2. /\ result' = "pending" => mainPC' = "initReplicaSet"
        /\ result' # "pending" => mainPC' \in {"waitRedis", "classify"}
        /\ mainPC' = "waitRedis" => result' = "nil"
    BY <1>1, AnswerStep DEF TryReplicaSet
  <2>3. result' = "nil" => replSet'
    BY <1>1, AnswerStep DEF TryReplicaSet
  <2> QED
    BY <2>1, <2>2, <2>3 DEF LinkInv, Unanswered
<1>2. CASE ((Next /\ ~InitReplicaSet) \/ UNCHANGED vars) /\ UNCHANGED initVars
  <2>1. UNCHANGED <<result, replSet>>
    BY <1>2 DEF initVars
  <2>2. /\ mainPC' \in Unanswered => mainPC \in Unanswered
        /\ mainPC' \in {"waitRedis", "services"} => mainPC \in {"waitRedis", "services"}
    BY <1>2 DEF Next, MainStep, Refuse, Prepare, StartInfra, CheckRoot, StartDatabase, Reachable,
       SawExit, SawStop, TimesOut, RunServices, Classify, Fail, StopInfra, Finish, Return, Watchdog,
       ChildrenStep, Accept, Exit, GoTo, InfraFails, vars, mainVars, Unanswered
  <2>3. ~Untouched' => ~Untouched \/ mainPC = "services"
    BY <1>2, BundleCall DEF RunServices, svcVars, Untouched
  <2> QED
    BY <2>1, <2>2, <2>3 DEF LinkInv
<1> QED
  BY <1>1, <1>2 DEF CommandNext, commandVars

\* The bundle is ready only on a replica set, whatever was lost between the two:
\* consensus and the coordinator use transactions, which a plain mongod refuses.
THEOREM ReadyOnReplicaSet == CommandSpec => [](ready => replSet)
<1>1. CommandInit => LinkInv
  BY DEF CommandInit, Init, AttemptsInit, S!Init, LinkInv, Untouched
<1>2. LinkInv => (ready => replSet)
  BY DEF LinkInv, Untouched
<1> QED
  BY <1>1, <1>2, LinkStep, CommandInvariance, CommandIsAllInOne, MainInvariance, PTL DEF CommandSpec

\* The attempts run in the command as MongoInit lets any caller run them; for them a
\* lost database is a stop like any other.
Attempts == INSTANCE MongoInit WITH cause <- IF ctxDone THEN Signal ELSE NoCause

THEOREM AttemptsAreUsed == CommandSpec => Attempts!AttemptsSpec
<1>1. CommandInit => Attempts!AttemptsInit
  BY DEF CommandInit, AttemptsInit, Attempts!AttemptsInit, ctxDone, NoCause, Attempts!NoCause
<1>2. Attempts!ctxDone = ctxDone
  BY DEF Attempts!ctxDone, ctxDone, Attempts!NoCause, NoCause, Signal
<1>3. InitStep => Attempts!InitStep
  <2> SUFFICES ASSUME InitStep PROVE Attempts!InitStep
    OBVIOUS
  <2>0. UNCHANGED (IF ctxDone THEN Signal ELSE NoCause)
    BY AttemptsLeaveRoot DEF ctxDone
  <2>1. DelayOver => Attempts!DelayOver
    BY <1>2, <2>0 DEF DelayOver, Attempts!DelayOver
  <2>2. DelayInterrupted => Attempts!DelayInterrupted
    BY <1>2, <2>0 DEF DelayInterrupted, Attempts!DelayInterrupted, Returns, Attempts!Returns
  <2>3. AttemptEnds => Attempts!AttemptEnds
    BY <1>2, <2>0 DEF AttemptEnds, Attempts!AttemptEnds, Returns, Attempts!Returns, attemptDelays, Attempts!attemptDelays
  <2>4. Connected => Attempts!Connected
    BY <1>2, <2>0 DEF Connected, Attempts!Connected
  <2>5. ConnectFails => Attempts!ConnectFails
    BY <1>2, <2>0 DEF ConnectFails, Attempts!ConnectFails, Fault, Attempts!Fault, TryEnds, Attempts!TryEnds
  <2>6. Initiated => Attempts!Initiated
    BY <1>2, <2>0 DEF Initiated, Attempts!Initiated
  <2>7. InitiateFails => Attempts!InitiateFails
    BY <1>2, <2>0 DEF InitiateFails, Attempts!InitiateFails, Fault, Attempts!Fault, TryEnds, Attempts!TryEnds
  <2>8. Stabilised => Attempts!Stabilised
    BY <1>2, <2>0 DEF Stabilised, Attempts!Stabilised, TryEnds, Attempts!TryEnds
  <2>9. StatusAnswered => Attempts!StatusAnswered
    BY <1>2, <2>0 DEF StatusAnswered, Attempts!StatusAnswered, TryEnds, Attempts!TryEnds
  <2>10. StatusFails => Attempts!StatusFails
    BY <1>2, <2>0 DEF StatusFails, Attempts!StatusFails, Fault, Attempts!Fault, TryEnds, Attempts!TryEnds
  <2>11. Disconnect => Attempts!Disconnect
    BY <1>2, <2>0 DEF Disconnect, Attempts!Disconnect
  <2> QED
    BY <2>1, <2>2, <2>3, <2>4, <2>5, <2>6, <2>7, <2>8, <2>9, <2>10, <2>11
     DEF InitStep, Attempts!InitStep
<1>4. RetryInv /\ [CommandNext]_commandVars => [Attempts!AttemptsNext]_(Attempts!attemptVars)
  <2> SUFFICES ASSUME RetryInv, [CommandNext]_commandVars
               PROVE  [Attempts!AttemptsNext]_(Attempts!attemptVars)
    OBVIOUS
  <2>1. CASE TryReplicaSet
    BY <1>3, <2>1 DEF TryReplicaSet, Attempts!AttemptsNext
  <2>2. CASE [Next]_vars /\ UNCHANGED initVars
    <3>1. ctxDone => cause' = cause
      BY <2>2, CauseStays
    <3> QED
      BY <2>2, <3>1 DEF Attempts!AttemptsNext, Attempts!attemptVars, Attempts!initVars, initVars,
         Attempts!OperatorStop, Attempts!NoCause, Attempts!Signal, NoCause, Signal, ctxDone
  <2> QED
    BY <2>1, <2>2 DEF CommandNext, commandVars
<1> QED
  BY <1>1, <1>4, CommandInvariance, PTL DEF CommandSpec, Attempts!AttemptsSpec
=============================================================================
