------------------------------ MODULE AllInOne ------------------------------
(***************************************************************************)
(* The start-all-in-one command (cmd/start.go, cmd/infra.go, main.go): the *)
(* embedded databases are started and waited for, the bundle runs on them, *)
(* and everything is stopped in the reverse order, with the process-level  *)
(* watchdog as the last resort.                                            *)
(*                                                                         *)
(* The main goroutine is modelled here. The suite and the services are the *)
(* modules Infra and Services, which share the root context with it.       *)
(***************************************************************************)
EXTENDS RootContext, Naturals

CONSTANTS Mongo, Redis, Crash, NumServices, NumListeners

Proc == {Mongo, Redis}

\* As in Infra and Services, for the two databases. The names do not clash with
\* the values the models use of their own.
ASSUME DatabaseAssumption == Proc \cap {NoCause, Signal, Startup} = {}
ASSUME CrashAssumption ==
    Crash \cap {"none", "zero", "sigterm", "sigkill", "canceled"} = {}
ASSUME NumAssumption == NumServices \in Nat \ {0} /\ NumListeners \in Nat \ {0}

VARIABLES stage, exit, waitErr, signalled, killed,
          stopping, cancelled, stopPC, expired, running, unexpected, left, errs
VARIABLES svc, lst, svcPC, at, err, closeErr, ready
VARIABLES
    mainPC,     \* where the main goroutine is
    accepting,  \* databases that listen on their TCP port
    infraErr,   \* startAllInOneInfra's error: none, stopped, lost, failed
    avxShown,   \* printMongoAVXError has run
    code,       \* exit status of the process: 0, or 1 for any other
    forced,     \* the watchdog ended it
    complete    \* bundle_shutdown_complete has been emitted

I == INSTANCE Infra
S == INSTANCE Services WITH Embedded <- Proc

infraVars == <<stage, exit, waitErr, signalled, killed,
               stopping, cancelled, stopPC, expired, running, unexpected, left, errs>>
svcVars   == <<svc, lst, svcPC, at, err, closeErr, ready>>
mainVars  == <<mainPC, accepting, infraErr, avxShown, code, forced, complete>>
vars      == <<cause, infraVars, svcVars, mainVars>>

Pc == {"prepare", "infra", "startMongo", "startRedis", "waitMongo", "initReplicaSet",
       "waitRedis", "services", "classify", "fail", "stop", "return", "exited"}

TypeOK ==
    /\ I!TypeOK
    /\ S!TypeOK
    /\ mainPC \in Pc
    /\ accepting \subseteq Proc
    /\ infraErr \in {"none", "stopped", "lost", "failed"}
    /\ avxShown \in BOOLEAN
    /\ code \in {0, 1}
    /\ forced \in BOOLEAN
    /\ complete \in BOOLEAN

Init ==
    /\ I!Init
    /\ S!Init
    /\ mainPC = "prepare"
    /\ accepting = {}
    /\ infraErr = "none"
    /\ avxShown = FALSE
    /\ code = 0
    /\ forced = FALSE
    /\ complete = FALSE

\* A step of the main goroutine that only moves on, and one that ends
\* startAllInOneInfra with an error.
GoTo(pc) ==
    /\ mainPC' = pc
    /\ UNCHANGED <<accepting, infraErr, avxShown, code, forced, complete>>
InfraFails(e) ==
    /\ infraErr' = e
    /\ mainPC' = "classify"
    /\ UNCHANGED <<cause, infraVars, svcVars, accepting, code, forced, complete>>

Exit(status) ==
    /\ mainPC' = "exited"
    /\ code' = status
    /\ UNCHANGED <<cause, infraVars, svcVars, accepting, infraErr, avxShown>>

-----------------------------------------------------------------------------
(* Before anything is started *)

\* No container, or a config that does not load: the command returns an error
\* or log.Panic ends the process, with nothing to clean up.
Refuse ==
    /\ mainPC = "prepare"
    /\ Exit(1)
    /\ UNCHANGED <<forced, complete>>

Prepare ==
    /\ mainPC = "prepare"
    /\ GoTo("infra")
    /\ UNCHANGED <<cause, infraVars, svcVars>>

-----------------------------------------------------------------------------
(* startAllInOneInfra *)

\* ctx.Err(), then the data directories.
CheckRoot ==
    /\ mainPC = "infra"
    /\ \/ /\ ~ctxDone
          /\ GoTo("startMongo")
          /\ UNCHANGED <<cause, infraVars, svcVars>>
       \/ /\ InfraFails(IF ctxDone THEN "stopped" ELSE "failed")
          /\ UNCHANGED avxShown

\* infra.start, or its error: the root context is done, or exec failed.
StartDatabase(p, here, next) ==
    /\ mainPC = here
    /\ \/ /\ I!Start(p)
          /\ GoTo(next)
          /\ UNCHANGED svcVars
       \/ /\ I!Unlocked
          /\ InfraFails(IF ctxDone THEN "stopped" ELSE "failed")
          /\ UNCHANGED avxShown

\* The child binds its port. Only the waits look at it, so a later bind is left
\* out.
Accept(p) ==
    /\ mainPC \in {"startRedis", "waitMongo", "initReplicaSet", "waitRedis"}
    /\ stage[p] = "alive"
    /\ p \notin accepting
    /\ accepting' = accepting \cup {p}
    /\ UNCHANGED <<cause, infraVars, svcVars, mainPC, infraErr, avxShown, code, forced, complete>>

\* waitForTCPOrExit(ctx, addr, timeout, p): the dial succeeds ...
Reachable(p, here, next) ==
    /\ mainPC = here
    /\ ~ctxDone
    /\ p \in accepting /\ stage[p] = "alive"
    /\ GoTo(next)
    /\ UNCHANGED <<cause, infraVars, svcVars>>

\* ... or select picks any of its ready cases: the child's result is published,
SawExit(p, here) ==
    /\ mainPC = here
    /\ I!Done(p)
    /\ InfraFails("lost")
    /\ avxShown' = (avxShown \/ (here = "waitMongo" /\ waitErr[p] = "fault"))

\* or the wait's context is done, because the root context is,
SawStop(here) ==
    /\ mainPC = here
    /\ ctxDone
    /\ InfraFails("stopped")
    /\ UNCHANGED avxShown

\* The wait has no timeout of its own.
Mut_TimesOut(here) == SawStop(here)

\* or because its timeout has passed.
TimesOut(here) ==
    /\ mainPC = here
    /\ InfraFails("failed")
    /\ UNCHANGED avxShown

\* initReplicaSetAction: nil, the context's error, or the driver's after the last
\* attempt. MongoInit has the attempts. mongod was alive when it answered the one
\* that succeeds, and may be gone by the time nil is returned.
InitReplicaSet ==
    /\ mainPC = "initReplicaSet"
    /\ \/ /\ GoTo("waitRedis")
          /\ UNCHANGED <<cause, infraVars, svcVars>>
       \/ /\ InfraFails(IF ctxDone THEN "stopped" ELSE "failed")
          /\ UNCHANGED avxShown

StartInfra ==
    \/ CheckRoot
    \/ StartDatabase(Mongo, "startMongo", "startRedis")
    \/ StartDatabase(Redis, "startRedis", "waitMongo")
    \/ Reachable(Mongo, "waitMongo", "initReplicaSet") \/ SawExit(Mongo, "waitMongo")
    \/ SawStop("waitMongo") \/ TimesOut("waitMongo")
    \/ InitReplicaSet
    \/ Reachable(Redis, "waitRedis", "services") \/ SawExit(Redis, "waitRedis")
    \/ SawStop("waitRedis") \/ TimesOut("waitRedis")

-----------------------------------------------------------------------------
(* cmdStartAllInOne *)

\* runBundleServices, in the main goroutine.
RunServices ==
    /\ mainPC = "services"
    /\ IF svcPC = "returned"
         THEN GoTo("stop") /\ UNCHANGED <<cause, svcVars>>
         ELSE S!ServicesStep /\ UNCHANGED mainVars
    /\ UNCHANGED infraVars

\* An interrupted startup counts as a failed one.
Mut_Classify ==
    /\ mainPC = "classify"
    /\ mainPC' = "fail"
    /\ UNCHANGED <<cause, infraVars, svcVars, accepting, infraErr, avxShown, code, forced, complete>>

\* As Services!Classify, for the error of startAllInOneInfra.
Classify ==
    /\ mainPC = "classify"
    /\ IF I!OperatorStopped
         THEN infraErr' = "none" /\ mainPC' = "stop"
         ELSE mainPC' = "fail" /\ UNCHANGED infraErr
    /\ UNCHANGED <<cause, infraVars, svcVars, accepting, avxShown, code, forced, complete>>

\* The failure overwrites the cause of a stop that came first.
Mut_Fail ==
    /\ mainPC = "fail"
    /\ cause' = Startup
    /\ GoTo("stop")
    /\ UNCHANGED <<infraVars, svcVars>>

Fail ==
    /\ mainPC = "fail"
    /\ stopRoot(Startup)
    /\ GoTo("stop")
    /\ UNCHANGED <<infraVars, svcVars>>

\* The databases are stopped as soon as the root context is done.
Mut_StopInfra ==
    /\ mainPC = "stop" \/ (mainPC = "services" /\ ctxDone)
    /\ \/ I!Handoff
       \/ stopPC # "idle" /\ (I!StopStep \/ I!ShutdownDeadline)
    /\ UNCHANGED <<svcVars, mainVars>>

\* infra.stop; its deadline starts with it.
StopInfra ==
    /\ mainPC = "stop"
    /\ \/ I!Handoff
       \/ stopPC # "idle" /\ (I!StopStep \/ I!ShutdownDeadline)
    /\ UNCHANGED <<svcVars, mainVars>>

\* The services' result is overwritten by infra.stop's, not joined with it.
Mut_shutdownErr == infraErr # "none" \/ errs # {}

\* errors.Join(err, infra.stop(shutdownCtx)) # nil
shutdownErr == infraErr # "none" \/ err # "none" \/ closeErr \/ errs # {}

\* Report the result: the error is returned to main, or the event is emitted.
Finish ==
    /\ mainPC = "stop"
    /\ stopPC = "returned"
    /\ IF shutdownErr
         THEN Exit(1) /\ UNCHANGED complete
         ELSE /\ complete' = TRUE
              /\ mainPC' = "return"
              /\ UNCHANGED <<cause, infraVars, svcVars, accepting, infraErr, avxShown, code>>
    /\ UNCHANGED forced

Return ==
    /\ mainPC = "return"
    /\ Exit(0)
    /\ UNCHANGED <<forced, complete>>

\* main's watchdog: ShutdownTimeout after the root context is done.
Watchdog ==
    /\ mainPC # "exited"
    /\ ctxDone
    /\ forced' = TRUE
    /\ Exit(1)
    /\ UNCHANGED complete

-----------------------------------------------------------------------------
MainStep == StartInfra \/ RunServices \/ Classify \/ Fail \/ StopInfra \/ Finish \/ Return

\* os/exec, the Wait owners and the children run next to the main goroutine.
ChildrenStep ==
    /\ \E p \in Proc : I!ChildExit(p) \/ I!WatcherStep(p) \/ I!OwnerStep(p)
    /\ UNCHANGED <<svcVars, mainVars>>

Next ==
    /\ mainPC # "exited"
    /\ \/ Refuse \/ Prepare \/ MainStep \/ Watchdog
       \/ ChildrenStep
       \/ \E p \in Proc : Accept(p)
       \/ OperatorStop /\ UNCHANGED <<infraVars, svcVars, mainVars>>

\* Infra's and Services' fairness, for the composition. The watchdog need not
\* fire: the process is to exit without its help.
Running(A) == mainPC # "exited" /\ A /\ UNCHANGED <<svcVars, mainVars>>
Fairness ==
    /\ WF_vars(mainPC # "exited" /\ (Prepare \/ MainStep))
    /\ \A p \in Proc :
          /\ WF_vars(Running(I!WatcherStep(p)))
          /\ WF_vars(Running(I!Reaping(p)))

Spec     == Init /\ [][Next]_vars
FairSpec == Spec /\ Fairness

-----------------------------------------------------------------------------
(* Properties *)

\* No child is told to stop under a bundle that still uses it: while a service
\* is not down, or a listener open, no database has been signalled or killed
\* (start.go:53-65: infra.stop comes after runBundleServices has returned).
DatabasesOutliveServices ==
    signalled \cup killed # {} =>
        /\ \A s \in S!Service : svc[s] \notin {"starting", "up", "closing"}
        /\ \A l \in S!Listener : lst[l] # "open"

\* bundle_shutdown_complete is what a backup waits for (README.md:254). It is
\* emitted only when an operator stopped the process, every service closed
\* without error and every database ended by itself or by SIGTERM.
MarkerIsTrue ==
    complete =>
        /\ cause = Signal
        /\ ~closeErr /\ \A s \in S!Service : svc[s] \in {"new", "unwound", "closed"}
        /\ killed = {}
        /\ \A p \in I!Started : stage[p] = "done" /\ exit[p] \in {"zero", "sigterm"}

\* An operator's stop that meets no trouble of its own ends with status 0 at any
\* moment of the startup or later, although waits, starts and calls that it
\* interrupts all return errors (start.go:56-58, services.go:25-28).
OperatorStopIsClean ==
    /\ mainPC = "exited" /\ ~forced
    /\ stopPC = "returned"
    /\ cause = Signal
    /\ infraErr # "failed" /\ err # "failed" /\ ~closeErr
    /\ ~expired
    /\ I!Started \subseteq signalled
    /\ \A p \in I!Started : exit[p] \in {"zero", "sigterm"}
    => code = 0

\* The composition uses the suite as Infra describes it, so that what is proved
\* of Infra for every caller holds here too.
UsesSuite == I!Spec

\* What main.go exits with: 0 if the command returns no error, else 1.
exitStatus == IF mainPC # "exited" THEN "none" ELSE IF code = 0 THEN "zero" ELSE "failed"
Process == INSTANCE ProcessContract WITH status <- exitStatus

\* Seen from outside, the command is a process whose events and exit status can be
\* relied on. Its startup ends, as no wait of it is unbounded (infra.go:85, 99;
\* mongo.go:28); and once the root context is done it exits without the watchdog, as
\* long as upstream calls return and the system reaps what is killed.
ImplementsProcess == Process!FairSpec

\* A mongod killed by SIGILL before it ever listened is diagnosed as such
\* (infra.go:85-88, 336): if that is what ended the process while it was
\* waiting for mongod, the AVX message has been shown.
AvxDiagnosed ==
    /\ mainPC = "exited" /\ ~forced
    /\ cause = Mongo /\ waitErr[Mongo] = "fault"
    /\ Mongo \notin accepting
    /\ I!Started = Proc
    /\ infraErr # "failed"
    => avxShown
=============================================================================
