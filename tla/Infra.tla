------------------------------- MODULE Infra -------------------------------
(***************************************************************************)
(* infraSuite (cmd/infra.go): it starts the embedded databases, notices    *)
(* the one that dies, and stops and reaps all of them.                     *)
(*                                                                         *)
(* Three kinds of goroutine touch its state: the caller of start and stop, *)
(* one Wait owner per child, and os/exec's watcher of the children         *)
(* context. A step below is what one of them does between two points where *)
(* another can be seen to run.                                             *)
(*                                                                         *)
(* The mutex is not a variable: only the Wait owner holds it across two    *)
(* steps (stopRoot, then close(done)), and then its stage is "holding".    *)
(***************************************************************************)
EXTENDS RootContext

CONSTANTS
    Proc,    \* the embedded processes: mongo and redis
    Crash    \* the ends no stop intends: an exit status, SIGILL, ...

ASSUME ProcAssumption == Proc \cap {NoCause, Signal, Startup} = {}
ASSUME CrashAssumption ==
    Crash \cap {"none", "zero", "sigterm", "sigkill", "canceled"} = {}

VARIABLES
    stage,        \* what became of each child and of its Wait owner
    exit,         \* how the child ended, "none" before it does
    waitErr,      \* process.waitErr, "none" until the owner publishes it
    signalled,    \* children whose os/exec watcher sent SIGTERM in time
    killed,       \* children that were sent SIGKILL while alive
    stopping,     \* s.stopping
    cancelled,    \* childrenCtx is done
    stopPC,       \* where stop() is
    expired,      \* stop()'s own deadline has passed
    running,      \* stop()'s partition of s.processes ...
    unexpected,   \* ... made at the handoff
    left,         \* the processes stop()'s current loop has still to visit
    errs          \* <<process, kind>>: the errors stop() has collected

childVars == <<stage, exit, waitErr, signalled, killed>>
stopVars  == <<stopping, cancelled, stopPC, expired, running, unexpected, left, errs>>
vars      == <<cause, childVars, stopVars>>

Exit  == {"zero", "sigterm", "sigkill"} \cup Crash
Stage == {"absent",   \* start has not been called, or failed
          "alive",    \* the child runs
          "exited",   \* a zombie
          "waited",   \* cmd.Wait has returned, the owner is not in the lock
          "holding",  \* the owner holds the lock, done is still open
          "done"}     \* close(done): the result is published
Pc    == {"idle", "cancel", "waiting", "settle", "killing", "reaping", "returned"}
Kind  == {"unexpected", "deadline", "forced", "failed"}

Started  == {p \in Proc : stage[p] # "absent"}
Done(p)  == stage[p] = "done"
Unlocked == \A p \in Proc : stage[p] # "holding"

\* stoppedByOperator as this process's context sees it: a lost child's error
\* matches context.Canceled when it wraps one.
OperatorStopped == stoppedByOperator({p \in Proc : waitErr[p] = "canceled"})

TypeOK ==
    /\ cause \in {NoCause, Signal, Startup} \cup Proc
    /\ stage \in [Proc -> Stage]
    /\ exit \in [Proc -> Exit \cup {"none"}]
    /\ waitErr \in [Proc -> Exit \cup {"none", "canceled"}]
    /\ signalled \subseteq Proc
    /\ killed \subseteq Proc
    /\ stopping \in BOOLEAN
    /\ cancelled \in BOOLEAN
    /\ expired \in BOOLEAN
    /\ stopPC \in Pc
    /\ running \subseteq Proc
    /\ unexpected \subseteq Proc
    /\ left \subseteq Proc
    /\ errs \subseteq Proc \X Kind

Init ==
    /\ cause = NoCause
    /\ stage = [p \in Proc |-> "absent"]
    /\ exit = [p \in Proc |-> "none"]
    /\ waitErr = [p \in Proc |-> "none"]
    /\ signalled = {}
    /\ killed = {}
    /\ stopping = FALSE
    /\ cancelled = FALSE
    /\ stopPC = "idle"
    /\ expired = FALSE
    /\ running = {}
    /\ unexpected = {}
    /\ left = {}
    /\ errs = {}

-----------------------------------------------------------------------------
(* Definitions called Mut_... are plausible faulty versions of the one that  *)
(* follows them. No specification uses them: put in its place, each makes a  *)
(* property below fail.                                                      *)

\* start does not look at s.stopping and the root context.
Mut_Start(p) ==
    /\ Unlocked
    /\ stage[p] = "absent"
    /\ stage' = [stage EXCEPT ![p] = "alive"]
    /\ UNCHANGED <<cause, exit, waitErr, signalled, killed, stopVars>>

\* start(): refused once the root context is done or stop has begun. A failed
\* exec leaves no trace, so it is a stuttering step. The root context can end
\* between the test (169) and the exec (187). That is the same as its end right
\* after this step: meanwhile start holds the mutex, which stop and the Wait owners
\* need, and the end of the root context neither reads nor changes the child.
Start(p) ==
    /\ Unlocked
    /\ ~ctxDone
    /\ ~stopping
    /\ stage[p] = "absent"
    /\ stage' = [stage EXCEPT ![p] = "alive"]
    /\ UNCHANGED <<cause, exit, waitErr, signalled, killed, stopVars>>

-----------------------------------------------------------------------------
(* The child, the kernel and os/exec *)

\* The child ends by itself or because of a signal. A pending SIGKILL leaves
\* it no other way to end.
ChildExit(p) ==
    /\ stage[p] = "alive"
    /\ \E how \in Exit :
          /\ p \in killed => how = "sigkill"
          /\ exit' = [exit EXCEPT ![p] = how]
    /\ stage' = [stage EXCEPT ![p] = "exited"]
    /\ UNCHANGED <<cause, waitErr, signalled, killed, stopVars>>

\* newInfraSuite forgets context.WithoutCancel.
Mut_childrenCtxDone == cancelled \/ ctxDone

\* childrenCtx is detached from the root context: only cancelChildren ends it.
childrenCtxDone == cancelled

\* cmd.Cancel, run by the watcher once childrenCtx is done. Signalling a zombie
\* succeeds too; a reaped child gives ErrProcessDone, which os/exec ignores.
SendTerm(p) ==
    /\ childrenCtxDone
    /\ stage[p] \in {"alive", "exited"}
    /\ p \notin signalled
    /\ signalled' = signalled \cup {p}
    /\ UNCHANGED <<cause, stage, exit, waitErr, killed, stopVars>>

\* WaitDelay has passed since SIGTERM: the watcher kills the child.
WaitDelayKill(p) ==
    /\ p \in signalled
    /\ stage[p] = "alive"
    /\ p \notin killed
    /\ killed' = killed \cup {p}
    /\ UNCHANGED <<cause, stage, exit, waitErr, signalled, stopVars>>

\* cmd.Wait reaps the child and returns.
WaitReturns(p) ==
    /\ stage[p] = "exited"
    /\ stage' = [stage EXCEPT ![p] = "waited"]
    /\ UNCHANGED <<cause, exit, waitErr, signalled, killed, stopVars>>

-----------------------------------------------------------------------------
(* The Wait owner: the goroutine start() leaves behind *)

\* What cmd.Wait returned: a clean exit after a delivered SIGTERM is reported
\* as the context's error, any other end as itself.
WaitResult(p) == IF exit[p] = "zero" /\ p \in signalled THEN "canceled" ELSE exit[p]

\* s.stopping is not looked at: a child ended by the stop stops the root too.
Mut_Publish(p) ==
    /\ Unlocked
    /\ stage[p] = "waited"
    /\ waitErr' = [waitErr EXCEPT ![p] = WaitResult(p)]
    /\ stopRoot(p)
    /\ stage' = [stage EXCEPT ![p] = "holding"]
    /\ UNCHANGED <<exit, signalled, killed, stopVars>>

\* Under the lock: record the result and, unless stop has begun, stop the root
\* context with the loss.
Publish(p) ==
    /\ Unlocked
    /\ stage[p] = "waited"
    /\ waitErr' = [waitErr EXCEPT ![p] = WaitResult(p)]
    /\ IF stopping THEN UNCHANGED cause ELSE stopRoot(p)
    /\ stage' = [stage EXCEPT ![p] = "holding"]
    /\ UNCHANGED <<exit, signalled, killed, stopVars>>

\* close(process.done) and unlock: the publication point.
CloseDone(p) ==
    /\ stage[p] = "holding"
    /\ stage' = [stage EXCEPT ![p] = "done"]
    /\ UNCHANGED <<cause, exit, waitErr, signalled, killed, stopVars>>

-----------------------------------------------------------------------------
(* stop(). Its loops visit s.processes in start order; nothing observable    *)
(* depends on the order, so a loop is "some process still left".             *)

\* The handoff does not take the lock.
Mut_Handoff ==
    /\ stopPC = "idle"
    /\ stopping' = TRUE
    /\ running' = {p \in Started : ~Done(p)}
    /\ unexpected' = {p \in Started : Done(p)}
    /\ stopPC' = "cancel"
    /\ UNCHANGED <<cause, childVars, cancelled, expired, left, errs>>

\* Under the lock: what is published so far is unexpected, the rest is ours.
Handoff ==
    /\ stopPC = "idle"
    /\ Unlocked
    /\ stopping' = TRUE
    /\ running' = {p \in Started : ~Done(p)}
    /\ unexpected' = {p \in Started : Done(p)}
    /\ stopPC' = "cancel"
    /\ UNCHANGED <<cause, childVars, cancelled, expired, left, errs>>

\* cancelChildren is called before the handoff (and again after it).
Mut_CancelChildren ==
    /\ stopPC \in {"idle", "cancel"}
    /\ cancelled' = TRUE
    /\ stopPC' = IF stopPC = "cancel" THEN "waiting" ELSE "idle"
    /\ UNCHANGED <<cause, childVars, stopping, expired, running, unexpected, left, errs>>

CancelChildren ==
    /\ stopPC = "cancel"
    /\ cancelled' = TRUE
    /\ stopPC' = "waiting"
    /\ UNCHANGED <<cause, childVars, stopping, expired, running, unexpected, left, errs>>

\* The deadline of stop's context, which may even precede the call.
ShutdownDeadline ==
    /\ stopPC # "returned"
    /\ ~expired
    /\ expired' = TRUE
    /\ UNCHANGED <<cause, childVars, stopping, cancelled, stopPC, running, unexpected, left, errs>>

\* waitForProcesses ends when every process it waits for is done, or breaks
\* out once the deadline has passed.
WaitForProcesses ==
    /\ stopPC = "waiting"
    /\ expired \/ \A p \in running : Done(p)
    /\ stopPC' = "settle"
    /\ UNCHANGED <<cause, childVars, stopping, cancelled, expired, running, unexpected, left, errs>>

\* Report the early exits, then read ctx.Err() once to decide on the kill loop.
Settle ==
    /\ stopPC = "settle"
    /\ errs' = errs \cup (unexpected \X {"unexpected"})
    /\ left' = running
    /\ stopPC' = IF expired THEN "killing" ELSE "reaping"
    /\ UNCHANGED <<cause, childVars, stopping, cancelled, expired, running, unexpected>>

\* Kill a survivor. Killing a child that has been reaped gives ErrProcessDone
\* and killing a zombie nothing: both leave the child as it is.
KillSurvivor(p) ==
    /\ stopPC = "killing"
    /\ p \in left
    /\ left' = left \ {p}
    /\ IF Done(p)
         THEN UNCHANGED <<errs, killed>>
         ELSE /\ errs' = errs \cup {<<p, "deadline">>}
              /\ killed' = IF stage[p] = "alive" THEN killed \cup {p} ELSE killed
    /\ UNCHANGED <<cause, stage, exit, waitErr, signalled,
                   stopping, cancelled, stopPC, expired, running, unexpected>>

KillLoopEnds ==
    /\ stopPC = "killing"
    /\ left = {}
    /\ left' = running
    /\ stopPC' = "reaping"
    /\ UNCHANGED <<cause, childVars, stopping, cancelled, expired, running, unexpected, errs>>

\* The SIGTERM case is forgotten; SIGKILL is taken for a graceful end.
Mut_shutdownError_NoTerm(p) ==
    CASE waitErr[p] \in {"zero", "canceled"} -> {}
      [] waitErr[p] = "sigkill" -> {<<p, "forced">>}
      [] OTHER -> {<<p, "failed">>}
Mut_shutdownError_Kill(p) ==
    IF waitErr[p] \in {"zero", "canceled", "sigterm", "sigkill"}
      THEN {} ELSE {<<p, "failed">>}

\* shutdownError: a clean exit, the cancellation and SIGTERM are intended ends.
shutdownError(p) ==
    CASE waitErr[p] \in {"zero", "canceled", "sigterm"} -> {}
      [] waitErr[p] = "sigkill" -> {<<p, "forced">>}
      [] OTHER -> {<<p, "failed">>}

\* <-process.done, then classify its result.
Reap(p) ==
    /\ stopPC = "reaping"
    /\ p \in left
    /\ Done(p)
    /\ left' = left \ {p}
    /\ errs' = errs \cup shutdownError(p)
    /\ UNCHANGED <<cause, childVars, stopping, cancelled, stopPC, expired, running, unexpected>>

StopReturns ==
    /\ stopPC = "reaping"
    /\ left = {}
    /\ stopPC' = "returned"
    /\ UNCHANGED <<cause, childVars, stopping, cancelled, expired, running, unexpected, left, errs>>

-----------------------------------------------------------------------------
\* By goroutine: os/exec's watcher, and the owner with the child it waits for.
WatcherStep(p) == SendTerm(p) \/ WaitDelayKill(p)
OwnerStep(p)   == WaitReturns(p) \/ Publish(p) \/ CloseDone(p)
StopLoop(p)    == KillSurvivor(p) \/ Reap(p)
StopStep       == \/ CancelChildren \/ WaitForProcesses \/ Settle
                  \/ KillLoopEnds \/ StopReturns
                  \/ \E p \in Proc : StopLoop(p)

\* The steps the suite takes on its own, whoever calls start and stop.
SuiteStep == \/ StopStep
             \/ ShutdownDeadline
             \/ \E p \in Proc : ChildExit(p) \/ WatcherStep(p) \/ OwnerStep(p)

\* Used alone, start and stop are called at any time and in any order.
Next ==
    \/ SuiteStep
    \/ (OperatorStop \/ StartupFailure) /\ UNCHANGED <<childVars, stopVars>>
    \/ Handoff
    \/ \E p \in Proc : Start(p)

\* The goroutines run; os/exec signals, and kills what SIGTERM did not end; a
\* killed child dies and a dead one is reaped. Nothing is assumed of the rest:
\* a child need not exit for SIGTERM, and stop's deadline need never pass.
Reaping(p) == OwnerStep(p) \/ (p \in killed /\ ChildExit(p))
Fairness ==
    /\ WF_vars(StopStep)
    /\ \A p \in Proc : WF_vars(WatcherStep(p)) /\ WF_vars(Reaping(p))

Spec     == Init /\ [][Next]_vars
FairSpec == Spec /\ Fairness

-----------------------------------------------------------------------------
(* Properties *)

\* No child survives its supervisor: when stop returns, every process that was
\* ever started has exited, has been reaped and has published its result. A
\* start racing with stop (infra.go:169-174), the deadline and the kill loop
\* (283-304) are what could leave one behind.
StopReapsAll == stopPC = "returned" => \A p \in Proc : stage[p] \in {"absent", "done"}

\* A loss is never swallowed: if a child's death is what stopped the process,
\* stop's error names that child as having exited unexpectedly. It breaks if
\* the handoff (247-259) can fall between stopRoot and close(done) (203-205).
LossReported ==
    stopPC = "returned" /\ cause \in Proc => <<cause, "unexpected">> \in errs

\* No false alarm: a child the suite itself told to stop is never reported as
\* having exited unexpectedly. It breaks if a child can be signalled before
\* the handoff, e.g. by deriving childrenCtx from the root context (155).
NoFalseAlarm ==
    \A e \in errs : e[2] = "unexpected" => e[1] \notin signalled \cup killed

\* The loss of a child is never mistaken for an operator's stop, although the
\* test is errors.Is(cause, context.Canceled) and a child stopped by its own
\* context does return context.Canceled (services.go:88, infra.go:217).
LossIsNotOperatorStop == cause \in Proc => ~OperatorStopped

\* A clean verdict tells the truth: no child was lost, none was killed, and
\* each ended by itself or by the SIGTERM of the stop. bundle_shutdown_complete
\* is emitted on this verdict (start.go:65-68) and backups rely on it.
CleanIsClean ==
    stopPC = "returned" /\ errs = {} =>
        /\ cause \notin Proc
        /\ killed = {}
        /\ \A p \in Started : exit[p] \in {"zero", "sigterm"}

\* An ordinary stop is clean: if every child got the stop's SIGTERM and ended
\* by it or with status 0 before the deadline, there is nothing to report.
OrdinaryStopIsClean ==
    /\ stopPC = "returned"
    /\ ~expired
    /\ Started \subseteq signalled
    /\ \A p \in Started : exit[p] \in {"zero", "sigterm"}
    => errs = {}

\* What the suite promises its caller. A child is lost once its owner has taken
\* the root down with it, or the handoff has found it dead.
lost(p) == /\ stage[p] \in {"holding", "done"}
           /\ stopping => p \in unexpected
childStates == [p \in Proc |-> CASE stage[p] = "absent" -> "off"
                                [] lost(p) -> "lost"
                                [] stage[p] = "done" /\ ~lost(p) -> "ended"
                                [] OTHER -> "up"]
suitePhase == CASE ~stopping -> "open"
                [] stopping /\ stopPC # "returned" -> "closing"
                [] OTHER -> "closed"
stopVerdict == IF stopPC # "returned" THEN "none"
               ELSE IF errs = {} THEN "clean" ELSE "dirty"

Contract == INSTANCE InfraContract
    WITH child <- childStates, phase <- suitePhase, verdict <- stopVerdict

\* The suite implements that contract, liveness included: stop answers, although
\* it waits for goroutines that need its own lock, however the children behave,
\* as long as the system reaps what is killed (infra.go:306-309).
ImplementsContract == Contract!FairSpec
=============================================================================
