------------------------------ MODULE Services ------------------------------
(***************************************************************************)
(* runServices (cmd/services.go): start the bundle's services in order,    *)
(* open the listeners last, wait for the root context, then close the      *)
(* listeners and, in reverse, the services.                                *)
(*                                                                         *)
(* One goroutine runs it all; what it races with is the root context, which *)
(* a signal or the loss of an embedded database can end between any two of *)
(* its steps. Starting and closing an upstream application are calls into  *)
(* external code: they may fail for reasons of their own.                  *)
(***************************************************************************)
EXTENDS RootContext, Naturals

CONSTANTS
    NumServices,   \* len(bundle.Services): coordinator, consensus, filenode, sync
    NumListeners,  \* len(bundle.Listeners): yamux, quic
    Embedded       \* embedded databases whose loss can stop the root context

ASSUME NumAssumption == NumServices \in Nat \ {0} /\ NumListeners \in Nat \ {0}
ASSUME EmbeddedAssumption == Embedded \cap {NoCause, Signal, Startup} = {}

Service  == 1 .. NumServices
Listener == 1 .. NumListeners

VARIABLES
    svc,       \* state of each service's App
    lst,       \* state of each listener
    svcPC,     \* where runServices is
    at,        \* index of its current loop
    err,       \* the startup error it carries: none, stopped (the root
               \* context's own), failed (anything else)
    closeErr,  \* some Close has failed
    ready      \* bundle_ready has been emitted

svcVars == <<svc, lst, svcPC, at, err, closeErr, ready>>
vars    == <<cause, svcVars>>

Starting == {"check", "starting", "listen"}
Stopping == {"closeListeners", "closeServices", "closing"}
Pc == Starting \cup {"announce", "emit", "serving", "classify", "fail"}
               \cup Stopping \cup {"returned"}

TypeOK ==
    /\ cause \in {NoCause, Signal, Startup} \cup Embedded
    /\ svc \in [Service -> {"new", "starting", "up", "unwound", "closing", "closed"}]
    /\ lst \in [Listener -> {"new", "open", "closed"}]
    /\ svcPC \in Pc
    /\ at \in Nat
    /\ svcPC \in {"check", "starting", "closing"} => at \in Service
    /\ svcPC \in {"listen", "closeListeners"} => at \in Listener
    /\ svcPC = "closeServices" => at \in 0 .. NumServices
    /\ err \in {"none", "stopped", "failed"}
    /\ closeErr \in BOOLEAN
    /\ ready \in BOOLEAN

Init ==
    /\ cause = NoCause
    /\ svc = [s \in Service |-> "new"]
    /\ lst = [l \in Listener |-> "new"]
    /\ svcPC = "check"
    /\ at = 1
    /\ err = "none"
    /\ closeErr = FALSE
    /\ ready = FALSE

-----------------------------------------------------------------------------
(* startServices. Definitions called Mut_... are plausible faulty versions   *)
(* of the one that follows them; no specification uses them.                 *)

\* The root context is not looked at between two services.
Mut_CheckRoot ==
    /\ svcPC = "check"
    /\ svc' = [svc EXCEPT ![at] = "starting"]
    /\ svcPC' = "starting"
    /\ UNCHANGED <<cause, lst, at, err, closeErr, ready>>

\* Stop before the next service if the root context is done; a stop that comes
\* after this test finds the service starting.
CheckRoot ==
    /\ svcPC = "check"
    /\ IF ctxDone
         THEN /\ err' = "stopped"
              /\ svcPC' = "classify"
              /\ UNCHANGED svc
         ELSE /\ svc' = [svc EXCEPT ![at] = "starting"]
              /\ svcPC' = "starting"
              /\ UNCHANGED err
    /\ UNCHANGED <<cause, lst, at, closeErr, ready>>

\* The coordinator's own App runs its transports (no deferredTransport).
Mut_ServiceStarts ==
    /\ svcPC = "starting"
    /\ svc' = [svc EXCEPT ![at] = "up"]
    /\ lst' = [l \in Listener |-> "open"]
    /\ IF at < NumServices
         THEN svcPC' = "check" /\ at' = at + 1
         ELSE svcPC' = "listen" /\ at' = 1
    /\ UNCHANGED <<cause, err, closeErr, ready>>

\* App.Start returns nil. It leaves the transports alone: the coordinator only
\* initializes them (deferredTransport).
ServiceStarts ==
    /\ svcPC = "starting"
    /\ svc' = [svc EXCEPT ![at] = "up"]
    /\ IF at < NumServices
         THEN svcPC' = "check" /\ at' = at + 1
         ELSE svcPC' = "listen" /\ at' = 1
    /\ UNCHANGED <<cause, lst, err, closeErr, ready>>

\* The errors an upstream call can return; one that watches its context can
\* return the context's error once that is done.
CallError == {"failed"} \cup (IF ctxDone THEN {"stopped"} ELSE {})

\* App.Start fails, after closing the components of its own that it had begun.
ServiceFails ==
    /\ svcPC = "starting"
    /\ svc' = [svc EXCEPT ![at] = "unwound"]
    /\ err' \in CallError
    /\ svcPC' = "classify"
    /\ UNCHANGED <<cause, lst, at, closeErr, ready>>

\* The listener loop has no test of the root context.
ListenerOpens ==
    /\ svcPC = "listen"
    /\ lst' = [lst EXCEPT ![at] = "open"]
    /\ at' = at + 1
    /\ svcPC' = IF at < NumListeners THEN "listen" ELSE "announce"
    /\ UNCHANGED <<cause, svc, err, closeErr, ready>>

ListenerFails ==
    /\ svcPC = "listen"
    /\ err' \in CallError
    /\ svcPC' = "classify"
    /\ UNCHANGED <<cause, svc, lst, at, closeErr, ready>>

-----------------------------------------------------------------------------
(* runServices *)

\* ctx.Err() == nil is tested first, the event is emitted later: a stop can
\* fall in between.
TestReady ==
    /\ svcPC = "announce"
    /\ svcPC' = IF ctxDone THEN "serving" ELSE "emit"
    /\ UNCHANGED <<cause, svc, lst, at, err, closeErr, ready>>

EmitReady ==
    /\ svcPC = "emit"
    /\ ready' = TRUE
    /\ svcPC' = "serving"
    /\ UNCHANGED <<cause, svc, lst, at, err, closeErr>>

\* Only a signal is waited for, not the root context.
Mut_RootStops ==
    /\ svcPC = "serving"
    /\ cause = Signal
    /\ svcPC' = "closeListeners"
    /\ at' = 1
    /\ UNCHANGED <<cause, svc, lst, err, closeErr, ready>>

RootStops ==
    /\ svcPC = "serving"
    /\ ctxDone
    /\ svcPC' = "closeListeners"
    /\ at' = 1
    /\ UNCHANGED <<cause, svc, lst, err, closeErr, ready>>

\* Every startup error is a failure; every stop is the operator's.
Mut_Classify_AllFail ==
    /\ svcPC = "classify"
    /\ svcPC' = "fail"
    /\ UNCHANGED <<cause, svc, lst, at, err, closeErr, ready>>
Mut_Classify_AllOperator ==
    /\ svcPC = "classify"
    /\ IF ctxDone
         THEN err' = "none" /\ svcPC' = "closeListeners" /\ at' = 1
         ELSE svcPC' = "fail" /\ UNCHANGED <<err, at>>
    /\ UNCHANGED <<cause, svc, lst, closeErr, ready>>

\* A startup error under an operator's stop is taken for its consequence. The
\* loss of a database is no such stop (Infra's LossIsNotOperatorStop).
Classify ==
    /\ svcPC = "classify"
    /\ IF stoppedByOperator({})
         THEN err' = "none" /\ svcPC' = "closeListeners" /\ at' = 1
         ELSE svcPC' = "fail" /\ UNCHANGED <<err, at>>
    /\ UNCHANGED <<cause, svc, lst, closeErr, ready>>

\* stopRoot(err), unless something else stopped it since Classify looked.
Fail ==
    /\ svcPC = "fail"
    /\ stopRoot(Startup)
    /\ svcPC' = "closeListeners"
    /\ at' = 1
    /\ UNCHANGED <<svc, lst, err, closeErr, ready>>

-----------------------------------------------------------------------------
(* stopServices *)

\* Listeners close whether or not they ran; an error is collected, and the
\* socket is released all the same.
CloseListener ==
    /\ svcPC = "closeListeners"
    /\ lst' = [lst EXCEPT ![at] = "closed"]
    /\ closeErr' \in {closeErr, TRUE}
    /\ IF at < NumListeners
         THEN at' = at + 1 /\ UNCHANGED svcPC
         ELSE at' = NumServices /\ svcPC' = "closeServices"
    /\ UNCHANGED <<cause, svc, err, ready>>

\* The services close in the order they started in.
Mut_CloseService ==
    /\ svcPC = "closeServices"
    /\ at > 0
    /\ LET s == NumServices + 1 - at IN
         IF svc[s] = "up"
           THEN svc' = [svc EXCEPT ![s] = "closed"]
           ELSE UNCHANGED svc
    /\ at' = at - 1
    /\ UNCHANGED <<cause, svcPC, lst, err, closeErr, ready>>

\* App.Close begins. It closes nothing in an App that never started, nor in one
\* that has unwound itself.
CloseService ==
    /\ svcPC = "closeServices"
    /\ at > 0
    /\ IF svc[at] = "up"
         THEN /\ svc' = [svc EXCEPT ![at] = "closing"]
              /\ svcPC' = "closing"
              /\ UNCHANGED at
         ELSE /\ at' = at - 1
              /\ UNCHANGED <<svc, svcPC>>
    /\ UNCHANGED <<cause, lst, err, closeErr, ready>>

\* The first error ends the loop.
Mut_ServiceCloses ==
    /\ svcPC = "closing"
    /\ svc' = [svc EXCEPT ![at] = "closed"]
    /\ closeErr' \in {closeErr, TRUE}
    /\ at' = IF closeErr' THEN 0 ELSE at - 1
    /\ svcPC' = "closeServices"
    /\ UNCHANGED <<cause, lst, err, ready>>

\* App.Close returns; an error is collected and the loop goes on.
ServiceCloses ==
    /\ svcPC = "closing"
    /\ svc' = [svc EXCEPT ![at] = "closed"]
    /\ closeErr' \in {closeErr, TRUE}
    /\ at' = at - 1
    /\ svcPC' = "closeServices"
    /\ UNCHANGED <<cause, lst, err, ready>>

RunServicesReturns ==
    /\ svcPC = "closeServices"
    /\ at = 0
    /\ svcPC' = "returned"
    /\ UNCHANGED <<cause, svc, lst, at, err, closeErr, ready>>

-----------------------------------------------------------------------------
ServicesStep ==
    \/ CheckRoot \/ ServiceStarts \/ ServiceFails \/ ListenerOpens \/ ListenerFails
    \/ TestReady \/ EmitReady \/ RootStops \/ Classify \/ Fail
    \/ CloseListener \/ CloseService \/ ServiceCloses \/ RunServicesReturns

\* infraSuite stops the root context because a database is gone.
EmbeddedLoss == ~ctxDone /\ cause' \in Embedded

Next ==
    \/ ServicesStep
    \/ (OperatorStop \/ EmbeddedLoss) /\ UNCHANGED svcVars

Spec == Init /\ [][Next]_vars

-----------------------------------------------------------------------------
(* Properties *)

\* No request reaches a service that is not up: a listener is open only while
\* every service is running (anynodes.go:99-103, a crash upstream once had).
NoEarlyRequest ==
    (\E l \in Listener : lst[l] = "open") => \A s \in Service : svc[s] = "up"

\* A service has what it borrows: the coordinator, and whatever started before
\* it, is up all the time from its start to the end of its Close.
DependenciesUp ==
    \A s \in Service : svc[s] \in {"starting", "up", "closing"} =>
        \A d \in 1 .. s - 1 : svc[d] = "up"

\* Everything is released, whichever step failed: at the end no listener is
\* open and no service is left up (services.go:65-82, continue on error).
AllClosed ==
    svcPC = "returned" =>
        /\ \A l \in Listener : lst[l] = "closed"
        /\ \A s \in Service : svc[s] \in {"new", "unwound", "closed"}

\* An operator's stop is no failure: the context's own error is never returned
\* under a signal, whenever during startup the signal came.
OperatorStopIsNoFailure ==
    svcPC = "returned" /\ cause = Signal => err # "stopped"

\* A failed startup is never swallowed: without an operator's stop, a nil
\* result means that the bundle had started completely and a database was lost,
\* which is for infraSuite to report (services_test.go:146-163).
FailureReported ==
    svcPC = "returned" /\ err = "none" /\ cause # Signal =>
        cause \in Embedded /\ \A s \in Service : svc[s] = "closed"

\* So what runServices returns tells an operator's stop from a failure, both ways
\* round, whenever the two come together (services.go:25-31).
OutcomeIsTrue == OperatorStopIsNoFailure /\ FailureReported

\* bundle_ready is true when it is emitted: the bundle is completely up at that
\* moment, though its stop may just have begun.
ReadyIsTrue ==
    [][ready' # ready => /\ \A s \in Service : svc[s] = "up"
                         /\ \A l \in Listener : lst[l] = "open"]_vars

\* Nothing starts after the stop, save the one service whose test of the root
\* context came just before it (services_test.go:140).
NoLateStart ==
    \A s \in Service : s > 1 =>
        [](ctxDone /\ svc[s - 1] = "new" => [](svc[s] = "new"))
=============================================================================
