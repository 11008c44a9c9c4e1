------------------------ MODULE ShutdownBudgetProofs ------------------------
(***************************************************************************)
(* Theorems about ShutdownBudget for every set of databases and every lag  *)
(* of the startup that LagAssumption allows. The inductive invariant says, *)
(* phase by phase, how late it can be when the parties concerned keep      *)
(* time: BudgetInv adds the deadlines up, ChildInv fixes the one moment at *)
(* which a database can be killed.                                         *)
(***************************************************************************)
EXTENDS ShutdownBudget, TLAPS

\* infra.stop has been called, and since holds the moment.
StopCalled == phase \notin {"startup", "services"}

\* The latest moment a phase can last to, and the shares of those that came
\* before it, each spent by a party that keeps time.
BudgetInv ==
    /\ phase = "startup" => since = 0
    /\ phase = "startup" /\ KeepsTime("startup") => now <= StartupLag
    /\ phase = "services" =>
        /\ KeepsTime("startup") => since <= StartupLag
        /\ KeepsTime("services") => now <= since + servicesShutdownTimeout
    /\ Stopping /\ KeepsTime("startup") /\ KeepsTime("services") =>
        since <= StartupLag + servicesShutdownTimeout
    /\ phase = "infra" => now <= since + infraShutdownTimeout
    /\ phase = "reaping" /\ KeepsTime("kernel") => AllGone /\ now <= since + infraShutdownTimeout
    /\ phase = "forced" => wedged # {}

\* A database is killed at the end of its WaitDelay or not at all; a kernel that
\* keeps time has then reaped it within the margin.
ChildInv ==
    \A p \in Proc :
        /\ child[p] = "up" => killedAt[p] = 0
        /\ child[p] = "killed" => killedAt[p] # 0
        /\ killedAt[p] # 0 => StopCalled /\ killedAt[p] = since + infraProcessWaitDelay
        /\ Stopping /\ child[p] = "up" => now <= since + infraProcessWaitDelay
        /\ Stopping /\ child[p] = "killed" /\ KeepsTime("kernel") =>
            now < killedAt[p] + infraProcessReapMargin

IInv == TypeOK /\ BudgetInv /\ ChildInv /\ NoDeadlineBlame

-----------------------------------------------------------------------------
(* Lemmas *)

\* The deadlines as numbers, for the provers' arithmetic.
LEMMA Deadlines ==
    /\ servicesShutdownTimeout = 30
    /\ infraProcessWaitDelay = 60
    /\ infraProcessReapMargin = 5
    /\ infraShutdownTimeout = 65
    /\ ShutdownTimeout = 105
    /\ stopGracePeriod = 120
    /\ StartupLag \in Nat
    /\ StartupLag < 10
BY LagAssumption DEF servicesShutdownTimeout, infraProcessWaitDelay, infraProcessReapMargin,
   infraShutdownTimeout, shutdownWatchdogMargin, ShutdownTimeout, stopGracePeriod

\* Until infra.stop is called nothing has been killed.
LEMMA NothingKilledYet ==
    ASSUME TypeOK, ChildInv, ~StopCalled, NEW p \in Proc
    PROVE  killedAt[p] = 0 /\ child[p] # "killed"
BY DEF ChildInv

\* A kernel that keeps time leaves no survivor for infra.stop's deadline: what is
\* still there was killed infraProcessReapMargin ago.
LEMMA NoSurvivor ==
    ASSUME TypeOK, ChildInv, phase = "infra", Expired, KeepsTime("kernel")
    PROVE  AllGone
<1>1. SUFFICES ASSUME NEW p \in Proc, child[p] # "gone" PROVE FALSE
  BY DEF AllGone
<1>2. now \in Nat /\ since \in Nat /\ killedAt[p] \in Nat
  BY DEF TypeOK
<1>3. child[p] # "up"
  BY <1>2, Deadlines DEF ChildInv, Stopping, Expired
<1>4. child[p] = "killed"
  BY <1>1, <1>3 DEF TypeOK
<1>5. killedAt[p] = since + infraProcessWaitDelay /\ now < killedAt[p] + infraProcessReapMargin
  BY <1>4 DEF ChildInv, Stopping
<1> QED
  BY <1>2, <1>5, Deadlines DEF Expired

-----------------------------------------------------------------------------
(* The invariant *)

LEMMA Initially == ASSUME Init PROVE IInv
<1>1. TypeOK
  BY Deadlines DEF Init, TypeOK, Party
<1>2. BudgetInv
  BY Deadlines DEF Init, BudgetInv, Stopping
<1>3. ChildInv
  BY DEF Init, ChildInv, Stopping
<1> QED
  BY <1>1, <1>2, <1>3 DEF Init, IInv, NoDeadlineBlame

LEMMA Step == ASSUME IInv, [Next]_vars PROVE IInv'
<1> USE Deadlines DEF IInv
<1>t. now \in Nat /\ since \in Nat
  BY DEF TypeOK
<1>1. CASE StartupReturns
  <2>1. TypeOK'
    BY <1>1 DEF StartupReturns, Enter, TypeOK
  <2>2. BudgetInv'
    BY <1>1, <1>t DEF StartupReturns, Enter, BudgetInv, Stopping, KeepsTime, AllGone
  <2>3. ChildInv'
    BY <1>1, <1>t, NothingKilledYet DEF StartupReturns, Enter, ChildInv, Stopping, StopCalled, KeepsTime
  <2> QED
    BY <1>1, <2>1, <2>2, <2>3 DEF StartupReturns, NoDeadlineBlame
<1>2. CASE ServicesReturn
  <2>1. TypeOK'
    BY <1>2 DEF ServicesReturn, Enter, TypeOK
  <2>2. BudgetInv'
    BY <1>2, <1>t DEF ServicesReturn, Enter, BudgetInv, Stopping, KeepsTime, AllGone
  <2>3. ChildInv'
    BY <1>2, <1>t, NothingKilledYet DEF ServicesReturn, Enter, ChildInv, Stopping, StopCalled, KeepsTime
  <2> QED
    BY <1>2, <2>1, <2>2, <2>3 DEF ServicesReturn, NoDeadlineBlame
<1>3. CASE InfraWaitEnds
  <2> DEFINE survivors == {p \in Proc : child[p] # "gone"}
  <2>a. /\ phase = "infra" /\ phase' = "reaping"
        /\ AllGone \/ Expired
        /\ blamed' = survivors
        /\ child' = [p \in Proc |-> IF p \in survivors THEN "killed" ELSE child[p]]
        /\ killedAt' = [p \in Proc |-> IF child[p] = "up" THEN now ELSE killedAt[p]]
        /\ UNCHANGED <<now, wedged, since>>
    BY <1>3 DEF InfraWaitEnds
  <2>b. KeepsTime("kernel") => AllGone
    BY <2>a, NoSurvivor
  <2>c. ASSUME NEW p \in Proc PROVE ~(Expired /\ child[p] = "up")
    BY <2>a, <1>t DEF ChildInv, Stopping, Expired
  <2>1. TypeOK'
    BY <2>a, <1>t DEF TypeOK
  <2>2. BudgetInv'
    BY <2>a, <2>b, <1>t DEF BudgetInv, Stopping, KeepsTime, AllGone
  <2>d. killedAt' = killedAt
    BY <2>a, <2>c DEF AllGone, TypeOK
  <2>3. ChildInv'
    BY <2>a, <2>b, <2>c, <2>d, <1>t DEF ChildInv, Stopping, StopCalled, KeepsTime, AllGone, TypeOK
  <2>4. NoDeadlineBlame'
    BY <2>a, <2>b DEF NoDeadlineBlame, AllGone, KeepsTime, TypeOK
  <2> QED
    BY <2>1, <2>2, <2>3, <2>4
<1>4. CASE Finish
  <2>1. TypeOK'
    BY <1>4 DEF Finish, TypeOK
  <2>2. BudgetInv'
    BY <1>4 DEF Finish, BudgetInv, Stopping, KeepsTime, AllGone
  <2>3. ChildInv'
    BY <1>4 DEF Finish, ChildInv, Stopping, StopCalled, KeepsTime
  <2> QED
    BY <1>4, <2>1, <2>2, <2>3 DEF Finish, NoDeadlineBlame
<1>5. CASE Watchdog
  <2>1. TypeOK'
    BY <1>5 DEF Watchdog, TypeOK
  <2>2. wedged # {}
    <3>1. SUFFICES ASSUME wedged = {} PROVE FALSE
      OBVIOUS
    <3>2. KeepsTime("startup") /\ KeepsTime("services") /\ KeepsTime("kernel")
      BY <3>1 DEF KeepsTime
    <3>3. now >= 105 /\ phase \in {"startup", "services", "infra", "reaping"}
      BY <1>5, Deadlines DEF Watchdog, watchdogDue, Over, TypeOK
    <3> QED
      BY <3>2, <3>3, <1>t DEF BudgetInv, Stopping
  <2>3. BudgetInv'
    BY <1>5, <2>2 DEF Watchdog, BudgetInv, Stopping
  <2>4. ChildInv'
    BY <1>5, NothingKilledYet DEF Watchdog, ChildInv, Stopping, StopCalled
  <2> QED
    BY <1>5, <2>1, <2>3, <2>4 DEF Watchdog, NoDeadlineBlame
<1>6. CASE Tick
  <2>a. /\ ~Over /\ ~Due
        /\ now' = now + 1
        /\ UNCHANGED <<wedged, phase, since, child, killedAt, blamed>>
    BY <1>6 DEF Tick
  <2>b. now' <= 105
    BY <2>a, <1>t DEF Due, watchdogDue
  <2>1. TypeOK'
    BY <2>a, <2>b, <1>t DEF TypeOK
  <2>2. BudgetInv'
    BY <2>a, <1>t DEF BudgetInv, Stopping, KeepsTime, AllGone, Due, Over, Expired
  <2>3. ChildInv'
    BY <2>a, <1>t DEF ChildInv, Stopping, StopCalled, KeepsTime, Due, WaitDelayOver, TypeOK
  <2> QED
    BY <2>a, <2>1, <2>2, <2>3 DEF NoDeadlineBlame
<1>7. CASE \E p \in Proc : ChildGone(p)
  <2>a. PICK p \in Proc :
            /\ ~Over
            /\ child' = [child EXCEPT ![p] = "gone"]
            /\ UNCHANGED <<now, wedged, phase, since, killedAt, blamed>>
    BY <1>7 DEF ChildGone
  <2>b. \A q \in Proc : child'[q] = child[q] \/ child'[q] = "gone"
    BY <2>a DEF TypeOK
  <2>1. TypeOK'
    BY <2>a DEF TypeOK
  <2>2. BudgetInv'
    BY <2>a, <2>b DEF BudgetInv, Stopping, KeepsTime, AllGone, Over
  <2>3. ChildInv'
    BY <2>a, <2>b DEF ChildInv, Stopping, StopCalled, KeepsTime
  <2> QED
    BY <2>a, <2>1, <2>2, <2>3 DEF NoDeadlineBlame
<1>8. CASE \E p \in Proc : WaitDelayKill(p)
  <2>a. PICK p \in Proc :
            /\ Stopping /\ child[p] = "up" /\ now >= since + infraProcessWaitDelay
            /\ child' = [child EXCEPT ![p] = "killed"]
            /\ killedAt' = [killedAt EXCEPT ![p] = now]
            /\ UNCHANGED <<now, wedged, phase, since, blamed>>
    BY <1>8 DEF WaitDelayKill, WaitDelayOver
  <2>b. now = since + infraProcessWaitDelay
    BY <2>a, <1>t DEF ChildInv
  <2>1. TypeOK'
    BY <2>a, <1>t DEF TypeOK
  <2>2. BudgetInv'
    BY <2>a, <1>t DEF BudgetInv, Stopping, KeepsTime, AllGone
  <2>3. ChildInv'
    BY <2>a, <2>b, <1>t DEF ChildInv, Stopping, StopCalled, KeepsTime, TypeOK
  <2> QED
    BY <2>a, <2>1, <2>2, <2>3 DEF NoDeadlineBlame
<1>9. CASE UNCHANGED vars
  BY <1>9 DEF vars, TypeOK, BudgetInv, ChildInv, NoDeadlineBlame, Stopping, StopCalled, KeepsTime,
     AllGone
<1> QED
  BY <1>1, <1>2, <1>3, <1>4, <1>5, <1>6, <1>7, <1>8, <1>9 DEF Next

-----------------------------------------------------------------------------
(* Theorems *)

\* The deadlines always keep to the budget that IInv gives them (start.go:17-31),
\* whoever is wedged.
THEOREM Invariance == Spec => []IInv
BY Initially, Step, PTL DEF Spec

\* The clock, the phases and the children of a shutdown stay within their types;
\* in particular no shutdown outlasts the watchdog's ShutdownTimeout (main.go).
THEOREM TypeCorrect == Spec => []TypeOK
<1>1. IInv => TypeOK
  BY DEF IInv
<1> QED
  BY <1>1, Invariance, PTL

\* The watchdog is outside all cleanup deadlines (start.go:26): with an interrupted
\* startup that returns within the margin, it only fires when a party is wedged.
THEOREM WatchdogIsOutside == Spec => []WatchdogOutside
<1>1. IInv => WatchdogOutside
  BY DEF IInv, BudgetInv, WatchdogOutside
<1> QED
  BY <1>1, Invariance, PTL

\* Every database has its whole WaitDelay between SIGTERM and SIGKILL
\* (start.go:20), whatever the shutdown has used before.
THEOREM GraceIsRespected == Spec => []GraceRespected
<1>1. IInv => GraceRespected
  <2>1. SUFFICES ASSUME IInv, NEW p \in Proc, killedAt[p] # 0
                 PROVE  killedAt[p] >= since + infraProcessWaitDelay
    BY DEF GraceRespected
  <2> QED
    BY <2>1, Deadlines DEF IInv, ChildInv, TypeOK
<1> QED
  BY <1>1, Invariance, PTL

\* A killed database is not also blamed for infra.stop's deadline (start.go:22-24)
\* unless the kernel does not reap it within the margin.
THEOREM NobodyIsBlamed == Spec => []NoDeadlineBlame
<1>1. IInv => NoDeadlineBlame
  BY DEF IInv
<1> QED
  BY <1>1, Invariance, PTL

\* Whoever is wedged, the process has ended by itself when the container runtime's
\* grace period is over (start.go:28-29, compose.aio.yml).
THEOREM ForcedExitIsOwned == Spec => []OwnsForcedExit
<1>1. IInv => OwnsForcedExit
  BY Deadlines DEF IInv, TypeOK, OwnsForcedExit
<1> QED
  BY <1>1, Invariance, PTL
=============================================================================
