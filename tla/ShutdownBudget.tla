--------------------------- MODULE ShutdownBudget ---------------------------
(***************************************************************************)
(* The deadlines of a shutdown (cmd/start.go, main.go) against the clock.  *)
(*                                                                         *)
(* The other modules let every deadline fall at any moment. This one keeps *)
(* time, in seconds since the container runtime sent SIGTERM and so ended  *)
(* the root context, and asks whether the deadlines fit into one another:  *)
(* services, os/exec's WaitDelay, infra.stop, watchdog, container.         *)
(*                                                                         *)
(* A party may be wedged: then it keeps no time at all. One that is not    *)
(* has returned, or is gone, when its time is up. What the program itself  *)
(* does takes no time.                                                     *)
(***************************************************************************)
EXTENDS Naturals

CONSTANTS
    Proc,        \* the embedded databases
    StartupLag   \* how long an interrupted startup call takes to return

\* Seconds. Definitions called Mut_... are plausible faulty versions of the one
\* that follows them; no specification uses them.
servicesShutdownTimeout == 30
infraProcessWaitDelay   == 60
infraProcessReapMargin  == 5
shutdownWatchdogMargin  == 10

\* No margin for the reaping; the services' timeout used for the databases.
Mut_infraShutdownTimeout_NoMargin == infraProcessWaitDelay
Mut_infraShutdownTimeout_Services == servicesShutdownTimeout

infraShutdownTimeout == infraProcessWaitDelay + infraProcessReapMargin

\* The services' share is forgotten.
Mut_ShutdownTimeout == infraShutdownTimeout + shutdownWatchdogMargin

ShutdownTimeout == servicesShutdownTimeout + infraShutdownTimeout + shutdownWatchdogMargin

\* compose.aio.yml: stop_grace_period
stopGracePeriod == 120

\* An interrupted startup call may use the watchdog's margin, but not all of it.
ASSUME LagAssumption == StartupLag \in 0 .. shutdownWatchdogMargin - 1

VARIABLES
    now,      \* seconds since the root context ended
    wedged,   \* who keeps no time: startup, services, kernel
    phase,    \* where the main goroutine is
    since,    \* when it came there; in reaping: when infra.stop was called
    child,    \* each database: up, killed (SIGKILL sent), gone (reaped)
    killedAt, \* when SIGKILL was sent, 0 before
    blamed    \* databases reported as "exceeded shutdown deadline"

vars == <<now, wedged, phase, since, child, killedAt, blamed>>

Party == {"startup", "services", "kernel"}

TypeOK ==
    /\ now \in 0 .. ShutdownTimeout
    /\ wedged \subseteq Party
    /\ phase \in {"startup", "services", "infra", "reaping", "exited", "forced"}
    /\ since \in 0 .. now
    /\ child \in [Proc -> {"up", "killed", "gone"}]
    /\ killedAt \in [Proc -> 0 .. now]
    /\ blamed \subseteq Proc

Init ==
    /\ now = 0
    /\ wedged \in SUBSET Party
    /\ phase = "startup"
    /\ since = 0
    /\ child \in [Proc -> {"up", "gone"}]
    /\ killedAt = [p \in Proc |-> 0]
    /\ blamed = {}

Over     == phase \in {"exited", "forced"}
Stopping == phase \in {"infra", "reaping"}
AllGone  == \A p \in Proc : child[p] = "gone"

\* context.WithTimeout: a new context's period begins now.
Enter(ph) == phase' = ph /\ since' = now

-----------------------------------------------------------------------------
(* The main goroutine *)

\* The startup call that the stop interrupted returns, or it had returned
\* already: next come the services, or just the databases.
StartupReturns ==
    /\ phase = "startup"
    /\ Enter("services") \/ Enter("infra")
    /\ UNCHANGED <<now, wedged, child, killedAt, blamed>>

\* runServices returns, at its context's deadline at the latest.
ServicesReturn ==
    /\ phase = "services"
    /\ Enter("infra")
    /\ UNCHANGED <<now, wedged, child, killedAt, blamed>>

\* The deadline of the context passed to infra.stop.
Expired == now >= since + infraShutdownTimeout

\* waitForProcesses ends; past the deadline, every survivor is killed.
InfraWaitEnds ==
    /\ phase = "infra"
    /\ AllGone \/ Expired
    /\ phase' = "reaping"
    /\ LET survivors == {p \in Proc : child[p] # "gone"} IN
         /\ blamed' = survivors
         /\ child' = [p \in Proc |-> IF p \in survivors THEN "killed" ELSE child[p]]
         /\ killedAt' = [p \in Proc |-> IF child[p] = "up" THEN now ELSE killedAt[p]]
    /\ UNCHANGED <<now, wedged, since>>

\* Every child is reaped: infra.stop and main return.
Finish ==
    /\ phase = "reaping"
    /\ AllGone
    /\ phase' = "exited"
    /\ UNCHANGED <<now, wedged, since, child, killedAt, blamed>>

-----------------------------------------------------------------------------
(* The children, os/exec and the watchdog *)

\* A child ends and is reaped: by itself, by SIGTERM or by SIGKILL.
ChildGone(p) ==
    /\ ~Over
    /\ child[p] # "gone"
    /\ child' = [child EXCEPT ![p] = "gone"]
    /\ UNCHANGED <<now, wedged, phase, since, killedAt, blamed>>

\* os/exec: WaitDelay after the SIGTERM that infra.stop begins with.
WaitDelayOver(p) == Stopping /\ child[p] = "up" /\ now >= since + infraProcessWaitDelay
WaitDelayKill(p) ==
    /\ WaitDelayOver(p)
    /\ child' = [child EXCEPT ![p] = "killed"]
    /\ killedAt' = [killedAt EXCEPT ![p] = now]
    /\ UNCHANGED <<now, wedged, phase, since, blamed>>

\* The watchdog is armed when the cleanup of the databases begins.
Mut_watchdogDue == Stopping /\ now >= since + ShutdownTimeout

\* main's watchdog sleeps from the end of the root context on.
watchdogDue == now >= ShutdownTimeout
Watchdog ==
    /\ ~Over
    /\ watchdogDue
    /\ phase' = "forced"
    /\ UNCHANGED <<now, wedged, since, child, killedAt, blamed>>

-----------------------------------------------------------------------------
(* Time passes while nothing is due. *)

KeepsTime(party) == party \notin wedged
Due ==
    \/ phase = "startup"  /\ KeepsTime("startup")  /\ now >= StartupLag
    \/ phase = "services" /\ KeepsTime("services") /\ now >= since + servicesShutdownTimeout
    \/ phase = "infra"    /\ (AllGone \/ Expired)
    \/ phase = "reaping"  /\ AllGone
    \/ \E p \in Proc : WaitDelayOver(p)
    \/ \E p \in Proc : /\ child[p] = "killed"
                       /\ KeepsTime("kernel")
                       /\ now + 1 >= killedAt[p] + infraProcessReapMargin
    \/ watchdogDue

Tick ==
    /\ ~Over
    /\ ~Due
    /\ now' = now + 1
    /\ UNCHANGED <<wedged, phase, since, child, killedAt, blamed>>

Next ==
    \/ StartupReturns \/ ServicesReturn \/ InfraWaitEnds \/ Finish
    \/ Watchdog \/ Tick
    \/ \E p \in Proc : ChildGone(p) \/ WaitDelayKill(p)

Spec == Init /\ [][Next]_vars

-----------------------------------------------------------------------------
(* Properties *)

\* The watchdog is outside all cleanup deadlines (start.go:26): if nobody is
\* wedged it never fires, even when every deadline is used up to its end and
\* every child has to be killed.
WatchdogOutside == phase = "forced" => wedged # {}

\* A database has its whole grace period between SIGTERM and SIGKILL (start.go:20),
\* however much of the shutdown the startup and the services have used.
GraceRespected ==
    \A p \in Proc : killedAt[p] # 0 => killedAt[p] >= since + infraProcessWaitDelay

\* A child that had to be killed is reported as such and not, as well, as having
\* exceeded infra.stop's deadline: the margin covers the reaping (start.go:22-24).
NoDeadlineBlame == blamed # {} => "kernel" \in wedged

\* The application owns the forced exit (start.go:28-29): whoever is wedged, it is
\* gone before the container runtime's grace period ends.
OwnsForcedExit == now >= stopGracePeriod => Over
=============================================================================
