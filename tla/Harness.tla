------------------------------ MODULE Harness ------------------------------
(***************************************************************************)
(* The integration harness's BundleProcess (integration/bundle.go) around  *)
(* one start-bundle process: a test that waits for lifecycle events in the *)
(* process's output, stops it and cleans up; the goroutine that captures   *)
(* the output; the one that waits for the exit. TestBundleFreshInstall and *)
(* TestBundleWithS3CustomRegion are the test.                              *)
(*                                                                         *)
(* The bundle is seen from outside: the lines it prints and how it ends.   *)
(* Services and AllInOne have the inside. All lines told apart here are on *)
(* one stream; the other stream's capture touches none of them.            *)
(***************************************************************************)
EXTENDS Naturals, Sequences

CONSTANTS
    Awaited,     \* the events the test waits for, in order
    LogLevels,   \* what --log-level or its environment variable may say; "" is unset
    PipeCap      \* lines that fit into the pipe

ASSUME AwaitedAssumption == Awaited \in Seq({"backend", "ready"}) /\ Len(Awaited) > 0
ASSUME PipeAssumption == PipeCap \in Nat \ {0}

VARIABLES
    child,      \* boot, starting, up, draining, leaving; failing; gone
    status,     \* how it ended: none yet, zero, failed, killed
    logged,     \* its log level lets lifecycle events through
    written,    \* the lines it has written
    stopping,   \* it has been sent SIGINT
    killed,     \* it has been sent SIGKILL
    pipe,       \* lines in the pipe
    readEnd,    \* the harness's end of the pipe is open
    capture,    \* captureOutput: reading, ended
    buf,        \* lines the scanner has read and not yet returned
    output,     \* bp.output, as a set of lines
    waiter,     \* waitForExit: waiting, returned (from cmd.Wait), stored, done
    waitErr,    \* bp.waitErr
    pc,         \* the test: look, probe, late (in waitForOutputMarker), stop and
                \* stopWait (in Stop), cleanup, cancel, ended
    at,         \* the event it is waiting for
    deferred,   \* Stop is the deferred one
    verdict,    \* what the last call returned
    tmpDir      \* the bundle's data is there

childVars == <<child, status, logged, written, stopping, killed>>
pipeVars  == <<pipe, readEnd, capture, buf, output>>
waitVars  == <<waiter, waitErr>>
testVars  == <<pc, at, deferred, verdict, tmpDir>>
vars      == <<childVars, pipeVars, waitVars, testVars>>

\* A line of any wording; a log line above bufio.MaxScanTokenSize; or an event.
Line == {"error", "long", "backend", "ready", "complete"}

TypeOK ==
    /\ child \in {"boot", "starting", "up", "draining", "leaving", "failing", "gone"}
    /\ status \in {"none", "zero", "failed", "killed"}
    /\ {logged, stopping, killed, readEnd, deferred, tmpDir} \subseteq BOOLEAN
    /\ written \subseteq Line /\ output \subseteq Line
    /\ pipe \in Seq(Line) /\ buf \in Seq(Line)
    /\ capture \in {"reading", "ended"}
    /\ waiter \in {"waiting", "returned", "stored", "done"}
    /\ waitErr \in {"nil", "failed", "killed"}
    /\ pc \in {"look", "probe", "late", "stop", "stopWait", "cleanup", "cancel", "ended"}
    /\ at \in 1 .. Len(Awaited)
    /\ verdict \in [kind : {"none", "nil", "early", "exited", "timeout"},
                    err : {"nil", "failed", "killed"}, seen : SUBSET {"error"}]

\* setupLogger: --debug overrides --log-level, which overrides info. Events are
\* logged at info.
DefaultLevel(logLevel, debug) ==
    IF debug THEN "debug" ELSE IF logLevel # "" THEN logLevel ELSE "info"
EventsLogged(level) == level \in {"debug", "info"}

\* StartBundle has started the process and the three goroutines.
Init ==
    /\ child = "boot" /\ status = "none"
    /\ \E l \in LogLevels, d \in BOOLEAN : logged = EventsLogged(DefaultLevel(l, d))
    /\ written = {} /\ output = {}
    /\ stopping = FALSE /\ killed = FALSE
    /\ pipe = <<>> /\ buf = <<>>
    /\ readEnd = TRUE /\ capture = "reading"
    /\ waiter = "waiting" /\ waitErr = "nil"
    /\ pc = "look" /\ at = 1
    /\ deferred = FALSE
    /\ verdict = [kind |-> "none", err |-> "nil", seen |-> {}]
    /\ tmpDir = TRUE

-----------------------------------------------------------------------------
(* The bundle                                                                *)

\* A write blocks while the pipe is full.
WriteLine(l) ==
    /\ Len(pipe) < PipeCap
    /\ pipe' = Append(pipe, l)
    /\ written' = written \cup {l}

\* emitBundleEvent, and the state that the event announces. The first one comes
\* from selectFileStore.
Emit(from, event, to) ==
    /\ child = from
    /\ child' = to
    /\ IF logged THEN WriteLine(event) ELSE UNCHANGED <<pipe, written>>
    /\ UNCHANGED <<status, logged, stopping, killed, readEnd, capture, buf, output>>

\* The process ends, in a state of its own or by a SIGKILL.
ExitWith(s) ==
    /\ child' = "gone"
    /\ status' = s
    /\ UNCHANGED <<logged, written, stopping, killed, pipeVars>>

\* A bundle that ends by itself drains like one that is stopped.
Mut_Drain ==
    /\ child \in {"starting", "up"}
    /\ child' = "draining"
    /\ UNCHANGED <<status, logged, written, stopping, killed, pipeVars>>

Drain ==
    /\ child \in {"starting", "up"} /\ stopping
    /\ child' = "draining"
    /\ UNCHANGED <<status, logged, written, stopping, killed, pipeVars>>

\* A startup or a shutdown that fails prints its error; main exits with 1.
Fail ==
    /\ child \in {"boot", "starting", "draining"}
    /\ child' = "failing"
    /\ WriteLine("error")
    /\ UNCHANGED <<status, logged, stopping, killed, readEnd, capture, buf, output>>

\* Something prints a line longer than the scanner takes.
PrintLong ==
    /\ child # "gone"
    /\ "long" \notin written
    /\ WriteLine("long")
    /\ UNCHANGED <<child, status, logged, stopping, killed, readEnd, capture, buf, output>>

Leave == child = "leaving" /\ ExitWith("zero")
Abort == child = "failing" /\ ExitWith("failed")

\* SIGKILL, from the harness or from anyone else.
Die == child # "gone" /\ ExitWith("killed")

BundleStep ==
    /\ \/ Emit("boot", "backend", "starting") \/ Emit("starting", "ready", "up")
       \/ Emit("draining", "complete", "leaving")
       \/ Drain \/ Fail \/ PrintLong \/ Leave \/ Abort \/ Die
    /\ UNCHANGED <<waitVars, testVars>>

-----------------------------------------------------------------------------
(* captureOutput and waitForExit. Definitions called Mut_... are plausible   *)
(* faulty versions of the one that follows them; no specification uses them. *)

\* The scanner reads what there is.
Read ==
    /\ capture = "reading" /\ readEnd
    /\ buf = <<>> /\ pipe # <<>>
    /\ buf' = pipe
    /\ pipe' = <<>>
    /\ UNCHANGED <<readEnd, capture, output>>

\* It returns a line, which is appended under the mutex; or it gives up on a
\* line that is too long, and nobody reads the pipe any more.
Scan ==
    /\ buf # <<>>
    /\ IF Head(buf) = "long"
         THEN capture' = "ended" /\ buf' = <<>> /\ UNCHANGED output
         ELSE output' = output \cup {Head(buf)} /\ buf' = Tail(buf) /\ UNCHANGED capture
    /\ UNCHANGED <<pipe, readEnd>>

\* End of file, or the error of a pipe closed by cmd.Wait: what is still in it is
\* lost.
ScanEnds ==
    /\ capture = "reading" /\ buf = <<>>
    /\ ~readEnd \/ (child = "gone" /\ pipe = <<>>)
    /\ capture' = "ended"
    /\ UNCHANGED <<pipe, readEnd, buf, output>>

\* cmd.Wait: the process is gone; its pipes are closed, read or not.
WaitReturns ==
    /\ waiter = "waiting" /\ child = "gone"
    /\ waiter' = "returned"
    /\ readEnd' = FALSE
    /\ UNCHANGED <<waitErr, pipe, capture, buf, output>>

StoreErr ==
    /\ waiter = "returned"
    /\ waiter' = "stored"
    /\ waitErr' = IF status = "zero" THEN "nil" ELSE status
    /\ UNCHANGED pipeVars

\* waitDone is closed before the result is stored.
Mut_CloseDone ==
    /\ waiter \in {"returned", "stored"}
    /\ waiter' = "done"
    /\ UNCHANGED <<waitErr, pipeVars>>

CloseDone ==
    /\ waiter = "stored"
    /\ waiter' = "done"
    /\ UNCHANGED <<waitErr, pipeVars>>

CaptureStep == (Read \/ Scan \/ ScanEnds) /\ UNCHANGED <<childVars, waitVars, testVars>>
WaiterStep  == (WaitReturns \/ StoreErr \/ CloseDone) /\ UNCHANGED <<childVars, testVars>>

-----------------------------------------------------------------------------
(* The test: waitForOutputMarker, once per awaited event                     *)

hasExited == waiter = "done"

\* A call returns an error, which quotes the exit status and the output; of the
\* latter, the error in it is kept.
Report(kind) == verdict' = [kind |-> kind, err |-> waitErr, seen |-> output \cap {"error"}]

\* A failed requirement ends the test; its deferred calls run.
Unwind ==
    /\ pc' = "stop"
    /\ deferred' = TRUE
    /\ UNCHANGED <<at, tmpDir>>

\* Before the deadline: is the event in the output? After the last event,
\* VerifyPort, which may fail as well.
Look ==
    /\ pc = "look"
    /\ IF Awaited[at] \notin output
         THEN pc' = "probe" /\ UNCHANGED <<at, deferred>>
         ELSE IF at < Len(Awaited)
           THEN at' = at + 1 /\ UNCHANGED <<pc, deferred>>
           ELSE pc' = "stop" /\ deferred' \in BOOLEAN /\ UNCHANGED at
    /\ UNCHANGED <<verdict, tmpDir>>

\* If not, has the process exited? The event may have come in between.
Probe ==
    /\ pc = "probe"
    /\ IF hasExited THEN Report("early") /\ Unwind
                    ELSE pc' = "look" /\ UNCHANGED <<at, deferred, verdict, tmpDir>>

\* The loop has no deadline.
Mut_TimeUp ==
    /\ pc = "look" /\ hasExited
    /\ pc' = "late"
    /\ UNCHANGED <<at, deferred, verdict, tmpDir>>

TimeUp ==
    /\ pc = "look"
    /\ pc' = "late"
    /\ UNCHANGED <<at, deferred, verdict, tmpDir>>

Late ==
    /\ pc = "late"
    /\ Report(IF hasExited THEN "early" ELSE "timeout")
    /\ Unwind

-----------------------------------------------------------------------------
(* Stop, explicit and deferred; Cleanup; the context's cancel                *)

\* The explicit Stop is followed by the deferred one, that by Cleanup.
StopReturns ==
    /\ IF deferred THEN pc' = "cleanup" /\ UNCHANGED deferred
                   ELSE pc' = "stop" /\ deferred' = TRUE
    /\ UNCHANGED <<at, tmpDir>>

shutdownResult ==
    Report(IF "complete" \notin output \/ waitErr # "nil" THEN "exited" ELSE "nil")

\* The process is sent SIGINT, unless it has exited.
Stop ==
    /\ pc = "stop"
    /\ IF hasExited
         THEN shutdownResult /\ StopReturns /\ UNCHANGED stopping
         ELSE /\ stopping' = TRUE
              /\ pc' = "stopWait"
              /\ UNCHANGED <<at, deferred, verdict, tmpDir>>
    /\ UNCHANGED killed

StopSeesExit ==
    /\ pc = "stopWait" /\ hasExited
    /\ shutdownResult
    /\ StopReturns
    /\ UNCHANGED <<stopping, killed>>

\* The process is left alone when its time is up.
Mut_StopTimesOut ==
    /\ pc = "stopWait" /\ ~killed
    /\ verdict' = [verdict EXCEPT !.kind = "timeout"]
    /\ StopReturns
    /\ UNCHANGED <<stopping, killed>>

\* ShutdownTimeout and its margin have passed. A process that was sent SIGKILL
\* is reaped in less than these two minutes.
StopTimesOut ==
    /\ pc = "stopWait" /\ ~killed
    /\ killed' = TRUE
    /\ verdict' = [verdict EXCEPT !.kind = "timeout"]
    /\ StopReturns
    /\ UNCHANGED stopping

Cleanup ==
    /\ pc = "cleanup"
    /\ tmpDir' = FALSE
    /\ pc' = "cancel"
    /\ UNCHANGED <<stopping, killed, at, deferred, verdict>>

\* os/exec kills a process whose context is done: at its deadline or cancelled.
Cancel ==
    /\ pc = "cancel"
    /\ killed' = TRUE
    /\ pc' = "ended"
    /\ UNCHANGED <<stopping, at, deferred, verdict, tmpDir>>
ContextExpires ==
    /\ ~killed
    /\ killed' = TRUE
    /\ UNCHANGED <<stopping, testVars>>

TestCall(A) == A /\ UNCHANGED <<child, status, logged, written, pipeVars, waitVars>>
Waits == Look \/ Probe \/ Late
Stops == Stop \/ StopSeesExit \/ StopTimesOut \/ Cleanup
TestStep == TestCall((Waits /\ UNCHANGED <<stopping, killed>>) \/ Stops)
Deadline == TestCall(TimeUp /\ UNCHANGED <<stopping, killed>>)

-----------------------------------------------------------------------------
Next ==
    \/ BundleStep \/ CaptureStep \/ WaiterStep \/ TestStep \/ Deadline
    \/ TestCall(Cancel) \/ TestCall(ContextExpires)

Spec == Init /\ [][Next]_vars

-----------------------------------------------------------------------------
(* Properties *)

\* What a call says of the process is true. Stop's nil is a bundle that announced
\* its shutdown and exited with 0; an error that calls it exited carries the
\* status it exited with, though another goroutine stores it (bundle.go:155-161).
VerdictIsTrue ==
    /\ verdict.kind = "nil" => status = "zero" /\ "complete" \in written
    /\ verdict.kind \in {"early", "exited"} =>
          child = "gone" /\ verdict.err = (IF status = "zero" THEN "nil" ELSE status)

\* What a test sees of the bundle, as the contract names it.
Process == INSTANCE ProcessContract WITH
    cause    <- IF stopping THEN "signal" ELSE "none",
    ready    <- "ready" \in written,
    complete <- "complete" \in written,
    status   <- IF status = "killed" THEN "failed" ELSE status

\* The bundle that the tests are written for is no other than the process AllInOne
\* describes: while its log level lets events through, it keeps ProcessContract.
KeepsPromises == (logged => Process!Init) /\ [][logged => Process!Next]_(Process!cvars)

\* What a bundle prints before it dies is in the error of the wait
\* (bundle_test.go:38, "bundle crashed early").
CrashOutputReported ==
    verdict.kind = "early" /\ "error" \in written /\ "long" \notin written =>
        "error" \in verdict.seen
=============================================================================
