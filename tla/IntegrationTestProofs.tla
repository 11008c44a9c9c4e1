----------------------- MODULE IntegrationTestProofs -----------------------
(***************************************************************************)
(* Theorems about the integration harness for every list of awaited        *)
(* events, every set of log levels and every size of the pipe. The part    *)
(* about Harness is an invariant of Harness!Next; a test with containers   *)
(* takes no other steps of the harness (HarnessIsUsed), so the invariant   *)
(* is one of TestSpec, too. The part about the containers says what exists *)
(* at each call (Held) and what a release still has to undo.               *)
(***************************************************************************)
EXTENDS IntegrationTest, TLAPS

-----------------------------------------------------------------------------
(* The harness *)

Result(s) == IF s = "zero" THEN "nil" ELSE s

\* The process ends once; the waiter's result is that of the process.
WaitInv ==
    /\ child = "gone" <=> status # "none"
    /\ waiter # "waiting" => child = "gone"
    /\ waiter \in {"stored", "done"} => waitErr = Result(status)

\* A line is in the output only if the bundle wrote it.
OutputInv ==
    /\ output \subseteq written
    /\ pipe \in Seq(written)
    /\ buf \in Seq(written)

\* The data goes after the process.
CleanInv ==
    /\ pc \in {"cleanup", "cancel", "ended"} => child = "gone" \/ killed
    /\ ~tmpDir => pc \in {"cancel", "ended"}

HarnessInv == TypeOK /\ WaitInv /\ OutputInv /\ CleanInv /\ VerdictIsTrue

-----------------------------------------------------------------------------
(* The containers *)

Elems(s) == {s[i] : i \in DOMAIN s}

\* What exists when call c is made.
Held(c) ==
    CASE c = "mongo" -> {}
      [] c \in {"mongoURI", "redis"} -> {"mongo"}
      [] c \in {"redisURI", "network"} -> {"mongo", "redis"}
      [] c = "minio" -> {"mongo", "redis", "network"}
      [] c = "mcState" -> {"mongo", "redis", "network", "minio", "mc"}
      [] OTHER -> {"mongo", "redis", "network", "minio"}

Excused == dropped \cup refused
InUseBy(s) == IF C!Attached \cap s # {} THEN {"network"} ELSE {}

\* The network is released after what is attached to it.
NetworkLast(s) ==
    \A i, j \in DOMAIN s : i < j /\ s[i] = "network" => s[j] \notin C!Attached

\* Whatever exists is held for the calls to come, is still to be released, or is
\* excused.
ContainersInv ==
    /\ step \in C!Call \cup {"releasing", "over"}
    /\ next \in {"test", "over"}
    /\ todo \in Seq(C!Resource)
    /\ step \in C!Call => Held(step) \subseteq up /\ up \subseteq Held(step) \cup Excused
    /\ step = "releasing" /\ next = "test" =>
        /\ Elems(todo) \subseteq {"mc"}
        /\ Held("test") \subseteq up
        /\ up \subseteq Held("test") \cup Excused \cup Elems(todo)
    /\ step = "releasing" /\ next = "over" =>
        /\ up \subseteq Excused \cup Elems(todo) \cup InUseBy(Excused)
        /\ NetworkLast(todo)
    /\ ReleasesAll

\* No release is tried twice: what a release has left is not among those to come.
Distinct(s) == \A i, j \in DOMAIN s : s[i] = s[j] => i = j

OnceInv ==
    /\ C!TypeOK
    /\ step \in C!Call => dropped = {} /\ refused \subseteq {"mc"} \ Held(step)
    /\ step \in C!Call \ {"test"} => refused = {}
    /\ step = "releasing" => Distinct(todo) /\ Elems(todo) \cap Excused = {}
    /\ step = "releasing" /\ next = "test" => dropped = {} /\ refused \subseteq {"mc"}

\* The bundle has the containers until it is undone.
TestInv ==
    /\ started \in BOOLEAN
    /\ started /\ step # "test" => pc \in {"cancel", "ended"}

IInv == HarnessInv /\ ContainersInv /\ OnceInv /\ TestInv

-----------------------------------------------------------------------------
(* Lemmas about sequences *)

LEMMA SeqOfMore ==
    ASSUME NEW S, NEW T, S \subseteq T, NEW s \in Seq(S)
    PROVE  s \in Seq(T)
OBVIOUS

LEMMA Appending ==
    ASSUME NEW S, NEW s \in Seq(S), NEW e
    PROVE  Append(s, e) \in Seq(S \cup {e})
<1>1. s \in Seq(S \cup {e})
  BY SeqOfMore
<1> QED
  BY <1>1

LEMMA Taking ==
    ASSUME NEW S, NEW s \in Seq(S), s # <<>>
    PROVE  /\ Head(s) \in S /\ Tail(s) \in Seq(S)
           /\ Elems(s) = {Head(s)} \cup Elems(Tail(s))
           /\ Len(Tail(s)) = Len(s) - 1
           /\ \A i \in DOMAIN Tail(s) : Tail(s)[i] = s[i + 1] /\ i + 1 \in DOMAIN s
<1>1. Len(s) \in Nat /\ Len(s) > 0 /\ DOMAIN s = 1 .. Len(s) /\ Head(s) = s[1]
  OBVIOUS
<1>2. Len(Tail(s)) = Len(s) - 1 /\ DOMAIN Tail(s) = 1 .. Len(s) - 1
  OBVIOUS
<1>3. \A i \in 1 .. Len(s) - 1 : Tail(s)[i] = s[i + 1]
  OBVIOUS
<1>4. \A i \in DOMAIN s : i = 1 \/ (i - 1 \in DOMAIN Tail(s) /\ Tail(s)[i - 1] = s[i])
  BY <1>1, <1>2, <1>3
<1>5. Elems(s) = {Head(s)} \cup Elems(Tail(s))
  <2>1. Elems(s) \subseteq {Head(s)} \cup Elems(Tail(s))
    BY <1>1, <1>4 DEF Elems
  <2>2. {Head(s)} \cup Elems(Tail(s)) \subseteq Elems(s)
    BY <1>1, <1>2, <1>3 DEF Elems
  <2> QED
    BY <2>1, <2>2
<1>6. Head(s) \in S /\ Tail(s) \in Seq(S)
  OBVIOUS
<1> QED
  BY <1>1, <1>2, <1>3, <1>5, <1>6

LEMMA Joining ==
    ASSUME NEW S, NEW s \in Seq(S), NEW t \in Seq(S)
    PROVE  s \o t \in Seq(S) /\ Elems(s \o t) = Elems(s) \cup Elems(t)
<1>1. /\ Len(s) \in Nat /\ Len(t) \in Nat /\ Len(s \o t) = Len(s) + Len(t)
      /\ DOMAIN s = 1 .. Len(s) /\ DOMAIN t = 1 .. Len(t)
      /\ DOMAIN (s \o t) = 1 .. Len(s) + Len(t)
  OBVIOUS
<1>2. /\ \A i \in 1 .. Len(s) : (s \o t)[i] = s[i]
      /\ \A i \in Len(s) + 1 .. Len(s) + Len(t) : (s \o t)[i] = t[i - Len(s)]
  BY <1>1
<1>3. \A i \in 1 .. Len(t) : (s \o t)[Len(s) + i] = t[i] /\ Len(s) + i \in DOMAIN (s \o t)
  BY <1>1, <1>2
<1>4. \A i \in DOMAIN (s \o t) : i \in DOMAIN s \/ i - Len(s) \in DOMAIN t
  BY <1>1
<1>5. Elems(s \o t) \subseteq Elems(s) \cup Elems(t)
  BY <1>1, <1>2, <1>4 DEF Elems
<1>6. Elems(s) \subseteq Elems(s \o t) /\ Elems(t) \subseteq Elems(s \o t)
  <2>1. DOMAIN s \subseteq DOMAIN (s \o t)
    BY <1>1
  <2>2. Elems(s) \subseteq Elems(s \o t)
    BY <1>1, <1>2, <2>1 DEF Elems
  <2>3. Elems(t) \subseteq Elems(s \o t)
    BY <1>1, <1>3 DEF Elems
  <2> QED
    BY <2>2, <2>3
<1>7. s \o t \in Seq(S)
  OBVIOUS
<1> QED
  BY <1>5, <1>6, <1>7

-----------------------------------------------------------------------------
(* The harness's invariant *)

LEMMA HarnessInitially == ASSUME Init PROVE HarnessInv
<1>1. TypeOK
  <2>1. logged \in BOOLEAN
    BY DEF Init, EventsLogged
  <2>2. at \in 1 .. Len(Awaited)
    BY AwaitedAssumption DEF Init
  <2>3. verdict \in [kind : {"none", "nil", "early", "exited", "timeout"},
                     err : {"nil", "failed", "killed"}, seen : SUBSET {"error"}]
    BY DEF Init
  <2>4. /\ stopping = FALSE /\ killed = FALSE /\ readEnd = TRUE
        /\ deferred = FALSE /\ tmpDir = TRUE
    BY DEF Init
  <2>5. {logged, stopping, killed, readEnd, deferred, tmpDir} \subseteq BOOLEAN
    BY <2>1, <2>4
  <2> QED
    BY <2>2, <2>3, <2>5 DEF Init, TypeOK
<1>2. WaitInv /\ OutputInv /\ CleanInv /\ VerdictIsTrue
  BY DEF Init, WaitInv, OutputInv, CleanInv, VerdictIsTrue
<1> QED
  BY <1>1, <1>2 DEF HarnessInv

\* What a step of the bundle can do: write a line, change its state, end.
LEMMA BundleMoves ==
    ASSUME HarnessInv, BundleStep
    PROVE  /\ child # "gone"
           /\ \/ child' \in {"boot", "starting", "up", "draining", "leaving", "failing"}
                 /\ status' = status
              \/ child' = "gone" /\ status' \in {"zero", "failed", "killed"}
           /\ written \subseteq written' /\ written' \subseteq Line
           /\ pipe' \in Seq(written')
           /\ UNCHANGED <<logged, stopping, killed, readEnd, capture, buf, output>>
           /\ UNCHANGED <<waitVars, testVars>>
<1> USE DEF HarnessInv, TypeOK
<1>w. ASSUME NEW l \in Line, WriteLine(l)
      PROVE  written \subseteq written' /\ written' \subseteq Line /\ pipe' \in Seq(written')
  BY <1>w, Appending DEF WriteLine, OutputInv
<1>u. ASSUME UNCHANGED <<written, pipe>>
      PROVE  written \subseteq written' /\ written' \subseteq Line /\ pipe' \in Seq(written')
  BY <1>u DEF OutputInv
<1>e. ASSUME NEW from \in {"boot", "starting", "draining"}, NEW event \in Line,
             NEW to \in {"starting", "up", "leaving"},
             Emit(from, event, to), UNCHANGED <<waitVars, testVars>>
      PROVE  /\ child = from /\ child' = to /\ status' = status
             /\ written \subseteq written' /\ written' \subseteq Line /\ pipe' \in Seq(written')
             /\ UNCHANGED <<logged, stopping, killed, readEnd, capture, buf, output>>
  BY <1>e, <1>w, <1>u DEF Emit
<1>1. CASE Emit("boot", "backend", "starting")
  BY <1>1, <1>e DEF BundleStep, Line
<1>2. CASE Emit("starting", "ready", "up")
  BY <1>2, <1>e DEF BundleStep, Line
<1>3. CASE Emit("draining", "complete", "leaving")
  BY <1>3, <1>e DEF BundleStep, Line
<1>4. CASE Drain
  BY <1>4, <1>u DEF BundleStep, Drain, pipeVars
<1>5. CASE Fail
  BY <1>5, <1>w DEF BundleStep, Fail, Line
<1>6. CASE PrintLong
  BY <1>6, <1>w DEF BundleStep, PrintLong, Line
<1>7. CASE Leave \/ Abort \/ Die
  BY <1>7, <1>u DEF BundleStep, Leave, Abort, Die, ExitWith, pipeVars
<1> QED
  BY <1>1, <1>2, <1>3, <1>4, <1>5, <1>6, <1>7 DEF BundleStep

LEMMA BundleKeeps == ASSUME HarnessInv, BundleStep PROVE HarnessInv'
<1>m. /\ child # "gone"
      /\ \/ child' \in {"boot", "starting", "up", "draining", "leaving", "failing"}
            /\ status' = status
         \/ child' = "gone" /\ status' \in {"zero", "failed", "killed"}
      /\ written \subseteq written' /\ written' \subseteq Line
      /\ pipe' \in Seq(written')
      /\ UNCHANGED <<logged, stopping, killed, readEnd, capture, buf, output>>
      /\ UNCHANGED <<waiter, waitErr, pc, at, deferred, verdict, tmpDir>>
  BY BundleMoves DEF waitVars, testVars
<1>1. TypeOK'
  BY <1>m, SeqOfMore DEF HarnessInv, TypeOK
<1>2. WaitInv' /\ CleanInv' /\ VerdictIsTrue'
  BY <1>m DEF HarnessInv, WaitInv, CleanInv, VerdictIsTrue
<1>3. OutputInv'
  BY <1>m, SeqOfMore DEF HarnessInv, OutputInv
<1> QED
  BY <1>1, <1>2, <1>3 DEF HarnessInv

LEMMA CaptureKeeps == ASSUME HarnessInv, CaptureStep PROVE HarnessInv'
<1>u. UNCHANGED <<child, status, logged, written, stopping, killed, waiter, waitErr,
                  pc, at, deferred, verdict, tmpDir>>
  BY DEF CaptureStep, childVars, waitVars, testVars
<1>r. /\ readEnd' = readEnd
      /\ capture' \in {"reading", "ended"}
      /\ output' \subseteq written
      /\ pipe' \in Seq(written)
      /\ buf' \in Seq(written)
  <2> USE DEF HarnessInv, TypeOK, OutputInv
  <2>1. CASE Read
    BY <2>1 DEF Read
  <2>2. CASE Scan
    <3>1. Head(buf) \in written /\ Tail(buf) \in Seq(written)
      BY <2>2, Taking DEF Scan
    <3>2. CASE Head(buf) = "long"
      BY <2>2, <3>2 DEF Scan
    <3>3. CASE Head(buf) # "long"
      BY <2>2, <3>1, <3>3 DEF Scan
    <3> QED
      BY <3>2, <3>3
  <2>3. CASE ScanEnds
    BY <2>3 DEF ScanEnds
  <2> QED
    BY <2>1, <2>2, <2>3 DEF CaptureStep
<1>1. TypeOK'
  BY <1>u, <1>r, SeqOfMore DEF HarnessInv, TypeOK
<1>2. WaitInv' /\ CleanInv' /\ VerdictIsTrue'
  BY <1>u DEF HarnessInv, WaitInv, CleanInv, VerdictIsTrue
<1>3. OutputInv'
  BY <1>u, <1>r DEF OutputInv
<1> QED
  BY <1>1, <1>2, <1>3 DEF HarnessInv

LEMMA WaiterKeeps == ASSUME HarnessInv, WaiterStep PROVE HarnessInv'
<1>u. /\ UNCHANGED <<child, status, logged, written, stopping, killed,
                     pc, at, deferred, verdict, tmpDir>>
      /\ UNCHANGED <<pipe, capture, buf, output>>
      /\ readEnd' \in {readEnd, FALSE}
  BY DEF WaiterStep, WaitReturns, StoreErr, CloseDone, childVars, testVars, pipeVars
<1>r. /\ waiter' \in {"returned", "stored", "done"} /\ child = "gone"
      /\ waitErr' \in {"nil", "failed", "killed"}
      /\ waiter' \in {"stored", "done"} => waitErr' = Result(status)
  BY DEF WaiterStep, WaitReturns, StoreErr, CloseDone, HarnessInv, TypeOK, WaitInv, Result
<1>1. TypeOK'
  <2>1. {logged, stopping, killed, readEnd, deferred, tmpDir}' \subseteq BOOLEAN
    BY <1>u DEF HarnessInv, TypeOK
  <2> QED
    BY <1>u, <1>r, <2>1 DEF HarnessInv, TypeOK
<1>2. WaitInv'
  BY <1>u, <1>r DEF HarnessInv, WaitInv
<1>3. OutputInv' /\ CleanInv' /\ VerdictIsTrue'
  BY <1>u DEF HarnessInv, OutputInv, CleanInv, VerdictIsTrue
<1> QED
  BY <1>1, <1>2, <1>3 DEF HarnessInv

Verdicts == [kind : {"none", "nil", "early", "exited", "timeout"},
             err : {"nil", "failed", "killed"}, seen : SUBSET {"error"}]

\* The verdict is the one before, or one the test may give now.
Verdict(v) ==
    /\ v \in Verdicts
    /\ \/ v = verdict
       \/ v.kind = "timeout"
       \/ waiter = "done" /\ v.err = waitErr /\ v.kind \in {"early", "exited"}
       \/ waiter = "done" /\ waitErr = "nil" /\ "complete" \in output /\ v.kind = "nil"

LEMMA Reported ==
    ASSUME HarnessInv, NEW kind \in {"early", "exited", "timeout", "nil"}, Report(kind),
           kind # "timeout" => waiter = "done",
           kind = "nil" => waitErr = "nil" /\ "complete" \in output
    PROVE  Verdict(verdict')
<1>1. verdict' \in Verdicts
  BY DEF Report, Verdicts, HarnessInv, TypeOK
<1>2. verdict'.kind = kind /\ verdict'.err = waitErr
  BY DEF Report
<1> QED
  BY <1>1, <1>2 DEF Verdict

LEMMA TimedOut ==
    ASSUME HarnessInv, verdict' = [verdict EXCEPT !.kind = "timeout"]
    PROVE  Verdict(verdict')
<1>1. verdict \in Verdicts
  BY DEF HarnessInv, TypeOK, Verdicts
<1>2. verdict' \in Verdicts /\ verdict'.kind = "timeout"
  BY <1>1 DEF Verdicts
<1> QED
  BY <1>2 DEF Verdict

LEMMA SameVerdict == ASSUME HarnessInv, verdict' = verdict PROVE Verdict(verdict')
BY DEF Verdict, HarnessInv, TypeOK, Verdicts

\* What a call of the test can do. The process is not cleaned up after while it
\* lives and nobody has killed it.
CallMoves ==
    /\ stopping' \in BOOLEAN
    /\ killed' \in {killed, TRUE}
    /\ pc' \in {"look", "probe", "late", "stop", "stopWait", "cleanup", "cancel", "ended"}
    /\ at' \in 1 .. Len(Awaited)
    /\ deferred' \in BOOLEAN /\ tmpDir' \in BOOLEAN
    /\ Verdict(verdict')
    /\ pc' \in {"cleanup", "cancel", "ended"} => child = "gone" \/ killed'
    /\ ~tmpDir' => pc' \in {"cancel", "ended"}

LEMMA Exited == ASSUME HarnessInv, hasExited PROVE child = "gone" /\ waiter = "done"
BY DEF HarnessInv, WaitInv, hasExited

LEMMA TestMoves ==
    ASSUME HarnessInv,
           \/ (Waits \/ TimeUp) /\ UNCHANGED <<stopping, killed>>
           \/ Stops \/ Cancel \/ ContextExpires
    PROVE  CallMoves
<1>t. /\ {stopping, killed, deferred, tmpDir} \subseteq BOOLEAN
      /\ at \in 1 .. Len(Awaited) /\ Len(Awaited) \in Nat
      /\ pc \in {"cleanup", "cancel", "ended"} => child = "gone" \/ killed
      /\ ~tmpDir => pc \in {"cancel", "ended"}
  BY AwaitedAssumption DEF HarnessInv, TypeOK, CleanInv
<1> USE DEF CallMoves
<1>1. CASE Look /\ UNCHANGED <<stopping, killed>>
  <2>1. Verdict(verdict')
    BY <1>1, SameVerdict DEF Look
  <2>2. CASE Awaited[at] \notin output
    BY <1>1, <1>t, <2>1, <2>2 DEF Look
  <2>3. CASE Awaited[at] \in output /\ at < Len(Awaited)
    BY <1>1, <1>t, <2>1, <2>3 DEF Look
  <2>4. CASE Awaited[at] \in output /\ ~(at < Len(Awaited))
    BY <1>1, <1>t, <2>1, <2>4 DEF Look
  <2> QED
    BY <2>2, <2>3, <2>4
<1>2. CASE Probe /\ UNCHANGED <<stopping, killed>>
  <2>1. CASE hasExited
    <3>1. Verdict(verdict')
      BY <1>2, <2>1, Reported DEF Probe, hasExited
    <3> QED
      BY <1>2, <1>t, <2>1, <3>1 DEF Probe, Unwind
  <2>2. CASE ~hasExited
    <3>1. Verdict(verdict')
      BY <1>2, <2>2, SameVerdict DEF Probe
    <3> QED
      BY <1>2, <1>t, <2>2, <3>1 DEF Probe
  <2> QED
    BY <2>1, <2>2
<1>3. CASE Late /\ UNCHANGED <<stopping, killed>>
  <2>1. Verdict(verdict')
    <3>1. CASE hasExited
      BY <1>3, <3>1, Reported DEF Late, hasExited
    <3>2. CASE ~hasExited
      BY <1>3, <3>2, Reported DEF Late
    <3> QED
      BY <3>1, <3>2
  <2> QED
    BY <1>3, <1>t, <2>1 DEF Late, Unwind
<1>4. CASE TimeUp /\ UNCHANGED <<stopping, killed>>
  BY <1>4, <1>t, SameVerdict DEF TimeUp
<1>r. ASSUME StopReturns, child = "gone" \/ killed', pc \in {"stop", "stopWait"}
      PROVE  /\ pc' \in {"stop", "cleanup"} /\ deferred' \in BOOLEAN
             /\ at' = at /\ tmpDir' = tmpDir /\ tmpDir = TRUE
  BY <1>r, <1>t DEF StopReturns
<1>s. ASSUME shutdownResult, hasExited PROVE Verdict(verdict')
  <2>1. CASE "complete" \notin output \/ waitErr # "nil"
    BY <1>s, <2>1, Reported DEF shutdownResult, hasExited
  <2>2. CASE "complete" \in output /\ waitErr = "nil"
    BY <1>s, <2>2, Reported DEF shutdownResult, hasExited
  <2> QED
    BY <2>1, <2>2
<1>5. CASE Stop
  <2>1. CASE hasExited
    BY <1>5, <1>t, <2>1, <1>r, <1>s, Exited DEF Stop
  <2>2. CASE ~hasExited
    BY <1>5, <1>t, <2>2, SameVerdict DEF Stop
  <2> QED
    BY <2>1, <2>2
<1>6. CASE StopSeesExit
  BY <1>6, <1>t, <1>r, <1>s, Exited DEF StopSeesExit
<1>7. CASE StopTimesOut
  BY <1>7, <1>t, <1>r, TimedOut DEF StopTimesOut
<1>8. CASE Cleanup
  BY <1>8, <1>t, SameVerdict DEF Cleanup
<1>9. CASE Cancel
  BY <1>9, <1>t, SameVerdict DEF Cancel
<1>10. CASE ContextExpires
  BY <1>10, <1>t, SameVerdict DEF ContextExpires, testVars, HarnessInv, TypeOK
<1> QED
  BY <1>1, <1>2, <1>3, <1>4, <1>5, <1>6, <1>7, <1>8, <1>9, <1>10 DEF Waits, Stops

LEMMA TestKeeps ==
    ASSUME HarnessInv,
           TestStep \/ Deadline \/ TestCall(Cancel) \/ TestCall(ContextExpires)
    PROVE  HarnessInv'
<1>u. UNCHANGED <<child, status, logged, written, pipe, readEnd, capture, buf, output,
                  waiter, waitErr>>
  BY DEF TestStep, Deadline, TestCall, pipeVars, waitVars
<1>m. CallMoves
  BY TestMoves DEF TestStep, Deadline, TestCall
<1>1. TypeOK'
  <2>1. {logged, stopping, killed, readEnd, deferred, tmpDir}' \subseteq BOOLEAN
    BY <1>u, <1>m DEF HarnessInv, TypeOK, CallMoves
  <2> QED
    BY <1>u, <1>m, <2>1 DEF HarnessInv, TypeOK, CallMoves, Verdict, Verdicts
<1>2. WaitInv' /\ OutputInv' /\ CleanInv'
  BY <1>u, <1>m DEF HarnessInv, WaitInv, OutputInv, CleanInv, CallMoves
<1>3. VerdictIsTrue'
  <2>1. waiter = "done" => child = "gone" /\ waitErr = Result(status)
    BY DEF HarnessInv, WaitInv
  <2>2. CASE verdict' = verdict
    BY <1>u, <2>2 DEF HarnessInv, VerdictIsTrue
  <2>3. CASE verdict'.kind = "timeout"
    BY <2>3 DEF VerdictIsTrue
  <2>4. CASE waiter = "done" /\ verdict'.err = waitErr /\ verdict'.kind \in {"early", "exited"}
    BY <1>u, <2>1, <2>4 DEF VerdictIsTrue, Result
  <2>5. CASE waiter = "done" /\ waitErr = "nil" /\ "complete" \in output /\ verdict'.kind = "nil"
    <3>1. status = "zero"
      BY <2>1, <2>5 DEF Result, HarnessInv, TypeOK, WaitInv
    <3>2. "complete" \in written
      BY <2>5 DEF HarnessInv, OutputInv
    <3> QED
      BY <1>u, <2>5, <3>1, <3>2 DEF VerdictIsTrue
  <2> QED
    BY <1>m, <2>2, <2>3, <2>4, <2>5 DEF CallMoves, Verdict
<1> QED
  BY <1>1, <1>2, <1>3 DEF HarnessInv

LEMMA HarnessStep == ASSUME HarnessInv, [Next]_vars PROVE HarnessInv'
<1>1. CASE UNCHANGED vars
  <2>1. UNCHANGED <<child, status, logged, written, stopping, killed, pipe, readEnd, capture,
                    buf, output, waiter, waitErr, pc, at, deferred, verdict, tmpDir>>
    BY <1>1 DEF vars, childVars, pipeVars, waitVars, testVars
  <2> QED
    BY <2>1 DEF HarnessInv, TypeOK, WaitInv, OutputInv, CleanInv, VerdictIsTrue
<1> QED
  BY <1>1, BundleKeeps, CaptureKeeps, WaiterKeeps, TestKeeps DEF Next

-----------------------------------------------------------------------------
(* The bundle and its promises *)

\* How far the bundle is, against what it has said and been told.
PromiseInv ==
    /\ child \in {"draining", "leaving"} => stopping
    /\ "ready" \in written => child \notin {"boot", "starting"}
    /\ "complete" \in written => child \in {"leaving", "gone"}
    /\ logged /\ child = "leaving" => "complete" \in written

\* Whatever is no step of the bundle leaves it alone, but for its signals.
LEMMA Watching ==
    ASSUME HarnessInv, [Next]_vars, ~BundleStep
    PROVE  UNCHANGED <<child, status, logged, written>> /\ stopping' \in {stopping, TRUE}
<1>1. CASE CaptureStep \/ WaiterStep
  BY <1>1 DEF CaptureStep, WaiterStep, childVars
<1>2. CASE TestStep \/ Deadline \/ TestCall(Cancel) \/ TestCall(ContextExpires)
  <2>1. UNCHANGED <<child, status, logged, written>>
    BY <1>2 DEF TestStep, Deadline, TestCall
  <2>2. stopping' \in {stopping, TRUE}
    BY <1>2 DEF TestStep, Deadline, TestCall, Stops, Stop, StopSeesExit, StopTimesOut, Cleanup,
       Cancel, ContextExpires
  <2> QED
    BY <2>1, <2>2
<1>3. CASE UNCHANGED vars
  BY <1>3 DEF vars, childVars
<1> QED
  BY <1>1, <1>2, <1>3 DEF Next

\* A step of the bundle keeps both.
LEMMA BundlePromises ==
    ASSUME HarnessInv, PromiseInv, BundleStep
    PROVE  PromiseInv' /\ (logged => [Process!Next]_(Process!cvars))
<1>0. /\ status = "none" /\ logged \in BOOLEAN /\ stopping \in BOOLEAN
      /\ UNCHANGED <<logged, stopping>>
  <2>1. child # "gone" /\ UNCHANGED <<logged, stopping>>
    BY BundleMoves
  <2> QED
    BY <2>1 DEF HarnessInv, WaitInv, TypeOK
<1> USE DEF PromiseInv, Process!Next, Process!cvars, Process!BecomeReady, Process!Complete,
            Process!Exit, Process!Signal
<1>1. CASE Emit("boot", "backend", "starting")
  BY <1>0, <1>1 DEF Emit, WriteLine
<1>2. CASE Emit("starting", "ready", "up")
  BY <1>0, <1>2 DEF Emit, WriteLine
<1>3. CASE Emit("draining", "complete", "leaving")
  BY <1>0, <1>3 DEF Emit, WriteLine
<1>4. CASE Drain
  BY <1>0, <1>4 DEF Drain
<1>5. CASE Fail
  BY <1>0, <1>5 DEF Fail, WriteLine
<1>6. CASE PrintLong
  BY <1>0, <1>6 DEF PrintLong, WriteLine
<1>7. CASE Leave
  BY <1>0, <1>7 DEF Leave, ExitWith
<1>8. CASE Abort \/ Die
  BY <1>0, <1>8 DEF Abort, Die, ExitWith
<1> QED
  BY <1>1, <1>2, <1>3, <1>4, <1>5, <1>6, <1>7, <1>8 DEF BundleStep

LEMMA PromiseStep ==
    ASSUME HarnessInv, PromiseInv, [Next]_vars
    PROVE  PromiseInv' /\ (logged => [Process!Next]_(Process!cvars))
<1>1. CASE ~BundleStep
  <2>1. UNCHANGED <<child, status, logged, written>> /\ stopping' \in {stopping, TRUE}
    BY <1>1, Watching
  <2>2. stopping \in BOOLEAN
    BY DEF HarnessInv, TypeOK
  <2> QED
    BY <2>1, <2>2 DEF PromiseInv, Process!Next, Process!cvars, Process!RootEnds, Process!ctxDone,
       Process!NoCause
<1> QED
  BY <1>1, BundlePromises

-----------------------------------------------------------------------------
(* The containers' invariant *)

LEMMA CallOrder ==
    /\ C!Call = {"mongo", "mongoURI", "redis", "redisURI", "network", "minio",
                 "host", "port", "mc", "mcState", "test"}
    /\ C!After("mongo") = "mongoURI" /\ C!After("mongoURI") = "redis"
    /\ C!After("redis") = "redisURI" /\ C!After("redisURI") = "network"
    /\ C!After("network") = "minio" /\ C!After("minio") = "host"
    /\ C!After("host") = "port" /\ C!After("port") = "mc"
    /\ C!After("mc") = "mcState" /\ C!After("mcState") = "test"
<1>1. DOMAIN C!Calls = 1 .. 11
  BY DEF C!Calls
<1>2. /\ C!Calls[1] = "mongo" /\ C!Calls[2] = "mongoURI" /\ C!Calls[3] = "redis"
      /\ C!Calls[4] = "redisURI" /\ C!Calls[5] = "network" /\ C!Calls[6] = "minio"
      /\ C!Calls[7] = "host" /\ C!Calls[8] = "port" /\ C!Calls[9] = "mc"
      /\ C!Calls[10] = "mcState" /\ C!Calls[11] = "test"
  BY DEF C!Calls
<1>3. C!Call = {C!Calls[j] : j \in 1 .. 11}
  BY <1>1 DEF C!Call
<1>4. C!Call = {"mongo", "mongoURI", "redis", "redisURI", "network", "minio",
                "host", "port", "mc", "mcState", "test"}
  BY <1>2, <1>3
<1>5. \A i, j \in 1 .. 11 : C!Calls[i] = C!Calls[j] => i = j
  BY <1>2
<1>6. \A i \in 1 .. 10 : C!After(C!Calls[i]) = C!Calls[i + 1]
  <2>1. \A i \in 1 .. 10 : (CHOOSE j \in DOMAIN C!Calls : C!Calls[j] = C!Calls[i]) = i
    BY <1>1, <1>5
  <2> QED
    BY <2>1 DEF C!After
<1>7. /\ C!After("mongo") = "mongoURI" /\ C!After("mongoURI") = "redis"
      /\ C!After("redis") = "redisURI" /\ C!After("redisURI") = "network"
      /\ C!After("network") = "minio" /\ C!After("minio") = "host"
      /\ C!After("host") = "port" /\ C!After("port") = "mc"
      /\ C!After("mc") = "mcState" /\ C!After("mcState") = "test"
  BY <1>2, <1>6
<1> QED
  BY <1>4, <1>7

\* A call that succeeds adds what it is named after to what is held.
LEMMA Holding ==
    ASSUME NEW c \in C!Call \ {"test", "mcState"}
    PROVE  /\ C!After(c) \in C!Call
           /\ Held(C!After(c)) = Held(c) \cup ({c} \cap C!Resource)
BY CallOrder DEF Held, C!Resource, C!Container

\* The releases of one kind, and their order.
LEMMA Releases ==
    /\ C!Terminate \in Seq(C!Resource) /\ Elems(C!Terminate) = {"minio", "network"}
    /\ \A r \in C!Resource : <<r>> \in Seq(C!Resource) /\ Elems(<<r>>) = {r}
    /\ <<"redis", "mongo">> \in Seq(C!Resource)
    /\ Elems(<<"redis", "mongo">>) = {"redis", "mongo"}
    /\ << >> \in Seq(C!Resource) /\ Elems(<< >>) = {}
BY DEF Elems, C!Terminate, C!Resource, C!Container

\* The order of two lists of releases joined.
LEMMA JoiningReleases ==
    ASSUME NEW s \in Seq(C!Resource), NEW t \in Seq(C!Resource),
           NetworkLast(s), NetworkLast(t),
           C!Attached \cap Elems(t) = {} \/ "network" \notin Elems(s)
    PROVE  NetworkLast(s \o t)
<1>1. /\ Len(s) \in Nat /\ Len(t) \in Nat
      /\ DOMAIN s = 1 .. Len(s) /\ DOMAIN t = 1 .. Len(t)
      /\ DOMAIN (s \o t) = 1 .. Len(s) + Len(t)
  OBVIOUS
<1>2. /\ \A i \in 1 .. Len(s) : (s \o t)[i] = s[i]
      /\ \A i \in Len(s) + 1 .. Len(s) + Len(t) : (s \o t)[i] = t[i - Len(s)]
  BY <1>1
<1>3. SUFFICES ASSUME NEW i \in DOMAIN (s \o t), NEW j \in DOMAIN (s \o t), i < j,
                      (s \o t)[i] = "network", (s \o t)[j] \in C!Attached
               PROVE  FALSE
  BY DEF NetworkLast
<1> HIDE DEF C!Attached
<1>4. CASE j <= Len(s)
  BY <1>1, <1>2, <1>3, <1>4 DEF NetworkLast
<1>5. CASE i > Len(s)
  <2>1. i - Len(s) \in DOMAIN t /\ j - Len(s) \in DOMAIN t /\ i - Len(s) < j - Len(s)
    BY <1>1, <1>3, <1>5
  <2>2. t[i - Len(s)] = "network" /\ t[j - Len(s)] \in C!Attached
    BY <1>1, <1>2, <1>3, <1>5
  <2> QED
    BY <2>1, <2>2 DEF NetworkLast
<1>6. CASE i <= Len(s) /\ j > Len(s)
  <2>1. s[i] = "network" /\ i \in DOMAIN s
    BY <1>1, <1>2, <1>3, <1>6
  <2>2. t[j - Len(s)] \in C!Attached /\ j - Len(s) \in DOMAIN t
    BY <1>1, <1>2, <1>3, <1>6
  <2> QED
    BY <2>1, <2>2 DEF Elems
<1> QED
  BY <1>1, <1>4, <1>5, <1>6

LEMMA JoiningDistinct ==
    ASSUME NEW S, NEW s \in Seq(S), NEW t \in Seq(S), Distinct(s), Distinct(t),
           Elems(s) \cap Elems(t) = {}
    PROVE  Distinct(s \o t)
<1>1. /\ Len(s) \in Nat /\ Len(t) \in Nat
      /\ DOMAIN s = 1 .. Len(s) /\ DOMAIN t = 1 .. Len(t)
      /\ DOMAIN (s \o t) = 1 .. Len(s) + Len(t)
  OBVIOUS
<1>2. /\ \A i \in 1 .. Len(s) : (s \o t)[i] = s[i]
      /\ \A i \in Len(s) + 1 .. Len(s) + Len(t) : (s \o t)[i] = t[i - Len(s)]
  BY <1>1
<1>3. SUFFICES ASSUME NEW i \in DOMAIN (s \o t), NEW j \in DOMAIN (s \o t),
                      (s \o t)[i] = (s \o t)[j]
               PROVE  i = j
  BY DEF Distinct
<1>x. ASSUME NEW a \in DOMAIN s, NEW b \in DOMAIN t PROVE s[a] # t[b]
  BY DEF Elems
<1>4. CASE i <= Len(s) /\ j <= Len(s)
  BY <1>1, <1>2, <1>3, <1>4 DEF Distinct
<1>5. CASE i > Len(s) /\ j > Len(s)
  <2>1. i - Len(s) \in DOMAIN t /\ j - Len(s) \in DOMAIN t
    BY <1>1, <1>3, <1>5
  <2>2. t[i - Len(s)] = t[j - Len(s)]
    BY <1>1, <1>2, <1>3, <1>5
  <2>3. i - Len(s) = j - Len(s)
    BY <2>1, <2>2 DEF Distinct
  <2> QED
    BY <1>1, <2>3
<1>6. CASE i <= Len(s) /\ j > Len(s)
  BY <1>1, <1>2, <1>3, <1>6, <1>x
<1>7. CASE i > Len(s) /\ j <= Len(s)
  BY <1>1, <1>2, <1>3, <1>7, <1>x
<1> QED
  BY <1>1, <1>4, <1>5, <1>6, <1>7

\* Wherever the set-up fails, what it holds is released once, the network last; but
\* not what the failing call itself has left.
LEMMA Undoing ==
    ASSUME NEW c \in C!Call
    PROVE  /\ C!Unwind(c) \o C!Deferred(c) \in Seq(C!Resource)
           /\ NetworkLast(C!Unwind(c) \o C!Deferred(c))
           /\ Distinct(C!Unwind(c) \o C!Deferred(c))
           /\ c # "test" => Held(c) \subseteq Elems(C!Unwind(c) \o C!Deferred(c))
           /\ c \notin Elems(C!Unwind(c) \o C!Deferred(c))
           /\ C!Deferred("test") \in Seq(C!Resource)
           /\ NetworkLast(C!Deferred("test"))
           /\ Distinct(C!Deferred("test"))
           /\ Held("test") \subseteq Elems(C!Deferred("test"))
           /\ "mc" \notin Elems(C!Deferred("test"))
<1> DEFINE Fine(s) == s \in Seq(C!Resource) /\ NetworkLast(s) /\ Distinct(s)
<1>n. C!Attached = {"minio", "mc"} /\ C!Resource = {"mongo", "redis", "minio", "mc", "network"}
  BY DEF C!Attached, C!Resource, C!Container
<1>1. \A r \in C!Resource : Fine(<<r>>) /\ Elems(<<r>>) = {r}
  BY Releases DEF NetworkLast, Distinct
<1>2. Fine(<<"redis", "mongo">>) /\ Elems(<<"redis", "mongo">>) = {"redis", "mongo"}
  BY Releases DEF NetworkLast, Distinct
<1>3. Fine(<< >>) /\ Elems(<< >>) = {}
  BY Releases DEF NetworkLast, Distinct
<1>4. Fine(C!Terminate) /\ Elems(C!Terminate) = {"minio", "network"}
  BY Releases DEF NetworkLast, Distinct, C!Terminate, C!Attached
<1>j. ASSUME NEW s, NEW t, Fine(s), Fine(t),
             C!Attached \cap Elems(t) = {} \/ "network" \notin Elems(s),
             Elems(s) \cap Elems(t) = {}
      PROVE  Fine(s \o t) /\ Elems(s \o t) = Elems(s) \cup Elems(t)
  BY <1>j, JoiningReleases, JoiningDistinct, Joining
<1> HIDE DEF Fine
<1>5. /\ Fine(<<"mc">> \o C!Terminate)
      /\ Elems(<<"mc">> \o C!Terminate) = {"mc", "minio", "network"}
  BY <1>n, <1>1, <1>4, <1>j
<1>6. /\ Fine(C!Deferred("test"))
      /\ Elems(C!Deferred("test")) = {"minio", "network", "redis", "mongo"}
  <2>1. C!Deferred("test") = C!Terminate \o <<"redis", "mongo">>
    BY DEF C!Deferred
  <2>2. /\ C!Attached \cap Elems(<<"redis", "mongo">>) = {}
        /\ Elems(C!Terminate) \cap Elems(<<"redis", "mongo">>) = {}
    BY <1>n, <1>2, <1>4
  <2> DEFINE rs == C!Terminate \o <<"redis", "mongo">>
  <2>3. Fine(rs) /\ Elems(rs) = Elems(C!Terminate) \cup Elems(<<"redis", "mongo">>)
    BY ONLY <1>2, <1>4, <1>j, <2>2
  <2> HIDE DEF rs
  <2> QED
    BY <1>2, <1>4, <2>1, <2>3 DEF rs
<1>7. /\ Fine(C!Deferred(c))
      /\ c # "test" => Elems(C!Deferred(c)) = IF c \in {"mongo", "mongoURI"} THEN {}
                                              ELSE IF c \in {"redis", "redisURI"} THEN {"mongo"}
                                              ELSE {"redis", "mongo"}
  <2>1. CASE c \in {"mongo", "mongoURI"}
    BY <1>3, <2>1 DEF C!Deferred
  <2>2. CASE c \in {"redis", "redisURI"}
    BY <1>n, <1>1, <2>2 DEF C!Deferred
  <2>3. CASE c = "test"
    BY <1>6, <2>3
  <2>4. CASE c \notin {"mongo", "mongoURI", "redis", "redisURI", "test"}
    BY <1>2, <2>4 DEF C!Deferred
  <2> QED
    BY <2>1, <2>2, <2>3, <2>4
<1>8. /\ Fine(C!Unwind(c))
      /\ Elems(C!Unwind(c)) = CASE c = "mongoURI" -> {"mongo"}
                                [] c = "redisURI" -> {"redis"}
                                [] c = "minio" -> {"network"}
                                [] c \in {"host", "port", "mc"} -> {"minio", "network"}
                                [] c = "mcState" -> {"mc", "minio", "network"}
                                [] OTHER -> {}
  BY <1>n, <1>1, <1>3, <1>4, <1>5 DEF C!Unwind
<1>9. /\ Fine(C!Unwind(c) \o C!Deferred(c))
      /\ Elems(C!Unwind(c) \o C!Deferred(c)) = Elems(C!Unwind(c)) \cup Elems(C!Deferred(c))
  <2>1. CASE c = "test"
    <3>1. Elems(C!Unwind(c)) = {}
      BY <1>8, <2>1
    <3> QED
      BY <1>7, <1>8, <1>j, <3>1
  <2>2. CASE c # "test"
    <3>1. C!Attached \cap Elems(C!Deferred(c)) = {}
      BY <1>n, <1>7, <2>2
    <3>2. Elems(C!Unwind(c)) \cap Elems(C!Deferred(c)) = {}
      BY <1>7, <1>8, <2>2, CallOrder
    <3> QED
      BY <1>7, <1>8, <1>j, <3>1, <3>2
  <2> QED
    BY <2>1, <2>2
<1>10. c # "test" => Held(c) \subseteq Elems(C!Unwind(c)) \cup Elems(C!Deferred(c))
  BY <1>7, <1>8, CallOrder DEF Held
<1>11. Held("test") \subseteq Elems(C!Deferred("test"))
  BY <1>6 DEF Held
<1>12. c \notin Elems(C!Unwind(c)) \cup Elems(C!Deferred(c))
  BY <1>6, <1>7, <1>8, CallOrder
<1> QED
  BY <1>6, <1>9, <1>10, <1>11, <1>12 DEF Fine

LEMMA ContainersInitially == ASSUME C!Init PROVE ContainersInv
<1>1. step = "mongo" /\ next = "over" /\ todo = << >> /\ up = {}
  BY DEF C!Init, C!Calls
<1>2. todo \in Seq(C!Resource)
  BY <1>1, Releases
<1> QED
  BY <1>1, <1>2, CallOrder DEF ContainersInv, ReleasesAll, C!ReleasesAll, Held

\* From the first failure on, the releases cover what exists.
LEMMA ReleasingAll ==
    ASSUME ContainersInv, NEW rs \in Seq(C!Resource), NetworkLast(rs),
           C!Release(rs, "over"), up' \subseteq Excused' \cup Elems(rs)
    PROVE  ContainersInv'
<1>1. step' = "releasing" /\ todo' = rs /\ next' = "over"
  BY DEF C!Release
<1> QED
  BY <1>1, CallOrder DEF ContainersInv, ReleasesAll, C!ReleasesAll

LEMMA ContainersStep ==
    ASSUME ContainersInv, [C!Next]_containerVars
    PROVE  ContainersInv'
<1>c. C!Resource = {"mongo", "redis", "minio", "mc", "network"} /\ C!Attached = {"minio", "mc"}
  BY DEF C!Attached, C!Resource, C!Container
<1>n. step \in C!Call => step \notin {"releasing", "over"}
  BY CallOrder
<1>1. ASSUME NEW c \in C!Call, C!Succeeds(c) PROVE ContainersInv'
  <2>1. /\ step = c /\ c # "test"
        /\ up' = up \cup ({c} \cap C!Resource)
        /\ UNCHANGED <<dropped, refused>>
        /\ Held(c) \subseteq up /\ up \subseteq Held(c) \cup Excused
        /\ todo \in Seq(C!Resource) /\ next \in {"test", "over"}
    BY <1>1 DEF C!Succeeds, ContainersInv
  <2>2. CASE c = "mcState"
    <3>1. step' = "releasing" /\ todo' = <<"mc">> /\ next' = "test"
      BY <1>1, <2>2 DEF C!Succeeds, C!Release
    <3>2. todo' \in Seq(C!Resource) /\ Elems(todo') = {"mc"}
      BY <1>c, <3>1, Releases
    <3>3. Held(c) = Held("test") \cup {"mc"}
      BY <2>2 DEF Held
    <3> QED
      BY <1>c, <2>1, <2>2, <3>1, <3>2, <3>3, CallOrder
         DEF ContainersInv, Excused, ReleasesAll, C!ReleasesAll
  <2>3. CASE c # "mcState"
    <3>1. step' = C!After(c) /\ UNCHANGED <<todo, next>>
      BY <1>1, <2>3 DEF C!Succeeds
    <3>2. step' \in C!Call /\ Held(step') = Held(c) \cup ({c} \cap C!Resource)
      BY <2>1, <2>3, <3>1, Holding
    <3>3. step' \notin {"releasing", "over"}
      BY <3>2, CallOrder
    <3> QED
      BY <2>1, <3>1, <3>2, <3>3 DEF ContainersInv, Excused, ReleasesAll, C!ReleasesAll
  <2> QED
    BY <2>2, <2>3
<1>2. ASSUME NEW c \in C!Call, C!Fails(c) PROVE ContainersInv'
  <2> DEFINE rs == C!Unwind(c) \o C!Deferred(c)
  <2>1. /\ step = c /\ c # "test"
        /\ C!Release(rs, "over")
        /\ up \subseteq Held(c) \cup Excused
    BY <1>2 DEF C!Fails, ContainersInv
  <2>2. up' \subseteq Held(c) \cup Excused'
    BY <1>2, <2>1 DEF C!Fails, Excused
  <2>3. rs \in Seq(C!Resource) /\ NetworkLast(rs) /\ Held(c) \subseteq Elems(rs)
    BY <2>1, Undoing
  <2> HIDE DEF rs
  <2> QED
    BY <2>1, <2>2, <2>3, ReleasingAll
<1>3. CASE C!TestEnds
  <2> DEFINE rs == C!Deferred("test")
  <2>1. step = "test" /\ C!Release(rs, "over") /\ UNCHANGED <<up, dropped, refused>>
    BY <1>3 DEF C!TestEnds
  <2>2. rs \in Seq(C!Resource) /\ NetworkLast(rs) /\ Held("test") \subseteq Elems(rs)
    BY Undoing, CallOrder
  <2>3. up' \subseteq Excused' \cup Elems(rs)
    BY <2>1, <2>2, CallOrder DEF ContainersInv, Excused
  <2> HIDE DEF rs
  <2> QED
    BY <2>1, <2>2, <2>3, ReleasingAll
<1>4. CASE C!Released
  <2> DEFINE r == Head(todo)
  <2>1. /\ step = "releasing" /\ step' = step /\ next' = next /\ next \in {"test", "over"}
        /\ todo # << >> /\ todo' = Tail(todo) /\ todo \in Seq(C!Resource)
        /\ dropped' = dropped
        /\ \/ up' = up \ {r} /\ refused' = refused /\ ~C!InUse(r)
           \/ C!InUse(r) /\ up' = up /\ refused' = refused
           \/ refused' = refused \cup ({r} \cap up) /\ up' = up
    BY <1>4 DEF C!Released, ContainersInv
  <2>2. /\ r \in C!Resource /\ todo' \in Seq(C!Resource)
        /\ Elems(todo) = {r} \cup Elems(todo')
    BY <2>1, Taking
  <2>3. NetworkLast(todo) => NetworkLast(todo')
    <3>1. /\ Len(todo) \in Nat /\ DOMAIN todo = 1 .. Len(todo)
          /\ Len(todo') = Len(todo) - 1 /\ DOMAIN todo' = 1 .. Len(todo')
          /\ \A i \in DOMAIN todo' : todo'[i] = todo[i + 1] /\ i + 1 \in DOMAIN todo
      BY <2>1, <2>2, Taking
    <3> HIDE DEF C!Attached
    <3> QED
      BY <3>1 DEF NetworkLast
  <2>4. NetworkLast(todo) /\ r = "network" => C!Attached \cap Elems(todo') = {}
    <3>1. SUFFICES ASSUME NetworkLast(todo), r = "network",
                          NEW i \in DOMAIN todo', todo'[i] \in C!Attached
                   PROVE  FALSE
      BY DEF Elems
    <3>2. /\ todo'[i] = todo[i + 1] /\ i + 1 \in DOMAIN todo /\ 1 \in DOMAIN todo
          /\ r = todo[1] /\ i \in Nat /\ 1 < i + 1
      BY <2>1, <2>2, Taking
    <3> QED
      BY <3>1, <3>2 DEF NetworkLast
  <2>5. Excused \subseteq Excused'
    BY <2>1 DEF Excused
  <2> HIDE DEF r
  <2>6. CASE next = "test"
    <3>1. /\ Elems(todo) \subseteq {"mc"} /\ Held("test") \subseteq up
          /\ up \subseteq Held("test") \cup Excused \cup Elems(todo)
      BY <2>1, <2>6 DEF ContainersInv
    <3>2. r = "mc" /\ ~C!InUse(r)
      BY <2>2, <3>1 DEF C!InUse
    <3>3. "mc" \notin Held("test")
      BY DEF Held
    <3>4. Held("test") \subseteq up'
      BY <2>1, <3>1, <3>2, <3>3
    <3>5. up' \subseteq Held("test") \cup Excused' \cup Elems(todo')
      BY <2>1, <2>2, <3>1, <3>2 DEF Excused
    <3> QED
      BY <1>n, <2>1, <2>2, <2>6, <3>1, <3>4, <3>5
         DEF ContainersInv, ReleasesAll, C!ReleasesAll
  <2>7. CASE next = "over"
    <3>1. up \subseteq Excused \cup Elems(todo) \cup InUseBy(Excused) /\ NetworkLast(todo)
      BY <2>1, <2>7 DEF ContainersInv
    <3>2. InUseBy(Excused) \subseteq InUseBy(Excused')
      BY <2>5 DEF InUseBy
    <3>3. C!InUse(r) => "network" \in Elems(todo') \cup InUseBy(Excused)
      <4>1. SUFFICES ASSUME C!InUse(r) PROVE C!Attached \cap Excused # {}
        BY DEF InUseBy
      <4>2. PICK x \in C!Attached : x \in up
        BY <4>1 DEF C!InUse
      <4>3. x # "network" /\ r = "network"
        BY <1>c, <4>1, <4>2 DEF C!InUse
      <4>4. x \notin Elems(todo)
        BY <2>2, <2>4, <3>1, <4>2, <4>3
      <4>5. x \in Excused
        BY <3>1, <4>2, <4>3, <4>4 DEF InUseBy
      <4> QED
        BY <4>2, <4>5
    <3>4. r \notin up' \/ r \in Excused' \/ r \in Elems(todo') \cup InUseBy(Excused)
      BY <2>1, <3>3 DEF C!InUse, Excused
    <3>5. up' \subseteq up
      BY <2>1
    <3>6. up' \subseteq Excused' \cup Elems(todo') \cup InUseBy(Excused')
      BY <2>2, <2>5, <3>1, <3>2, <3>4, <3>5
    <3> QED
      BY <1>n, <2>1, <2>2, <2>3, <2>7, <3>1, <3>6
         DEF ContainersInv, ReleasesAll, C!ReleasesAll
  <2> QED
    BY <2>1, <2>6, <2>7
<1>5. CASE C!AllReleased
  <2>1. /\ step = "releasing" /\ todo = << >> /\ step' = next
        /\ UNCHANGED <<up, dropped, refused, todo, next>>
    BY <1>5 DEF C!AllReleased
  <2>2. Elems(todo) = {} /\ todo \in Seq(C!Resource) /\ next \in {"test", "over"}
    BY <2>1, Releases DEF ContainersInv
  <2>3. CASE next = "test"
    BY <2>1, <2>2, <2>3, CallOrder DEF ContainersInv, Excused, ReleasesAll, C!ReleasesAll
  <2>4. CASE next = "over"
    <3>1. up \subseteq Excused \cup InUseBy(Excused)
      BY <2>1, <2>2, <2>4 DEF ContainersInv
    <3>2. ReleasesAll'
      BY <2>1, <3>1 DEF ReleasesAll, C!ReleasesAll, Excused, InUseBy
    <3> QED
      BY <2>1, <2>2, <2>4, <3>2, CallOrder DEF ContainersInv
  <2> QED
    BY <2>2, <2>3, <2>4
<1>6. CASE UNCHANGED <<up, dropped, refused, step, todo, next>>
  BY <1>6 DEF ContainersInv, ReleasesAll, C!ReleasesAll, Excused
<1> QED
  BY <1>1, <1>2, <1>3, <1>4, <1>5, <1>6 DEF C!Next, C!Expire, containerVars

LEMMA OnceInitially == ASSUME C!Init PROVE OnceInv
<1>1. /\ up = {} /\ dropped = {} /\ refused = {} /\ ctxDone = FALSE
      /\ step = "mongo" /\ todo = << >> /\ next = "over"
  BY DEF C!Init, C!Calls
<1> QED
  BY <1>1, Releases, CallOrder DEF OnceInv, C!TypeOK

LEMMA OnceStep ==
    ASSUME ContainersInv, OnceInv, [C!Next]_containerVars
    PROVE  OnceInv'
<1>c. /\ C!Resource = {"mongo", "redis", "minio", "mc", "network"}
      /\ C!Container = {"mongo", "redis", "minio", "mc"}
  BY DEF C!Resource, C!Container
<1>t. /\ todo \in Seq(C!Resource) /\ next \in {"test", "over"} /\ ctxDone \in BOOLEAN
      /\ step \in C!Call \cup {"releasing", "over"}
      /\ up \subseteq C!Resource /\ dropped \subseteq up \cap C!Container /\ refused \subseteq up
  BY DEF OnceInv, C!TypeOK
<1>n. "releasing" \notin C!Call /\ "over" \notin C!Call /\ "test" \in C!Call
  BY CallOrder
<1>1. ASSUME NEW c \in C!Call, C!Succeeds(c) PROVE OnceInv'
  <2>1. /\ step = c /\ c # "test"
        /\ up' = up \cup ({c} \cap C!Resource)
        /\ UNCHANGED <<dropped, refused, ctxDone>>
        /\ dropped = {} /\ refused = {}
    BY <1>1 DEF C!Succeeds, OnceInv
  <2>2. CASE c = "mcState"
    <3>1. step' = "releasing" /\ todo' = <<"mc">> /\ next' = "test"
      BY <1>1, <2>2 DEF C!Succeeds, C!Release
    <3>2. todo' \in Seq(C!Resource) /\ Distinct(todo')
      BY <1>c, <3>1, Releases DEF Distinct
    <3>3. C!TypeOK'
      BY <1>t, <2>1, <3>1, <3>2 DEF C!TypeOK
    <3> QED
      BY <1>n, <2>1, <3>1, <3>2, <3>3 DEF OnceInv, Excused
  <2>3. CASE c # "mcState"
    <3>1. step' = C!After(c) /\ UNCHANGED <<todo, next>> /\ step' \in C!Call
      BY <1>1, <2>1, <2>3, Holding DEF C!Succeeds
    <3>2. C!TypeOK'
      BY <1>t, <2>1, <3>1 DEF C!TypeOK
    <3> QED
      BY <1>n, <2>1, <3>1, <3>2 DEF OnceInv
  <2> QED
    BY <2>2, <2>3
<1>2. ASSUME NEW c \in C!Call, C!Fails(c) PROVE OnceInv'
  <2> DEFINE rs == C!Unwind(c) \o C!Deferred(c)
  <2>1. /\ step = c /\ c # "test"
        /\ step' = "releasing" /\ todo' = rs /\ next' = "over"
        /\ UNCHANGED <<refused, ctxDone>>
        /\ dropped = {} /\ refused = {}
    BY <1>2 DEF C!Fails, C!Release, OnceInv
  <2>2. PICK left \in SUBSET ({c} \cap C!Container) :
            up' = up \cup left /\ dropped' = dropped \cup left
    BY <1>2 DEF C!Fails
  <2>3. rs \in Seq(C!Resource) /\ Distinct(rs) /\ c \notin Elems(rs)
    BY Undoing
  <2> HIDE DEF rs
  <2>4. C!TypeOK'
    BY <1>c, <1>t, <2>1, <2>2, <2>3 DEF C!TypeOK
  <2> QED
    BY <1>n, <2>1, <2>2, <2>3, <2>4 DEF OnceInv, Excused
<1>3. CASE C!TestEnds
  <2> DEFINE rs == C!Deferred("test")
  <2>1. /\ step = "test" /\ step' = "releasing" /\ todo' = rs /\ next' = "over"
        /\ UNCHANGED <<up, dropped, refused, ctxDone>>
    BY <1>3 DEF C!TestEnds, C!Release
  <2>2. dropped = {} /\ refused \subseteq {"mc"}
    BY <1>n, <2>1 DEF OnceInv
  <2>3. rs \in Seq(C!Resource) /\ Distinct(rs) /\ "mc" \notin Elems(rs)
    BY <1>n, Undoing
  <2> HIDE DEF rs
  <2>4. C!TypeOK'
    BY <1>t, <2>1, <2>3 DEF C!TypeOK
  <2> QED
    BY <1>n, <2>1, <2>2, <2>3, <2>4 DEF OnceInv, Excused
<1>4. CASE C!Released
  <2> DEFINE r == Head(todo)
  <2>1. /\ step = "releasing" /\ step' = step /\ next' = next
        /\ todo # << >> /\ todo' = Tail(todo)
        /\ UNCHANGED <<dropped, ctxDone>>
        /\ \/ up' = up \ {r} /\ refused' = refused
           \/ up' = up /\ refused' = refused
           \/ refused' = refused \cup ({r} \cap up) /\ up' = up
    BY <1>4 DEF C!Released
  <2>2. /\ Elems(todo) = {r} \cup Elems(todo') /\ r \in C!Resource
        /\ todo' \in Seq(C!Resource)
    BY <1>t, <2>1, Taking
  <2>3. /\ todo[1] = r /\ 1 \in DOMAIN todo
        /\ \A i \in DOMAIN todo' : /\ todo'[i] = todo[i + 1] /\ i + 1 \in DOMAIN todo
                                   /\ i \in Nat /\ i # 0
    BY <1>t, <2>1, <2>2, Taking
  <2>4. Distinct(todo) /\ Elems(todo) \cap Excused = {}
    BY <2>1 DEF OnceInv
  <2> HIDE DEF r
  <2>5. Distinct(todo')
    BY <2>3, <2>4 DEF Distinct
  <2>6. r \notin Elems(todo')
    <3>1. SUFFICES ASSUME NEW i \in DOMAIN todo', todo'[i] = r PROVE FALSE
      BY DEF Elems
    <3>2. i + 1 = 1
      BY <2>3, <2>4, <3>1 DEF Distinct
    <3> QED
      BY <2>3, <3>2
  <2>7. Elems(todo') \cap Excused' = {}
    BY <2>1, <2>2, <2>4, <2>6 DEF Excused
  <2>8. C!TypeOK'
    <3>1. r \notin dropped \cup refused
      BY <2>2, <2>4 DEF Excused
    <3> QED
      BY <1>t, <2>1, <2>2, <3>1 DEF C!TypeOK
  <2>9. ASSUME next = "test" PROVE dropped' = {} /\ refused' \subseteq {"mc"}
    <3>1. r = "mc" /\ dropped = {} /\ refused \subseteq {"mc"}
      BY <2>1, <2>2, <2>9 DEF OnceInv, ContainersInv
    <3> QED
      BY <2>1, <3>1
  <2> QED
    BY <1>n, <2>1, <2>5, <2>7, <2>8, <2>9 DEF OnceInv
<1>5. CASE C!AllReleased
  <2>1. /\ step = "releasing" /\ step' = next
        /\ UNCHANGED <<up, dropped, refused, ctxDone, todo, next>>
    BY <1>5 DEF C!AllReleased
  <2>2. C!TypeOK'
    BY <1>n, <1>t, <2>1 DEF C!TypeOK
  <2>3. "mc" \notin Held("test")
    BY DEF Held
  <2>4. CASE next = "test"
    BY <1>n, <2>1, <2>2, <2>3, <2>4 DEF OnceInv
  <2>5. CASE next = "over"
    BY <1>n, <2>1, <2>2, <2>5 DEF OnceInv
  <2> QED
    BY <1>t, <2>4, <2>5
<1>6. CASE C!Expire
  <2>1. UNCHANGED <<up, dropped, refused, step, todo, next>> /\ ctxDone' = TRUE
    BY <1>6 DEF C!Expire
  <2>2. C!TypeOK'
    BY <1>t, <2>1 DEF C!TypeOK
  <2> QED
    BY <2>1, <2>2 DEF OnceInv, Excused
<1>7. CASE UNCHANGED containerVars
  <2>1. UNCHANGED <<up, dropped, refused, ctxDone, step, todo, next>>
    BY <1>7 DEF containerVars
  <2>2. C!TypeOK'
    BY <1>t, <2>1 DEF C!TypeOK
  <2> QED
    BY <2>1, <2>2 DEF OnceInv, Excused
<1> QED
  BY <1>1, <1>2, <1>3, <1>4, <1>5, <1>6, <1>7 DEF C!Next

-----------------------------------------------------------------------------
(* The test *)

\* The test moves the harness and the containers by their own steps only.
LEMMA TestStepUses ==
    ASSUME [TestNext]_testRunVars
    PROVE  [Next]_vars /\ [C!Next]_containerVars
<1>1. CASE SetUp \/ StartBundle
  BY <1>1 DEF SetUp, StartBundle, C!Next
<1>2. CASE BundleRuns \/ TestRuns
  BY <1>2 DEF BundleRuns, TestRuns, Next
<1>3. CASE BundleUndone \/ ContainersUndone
  BY <1>3 DEF BundleUndone, ContainersUndone, C!Next
<1>4. CASE CancelContext
  BY <1>4 DEF CancelContext, Next
<1>5. CASE Expires
  BY <1>5 DEF Expires, Next, C!Next
<1>6. CASE UNCHANGED testRunVars
  BY <1>6 DEF testRunVars
<1> QED
  BY <1>1, <1>2, <1>3, <1>4, <1>5, <1>6 DEF TestNext

\* Once the bundle is started, the containers stay until the test has come to its
\* last deferred call for the bundle.
LEMMA TestInvStep ==
    ASSUME IInv, [TestNext]_testRunVars
    PROVE  TestInv'
<1> USE DEF TestInv, IInv
<1>c. "test" \in C!Call /\ "releasing" # "test" /\ "over" # "test"
  BY CallOrder
<1>1. CASE SetUp
  <2>1. started' = started /\ pc' = pc
    BY <1>1 DEF SetUp, vars, testVars
  <2>2. step # "test"
    BY <1>1 DEF SetUp, C!Succeeds, C!Fails
  <2> QED
    BY <2>1, <2>2
<1>2. CASE StartBundle
  <2>1. CASE started' = TRUE /\ UNCHANGED containerVars
    BY <1>2, <2>1 DEF StartBundle, containerVars
  <2>2. CASE UNCHANGED started
    BY <1>2, <2>2 DEF StartBundle
  <2> QED
    BY <1>2, <2>1, <2>2 DEF StartBundle
<1>3. CASE BundleRuns \/ TestRuns
  <2>1. step' = step /\ started' = started /\ started = TRUE
    BY <1>3 DEF BundleRuns, TestRuns, containerVars
  <2>2. pc \in {"cancel", "ended"} => pc' = pc
    BY <1>3 DEF BundleRuns, TestRuns, BundleStep, CaptureStep, WaiterStep, Deadline, TestStep,
       TestCall, Waits, Stops, testVars, Look, Probe, Late, TimeUp, Stop, StopSeesExit,
       StopTimesOut, Cleanup
  <2> QED
    BY <2>1, <2>2
<1>4. CASE BundleUndone
  BY <1>4 DEF BundleUndone, vars, testVars
<1>5. CASE ContainersUndone
  <2>1. step = "releasing" /\ started' = started /\ pc' = pc
    BY <1>5 DEF ContainersUndone, C!Released, C!AllReleased, vars, testVars
  <2> QED
    BY <2>1
<1>6. CASE CancelContext
  BY <1>6 DEF CancelContext, TestCall, Cancel
<1>7. CASE Expires
  <2>1. step' = step /\ started' = started /\ pc' = pc
    BY <1>7 DEF Expires, C!Expire, TestCall, ContextExpires, containerVars, vars, testVars
  <2> QED
    BY <2>1
<1>8. CASE UNCHANGED testRunVars
  BY <1>8 DEF testRunVars, containerVars, vars, testVars
<1> QED
  BY <1>1, <1>2, <1>3, <1>4, <1>5, <1>6, <1>7, <1>8 DEF TestNext

LEMMA TestIInvStep == ASSUME IInv, [TestNext]_testRunVars PROVE IInv'
<1>1. HarnessInv'
  BY TestStepUses, HarnessStep DEF IInv
<1>2. ContainersInv'
  BY TestStepUses, ContainersStep DEF IInv
<1>3. OnceInv'
  BY TestStepUses, OnceStep DEF IInv
<1> QED
  BY <1>1, <1>2, <1>3, TestInvStep DEF IInv

LEMMA TestInitially == ASSUME TestInit PROVE IInv
<1>1. TestInv
  BY DEF TestInit, TestInv
<1> QED
  BY <1>1, HarnessInitially, ContainersInitially, OnceInitially DEF TestInit, IInv

-----------------------------------------------------------------------------
(* Theorems *)

\* The harness alone, with any test that awaits events: what waitForOutputMarker
\* and Stop return is true of the process (integration/bundle.go).
THEOREM HarnessVerdicts == Spec => []VerdictIsTrue
<1>1. HarnessInv => VerdictIsTrue
  BY DEF HarnessInv
<1> QED
  BY <1>1, HarnessInitially, HarnessStep, PTL DEF Spec

\* The bundle of any such test keeps the contract that AllInOne implements: the
\* harness expects of the process no event and no status but those it may have.
THEOREM BundleKeepsPromises == Spec => KeepsPromises
<1>1. Init => HarnessInv /\ PromiseInv /\ (logged => Process!Init)
  <2>1. Init => PromiseInv /\ (logged => Process!Init)
    BY DEF Init, PromiseInv, Process!Init, Process!NoCause
  <2> QED
    BY <2>1, HarnessInitially
<1>2. HarnessInv /\ PromiseInv /\ [Next]_vars
        => HarnessInv' /\ PromiseInv' /\ [logged => Process!Next]_(Process!cvars)
  BY HarnessStep, PromiseStep
<1> QED
  BY <1>1, <1>2, PTL DEF Spec, KeepsPromises

\* The test with containers is a test of the harness, and of the containers: all
\* that is proved of either alone holds in it (integration_test.go).
THEOREM HarnessIsUsed == TestSpec => Spec /\ C!Spec
<1>1. TestInit => Init /\ C!Init
  BY DEF TestInit
<1>2. [TestNext]_testRunVars => [Next]_vars /\ [C!Next]_(C!vars)
  BY TestStepUses DEF containerVars, C!vars
<1> QED
  BY <1>1, <1>2, PTL DEF TestSpec, Spec, C!Spec

\* KeepsPromises, in the test with containers.
THEOREM TestKeepsPromises == TestSpec => KeepsPromises
  BY HarnessIsUsed, BundleKeepsPromises, PTL

\* Processes, pipes, waiter, containers and the test stay related as IInv says.
THEOREM Invariance == TestSpec => []IInv
BY TestInitially, TestIInvStep, PTL DEF TestSpec

\* Every variable of the harness and of the containers keeps to its type; with
\* it, what a failed call left or a release was refused for is never gone later.
THEOREM TypeCorrect == TestSpec => [](TypeOK /\ C!TypeOK)
<1>1. IInv => TypeOK /\ C!TypeOK
  BY DEF IInv, HarnessInv, OnceInv
<1> QED
  BY <1>1, Invariance, PTL

\* A verdict of the test is true: nil is an announced, clean end, and an error that
\* calls the process exited has its status, though another goroutine stores that
\* (bundle.go:155-161).
THEOREM VerdictsAreTrue == TestSpec => []VerdictIsTrue
<1>1. IInv => VerdictIsTrue
  BY DEF IInv, HarnessInv
<1> QED
  BY <1>1, Invariance, PTL

\* A bundle that lives has its data and its databases, on every path through the
\* test (bundle.go:207-216, integration_test.go:102-131).
THEOREM DataOutlives == TestSpec => []DataOutlivesBundle
<1>1. IInv => DataOutlivesBundle
  <2>1. SUFFICES ASSUME IInv, started, child # "gone", ~killed
                 PROVE  tmpDir /\ {"mongo", "redis", "minio"} \subseteq up
    BY DEF DataOutlivesBundle
  <2>2. pc \notin {"cleanup", "cancel", "ended"}
    BY <2>1 DEF IInv, HarnessInv, CleanInv
  <2>3. tmpDir
    BY <2>1, <2>2 DEF IInv, HarnessInv, CleanInv
  <2>4. step = "test"
    BY <2>1, <2>2 DEF IInv, TestInv
  <2>5. Held("test") \subseteq up
    BY <2>1, <2>4, CallOrder DEF IInv, ContainersInv
  <2> QED
    BY <2>3, <2>5 DEF Held
<1> QED
  BY <1>1, Invariance, PTL

\* Wherever the set-up fails, what is left at the end is excused: by the call that
\* left it or by a refused release (containers.go:131-165, 178-184, 201).
THEOREM EverythingIsReleased == TestSpec => []ReleasesAll
<1>1. IInv => ReleasesAll
  BY DEF IInv, ContainersInv
<1> QED
  BY <1>1, Invariance, PTL
=============================================================================
