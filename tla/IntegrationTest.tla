-------------------------- MODULE IntegrationTest --------------------------
(***************************************************************************)
(* TestBundleWithS3CustomRegion (integration/integration_test.go): the     *)
(* containers are set up, the bundle runs on them and is stopped, and the  *)
(* deferred calls undo everything. Harness and Containers meet in the      *)
(* test's context: its deadline kills the bundle and ends every call to    *)
(* the container daemon, and the order of the deferred calls is one.       *)
(***************************************************************************)
EXTENDS Harness

VARIABLES
    up, dropped, refused, ctxDone, step, todo, next,   \* as in Containers
    started    \* StartBundle has returned a process

C == INSTANCE Containers

containerVars == <<up, dropped, refused, ctxDone, step, todo, next>>
testRunVars   == <<vars, containerVars, started>>

\* The events the test waits for.
S3Test == <<"backend", "ready">>

TestInit == Init /\ C!Init /\ started = FALSE

-----------------------------------------------------------------------------
SetUp ==
    /\ \E c \in C!Call : C!Succeeds(c) \/ C!Fails(c)
    /\ UNCHANGED <<vars, started>>

\* The build, cmd.Start and the rest succeed, not after the deadline; or the test
\* unwinds with no bundle.
StartBundle ==
    /\ step = "test" /\ ~started
    /\ \/ ~ctxDone /\ started' = TRUE /\ UNCHANGED containerVars
       \/ C!TestEnds /\ UNCHANGED started
    /\ UNCHANGED vars

\* The bundle, the harness's goroutines and the test, until Cleanup has returned;
\* the first two also later.
BundleRuns ==
    /\ started
    /\ BundleStep \/ CaptureStep \/ WaiterStep \/ Deadline
    /\ UNCHANGED <<containerVars, started>>
TestRuns ==
    /\ started /\ TestStep
    /\ UNCHANGED <<containerVars, started>>

\* The containers are released under the bundle.
Mut_BundleUndone ==
    /\ started /\ pc # "look"
    /\ C!TestEnds
    /\ UNCHANGED <<vars, started>>

\* The deferred Stop and Cleanup come first, then those for the containers,
BundleUndone ==
    /\ started /\ pc = "cancel"
    /\ C!TestEnds
    /\ UNCHANGED <<vars, started>>
ContainersUndone ==
    /\ C!Released \/ C!AllReleased
    /\ UNCHANGED <<vars, started>>

\* and the context's cancel at the very last.
CancelContext ==
    /\ started /\ step = "over"
    /\ TestCall(Cancel)
    /\ UNCHANGED <<containerVars, started>>

\* The deadline: os/exec kills the bundle for it, if a little later.
Expires ==
    \/ C!Expire /\ UNCHANGED <<vars, started>>
    \/ /\ started /\ ctxDone
       /\ TestCall(ContextExpires)
       /\ UNCHANGED <<containerVars, started>>

TestNext ==
    \/ SetUp \/ StartBundle \/ BundleRuns \/ TestRuns
    \/ BundleUndone \/ ContainersUndone \/ CancelContext \/ Expires

\* The test and the harness's goroutines run, the daemon answers, timers fire and
\* SIGKILL kills. The bundle need not do anything.
Fairness ==
    /\ WF_testRunVars(SetUp) /\ WF_testRunVars(StartBundle) /\ WF_testRunVars(TestRuns)
    /\ WF_testRunVars(BundleUndone) /\ WF_testRunVars(ContainersUndone)
    /\ WF_testRunVars(CancelContext)
    /\ WF_testRunVars(BundleRuns /\ CaptureStep) /\ WF_testRunVars(BundleRuns /\ WaiterStep)
    /\ WF_testRunVars(BundleRuns /\ killed /\ Die)
    /\ SF_testRunVars(BundleRuns /\ Deadline)

TestSpec == TestInit /\ [][TestNext]_testRunVars /\ Fairness

-----------------------------------------------------------------------------
(* Properties *)

\* Nothing that a bundle uses is taken from it while it lives: its data and its
\* databases go after it has exited or was sent SIGKILL, on every path through the
\* test, Stop's timeout included (bundle.go:207-216, integration_test.go:102-131).
\* Nobody waits for the SIGKILL to take effect, so it says no more of a killed one.
DataOutlivesBundle ==
    started /\ child # "gone" /\ ~killed => tmpDir /\ {"mongo", "redis", "minio"} \subseteq up

\* The set-up's half of the test, Containers!ReleasesAll: what is left at the end
\* was left by a call that failed or a release that was refused.
ReleasesAll == C!ReleasesAll

\* Everything ends, with a bundle that hangs, prints what the scanner does not
\* take or ignores its signal: the test, and the goroutines StartBundle left.
TestIsOver ==
    <>(step = "over" /\ (started => pc = "ended" /\ waiter = "done" /\ capture = "ended"))
=============================================================================
