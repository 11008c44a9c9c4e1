-------------------------- MODULE ProcessContract --------------------------
(***************************************************************************)
(* What the process promises whoever runs it, an operator, a backup script *)
(* or a test, without databases, services or shutdown deadlines: the two   *)
(* events they wait for and the exit status tell the truth. It says that   *)
(* it is ready at most once, announces a clean shutdown only if it was     *)
(* told to stop, and exits with 0 only after that.                         *)
(***************************************************************************)
EXTENDS RootContext

VARIABLES
    ready,     \* bundle_ready has been emitted
    complete,  \* bundle_shutdown_complete has been emitted
    status     \* exit status: none yet, zero, failed

cvars == <<cause, ready, complete, status>>

Init ==
    /\ cause = NoCause
    /\ ready = FALSE
    /\ complete = FALSE
    /\ status = "none"

\* The operator, a lost database or a failed startup ends the root context.
RootEnds ==
    /\ ~ctxDone
    /\ cause' # NoCause
    /\ UNCHANGED <<ready, complete, status>>

BecomeReady ==
    /\ status = "none"
    /\ ~ready /\ ~complete
    /\ ready' = TRUE
    /\ UNCHANGED <<cause, complete, status>>

Complete ==
    /\ status = "none"
    /\ cause = Signal
    /\ ~complete
    /\ complete' = TRUE
    /\ UNCHANGED <<cause, ready, status>>

\* A forced exit may follow even the announcement of a clean one.
Exit ==
    /\ status = "none"
    /\ status' \in {"zero", "failed"}
    /\ status' = "zero" => complete
    /\ UNCHANGED <<cause, ready, complete>>

Next == RootEnds \/ BecomeReady \/ Complete \/ Exit

Spec == Init /\ [][Next]_cvars

\* Startup comes to an end, one way or the other; and a process that is being
\* stopped exits.
FairSpec ==
    /\ Spec
    /\ WF_cvars(BecomeReady \/ (~ready /\ Exit))
    /\ WF_cvars(ctxDone /\ Exit)
=============================================================================
