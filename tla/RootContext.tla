---------------------------- MODULE RootContext ----------------------------
(***************************************************************************)
(* The root context of main.go: the lifetime of the process.               *)
(*                                                                         *)
(* main derives `ctx` from a WithCancelCause context and hands `ctx` and   *)
(* `stopRoot` to the commands. A signal cancels `ctx`; a failure cancels   *)
(* its parent, which cancels `ctx` synchronously. Either way the first     *)
(* cancellation fixes the cause for good, so one variable is the whole     *)
(* state: "none" while ctx is live, then "signal", or the failure.         *)
(***************************************************************************)

VARIABLE cause

NoCause == "none"
Signal  == "signal"   \* NotifyContext's cause, which matches context.Canceled
Startup == "startup"  \* the error of a failed startup, passed to stopRoot

ctxDone == cause # NoCause

\* stopRoot(f): the first cause wins, every later call changes nothing.
stopRoot(f) == cause' = IF ctxDone THEN cause ELSE f

\* HUP, INT, TERM or QUIT arrives. Later signals find ctx already done.
OperatorStop == cause = NoCause /\ cause' = Signal

\* A failed startup ends the process with its error as the cause.
StartupFailure == cause = NoCause /\ cause' = Startup

\* canceled: the failures whose own error matches context.Canceled.
stoppedByOperator(canceled) == ctxDone /\ (cause = Signal \/ cause \in canceled)
=============================================================================
