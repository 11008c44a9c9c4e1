---------------------------- MODULE InfraProofs ----------------------------
(***************************************************************************)
(* Theorems about Infra for every set of children. The argument has one    *)
(* inductive invariant, IInv, in three parts: what the stage of a child    *)
(* says of it, what stop's program counter says of its partition, and      *)
(* what the errors collected so far stand for.                             *)
(***************************************************************************)
EXTENDS Infra, TLAPS

Ended     == {"exited", "waited", "holding", "done"}
Published == {"holding", "done"}
Intended  == {"zero", "canceled", "sigterm"}   \* the results shutdownError accepts

\* The stage of a child determines which facts about it exist yet.
ChildInv ==
    \A p \in Proc :
        /\ exit[p] = "none" <=> stage[p] \notin Ended
        /\ stage[p] \notin Published => waitErr[p] = "none"
        /\ stage[p] \in Published => waitErr[p] = WaitResult(p)
        /\ p \in killed => stage[p] # "absent"
        /\ p \in killed /\ stage[p] \in Ended => exit[p] = "sigkill"
        /\ p \in signalled => stage[p] # "absent"

\* Before the handoff nothing is signalled or killed; after it the children are
\* split for good, and those found dead are never touched again.
StopInv ==
    /\ stopping <=> stopPC # "idle"
    /\ cancelled => stopping
    /\ ~stopping => signalled = {} /\ killed = {}
    /\ ~stopping /\ cause \in Proc => stage[cause] \in Published
    /\ stopping /\ cause \in Proc => cause \in unexpected
    /\ stopping => Started = running \cup unexpected
    /\ \A p \in unexpected : Done(p) /\ p \notin signalled /\ p \notin killed
    /\ stopPC \in {"killing", "reaping"} => left \subseteq running
    /\ stopPC = "killing" => expired
    /\ stopPC = "reaping" => \A p \in running : p \in left \/ Done(p)
    /\ stopPC = "returned" => \A p \in running : Done(p)

\* Every error has its reason, and every reason its error once it is due.
ErrsInv ==
    /\ \A p \in Proc :
        /\ <<p, "unexpected">> \in errs => p \in unexpected
        /\ <<p, "deadline">> \in errs => expired
        /\ <<p, "forced">> \in errs => waitErr[p] \notin Intended /\ Done(p)
        /\ <<p, "failed">> \in errs => waitErr[p] \notin Intended /\ Done(p)
    /\ stopPC \in {"idle", "cancel", "waiting", "settle"} => errs = {}
    /\ stopPC \in {"killing", "reaping", "returned"} =>
        \A p \in unexpected : <<p, "unexpected">> \in errs
    /\ stopPC = "reaping" => \A p \in running : p \in left \/ shutdownError(p) \subseteq errs
    /\ stopPC = "returned" => \A p \in running : shutdownError(p) \subseteq errs

IInv == TypeOK /\ ChildInv /\ StopInv /\ ErrsInv

-----------------------------------------------------------------------------
LEMMA InitInv == Init => IInv
  BY ProcAssumption, CrashAssumption DEF Init, IInv, TypeOK, ChildInv, StopInv, ErrsInv, Stage, Exit, Kind, Pc,
     Ended, Published, Started, Done, NoCause, Signal, Startup

\* Types are kept by every step, whatever else holds.
LEMMA TypeStep == TypeOK /\ [Next]_vars => TypeOK'
<1> SUFFICES ASSUME TypeOK, [Next]_vars PROVE TypeOK'
  OBVIOUS
<1>1. CASE (OperatorStop \/ StartupFailure) /\ UNCHANGED <<childVars, stopVars>>
  BY <1>1 DEF OperatorStop, StartupFailure, Signal, childVars, stopVars, TypeOK, Stage, Exit, Kind, Pc
<1>2. CASE Handoff
  BY <1>2 DEF Handoff, childVars, TypeOK, Stage, Exit, Kind, Pc, Started
<1>3. CASE CancelChildren
  BY <1>3 DEF CancelChildren, childVars, TypeOK, Stage, Exit, Kind, Pc
<1>4. CASE ShutdownDeadline
  BY <1>4 DEF ShutdownDeadline, childVars, TypeOK, Stage, Exit, Kind, Pc
<1>5. CASE WaitForProcesses
  BY <1>5 DEF WaitForProcesses, childVars, TypeOK, Stage, Exit, Kind, Pc
<1>6. CASE Settle
  BY <1>6 DEF Settle, childVars, TypeOK, Stage, Exit, Kind, Pc
<1>7. CASE KillLoopEnds
  BY <1>7 DEF KillLoopEnds, childVars, TypeOK, Stage, Exit, Kind, Pc
<1>8. CASE StopReturns
  BY <1>8 DEF StopReturns, childVars, TypeOK, Stage, Exit, Kind, Pc
<1>9. ASSUME NEW p \in Proc, Start(p) PROVE TypeOK'
  BY <1>9 DEF Start, stopVars, TypeOK, Stage, Exit, Kind, Pc
<1>10. ASSUME NEW p \in Proc, ChildExit(p) PROVE TypeOK'
  BY <1>10 DEF ChildExit, stopVars, TypeOK, Stage, Exit, Kind, Pc
<1>11. ASSUME NEW p \in Proc, SendTerm(p) PROVE TypeOK'
  BY <1>11 DEF SendTerm, stopVars, TypeOK, Stage, Exit, Kind, Pc
<1>12. ASSUME NEW p \in Proc, WaitDelayKill(p) PROVE TypeOK'
  BY <1>12 DEF WaitDelayKill, stopVars, TypeOK, Stage, Exit, Kind, Pc
<1>13. ASSUME NEW p \in Proc, WaitReturns(p) PROVE TypeOK'
  BY <1>13 DEF WaitReturns, stopVars, TypeOK, Stage, Exit, Kind, Pc
<1>14. ASSUME NEW p \in Proc, Publish(p) PROVE TypeOK'
  BY <1>14 DEF Publish, stopVars, TypeOK, Stage, Exit, Kind, Pc, stopRoot, WaitResult, ctxDone
<1>15. ASSUME NEW p \in Proc, CloseDone(p) PROVE TypeOK'
  BY <1>15 DEF CloseDone, stopVars, TypeOK, Stage, Exit, Kind, Pc
<1>16. ASSUME NEW p \in Proc, KillSurvivor(p) PROVE TypeOK'
  BY <1>16 DEF KillSurvivor, stopVars, TypeOK, Stage, Exit, Kind, Pc
<1>17. ASSUME NEW p \in Proc, Reap(p) PROVE TypeOK'
  BY <1>17 DEF Reap, childVars, TypeOK, Stage, Exit, Kind, Pc, shutdownError
<1>18. CASE UNCHANGED vars
  BY <1>18 DEF vars, childVars, stopVars, TypeOK, Stage, Exit, Kind, Pc
<1>19. QED
  BY <1>1, <1>2, <1>3, <1>4, <1>5, <1>6, <1>7, <1>8, <1>9, <1>10, <1>11, <1>12, <1>13, <1>14, <1>15, <1>16, <1>17, <1>18 DEF Next, SuiteStep, StopStep, StopLoop, WatcherStep, OwnerStep

\* A child's facts follow its stage.
LEMMA ChildStepInv == IInv /\ [Next]_vars => ChildInv'
<1> SUFFICES ASSUME TypeOK, ChildInv, StopInv, [Next]_vars PROVE ChildInv'
  BY DEF IInv
<1> USE DEF ChildInv
<1>1. CASE (OperatorStop \/ StartupFailure) /\ UNCHANGED <<childVars, stopVars>>
  BY <1>1 DEF OperatorStop, StartupFailure, childVars, stopVars, TypeOK, Stage, Exit, Ended, Published, WaitResult
<1>2. CASE Handoff
  BY <1>2 DEF Handoff, childVars, TypeOK, Stage, Exit, Ended, Published, WaitResult
<1>3. CASE CancelChildren
  BY <1>3 DEF CancelChildren, childVars, TypeOK, Stage, Exit, Ended, Published, WaitResult
<1>4. CASE ShutdownDeadline
  BY <1>4 DEF ShutdownDeadline, childVars, TypeOK, Stage, Exit, Ended, Published, WaitResult
<1>5. CASE WaitForProcesses
  BY <1>5 DEF WaitForProcesses, childVars, TypeOK, Stage, Exit, Ended, Published, WaitResult
<1>6. CASE Settle
  BY <1>6 DEF Settle, childVars, TypeOK, Stage, Exit, Ended, Published, WaitResult
<1>7. CASE KillLoopEnds
  BY <1>7 DEF KillLoopEnds, childVars, TypeOK, Stage, Exit, Ended, Published, WaitResult
<1>8. CASE StopReturns
  BY <1>8 DEF StopReturns, childVars, TypeOK, Stage, Exit, Ended, Published, WaitResult
<1>9. ASSUME NEW p \in Proc, Start(p) PROVE ChildInv'
  BY <1>9 DEF Start, stopVars, TypeOK, Stage, Exit, Ended, Published, WaitResult
<1>10. ASSUME NEW p \in Proc, ChildExit(p) PROVE ChildInv'
  BY <1>10, CrashAssumption DEF ChildExit, stopVars, TypeOK, Stage, Exit, Ended, Published, WaitResult
<1>11. ASSUME NEW p \in Proc, SendTerm(p) PROVE ChildInv'
  BY <1>11 DEF SendTerm, stopVars, TypeOK, Stage, Exit, Ended, Published, WaitResult, StopInv, Started, childrenCtxDone
<1>12. ASSUME NEW p \in Proc, WaitDelayKill(p) PROVE ChildInv'
  BY <1>12 DEF WaitDelayKill, stopVars, TypeOK, Stage, Exit, Ended, Published, WaitResult
<1>13. ASSUME NEW p \in Proc, WaitReturns(p) PROVE ChildInv'
  BY <1>13 DEF WaitReturns, stopVars, TypeOK, Stage, Exit, Ended, Published, WaitResult
<1>14. ASSUME NEW p \in Proc, Publish(p) PROVE ChildInv'
  BY <1>14 DEF Publish, stopVars, TypeOK, Stage, Exit, Ended, Published, WaitResult
<1>15. ASSUME NEW p \in Proc, CloseDone(p) PROVE ChildInv'
  BY <1>15 DEF CloseDone, stopVars, TypeOK, Stage, Exit, Ended, Published, WaitResult
<1>16. ASSUME NEW p \in Proc, KillSurvivor(p) PROVE ChildInv'
  BY <1>16 DEF KillSurvivor, stopVars, TypeOK, Stage, Exit, Ended, Published, WaitResult
<1>17. ASSUME NEW p \in Proc, Reap(p) PROVE ChildInv'
  BY <1>17 DEF Reap, childVars, TypeOK, Stage, Exit, Ended, Published, WaitResult
<1>18. CASE UNCHANGED vars
  BY <1>18 DEF vars, childVars, stopVars, TypeOK, Stage, Exit, Ended, Published, WaitResult
<1>19. QED
  BY <1>1, <1>2, <1>3, <1>4, <1>5, <1>6, <1>7, <1>8, <1>9, <1>10, <1>11, <1>12, <1>13, <1>14, <1>15, <1>16, <1>17, <1>18 DEF Next, SuiteStep, StopStep, StopLoop, WatcherStep, OwnerStep

\* The partition made at the handoff stays what it was.
LEMMA StopStepInv == IInv /\ [Next]_vars => StopInv'
<1> SUFFICES ASSUME TypeOK, ChildInv, StopInv, [Next]_vars PROVE StopInv'
  BY DEF IInv
<1> USE DEF StopInv
<1>1. CASE (OperatorStop \/ StartupFailure) /\ UNCHANGED <<childVars, stopVars>>
  BY <1>1, ProcAssumption DEF OperatorStop, StartupFailure, childVars, stopVars, TypeOK, Stage, Pc, Published, Started, Done
<1>2. CASE Handoff
  BY <1>2, ProcAssumption DEF Handoff, childVars, TypeOK, Stage, Pc, Published, Started, Done, Unlocked
<1>3. CASE CancelChildren
  BY <1>3, ProcAssumption DEF CancelChildren, childVars, TypeOK, Stage, Pc, Published, Started, Done
<1>4. CASE ShutdownDeadline
  BY <1>4, ProcAssumption DEF ShutdownDeadline, childVars, TypeOK, Stage, Pc, Published, Started, Done
<1>5. CASE WaitForProcesses
  BY <1>5, ProcAssumption DEF WaitForProcesses, childVars, TypeOK, Stage, Pc, Published, Started, Done
<1>6. CASE Settle
  BY <1>6, ProcAssumption DEF Settle, childVars, TypeOK, Stage, Pc, Published, Started, Done
<1>7. CASE KillLoopEnds
  BY <1>7, ProcAssumption DEF KillLoopEnds, childVars, TypeOK, Stage, Pc, Published, Started, Done
<1>8. CASE StopReturns
  BY <1>8, ProcAssumption DEF StopReturns, childVars, TypeOK, Stage, Pc, Published, Started, Done
<1>9. ASSUME NEW p \in Proc, Start(p) PROVE StopInv'
  BY <1>9, ProcAssumption DEF Start, stopVars, TypeOK, Stage, Pc, Published, Started, Done
<1>10. ASSUME NEW p \in Proc, ChildExit(p) PROVE StopInv'
  BY <1>10, ProcAssumption DEF ChildExit, stopVars, TypeOK, Stage, Pc, Published, Started, Done
<1>11. ASSUME NEW p \in Proc, SendTerm(p) PROVE StopInv'
  BY <1>11, ProcAssumption DEF SendTerm, stopVars, TypeOK, Stage, Pc, Published, Started, Done, childrenCtxDone
<1>12. ASSUME NEW p \in Proc, WaitDelayKill(p) PROVE StopInv'
  BY <1>12, ProcAssumption DEF WaitDelayKill, stopVars, TypeOK, Stage, Pc, Published, Started, Done
<1>13. ASSUME NEW p \in Proc, WaitReturns(p) PROVE StopInv'
  BY <1>13, ProcAssumption DEF WaitReturns, stopVars, TypeOK, Stage, Pc, Published, Started, Done
<1>14. ASSUME NEW p \in Proc, Publish(p) PROVE StopInv'
  BY <1>14, ProcAssumption DEF Publish, stopVars, TypeOK, Stage, Pc, Published, Started, Done, stopRoot, ctxDone
<1>15. ASSUME NEW p \in Proc, CloseDone(p) PROVE StopInv'
  BY <1>15, ProcAssumption DEF CloseDone, stopVars, TypeOK, Stage, Pc, Published, Started, Done
<1>16. ASSUME NEW p \in Proc, KillSurvivor(p) PROVE StopInv'
  BY <1>16, ProcAssumption DEF KillSurvivor, stopVars, TypeOK, Stage, Pc, Published, Started, Done
<1>17. ASSUME NEW p \in Proc, Reap(p) PROVE StopInv'
  BY <1>17, ProcAssumption DEF Reap, childVars, TypeOK, Stage, Pc, Published, Started, Done
<1>18. CASE UNCHANGED vars
  BY <1>18, ProcAssumption DEF vars, childVars, stopVars, TypeOK, Stage, Pc, Published, Started, Done
<1>19. QED
  BY <1>1, <1>2, <1>3, <1>4, <1>5, <1>6, <1>7, <1>8, <1>9, <1>10, <1>11, <1>12, <1>13, <1>14, <1>15, <1>16, <1>17, <1>18 DEF Next, SuiteStep, StopStep, StopLoop, WatcherStep, OwnerStep

\* Errors are collected for their reasons only.
LEMMA ErrsStepInv == IInv /\ [Next]_vars => ErrsInv'
<1> SUFFICES ASSUME TypeOK, ChildInv, StopInv, ErrsInv, [Next]_vars PROVE ErrsInv'
  BY DEF IInv
<1> USE DEF ErrsInv
<1>1. CASE (OperatorStop \/ StartupFailure) /\ UNCHANGED <<childVars, stopVars>>
  BY <1>1 DEF OperatorStop, StartupFailure, childVars, stopVars, TypeOK, Stage, Exit, Kind, Pc, Done, shutdownError, Intended
<1>2. CASE Handoff
  BY <1>2 DEF Handoff, childVars, TypeOK, Stage, Exit, Kind, Pc, Done, shutdownError, Intended, StopInv
<1>3. CASE CancelChildren
  BY <1>3 DEF CancelChildren, childVars, TypeOK, Stage, Exit, Kind, Pc, Done, shutdownError, Intended
<1>4. CASE ShutdownDeadline
  BY <1>4 DEF ShutdownDeadline, childVars, TypeOK, Stage, Exit, Kind, Pc, Done, shutdownError, Intended
<1>5. CASE WaitForProcesses
  BY <1>5 DEF WaitForProcesses, childVars, TypeOK, Stage, Exit, Kind, Pc, Done, shutdownError, Intended
<1>6. CASE Settle
  BY <1>6 DEF Settle, childVars, TypeOK, Stage, Exit, Kind, Pc, Done, shutdownError, Intended, StopInv
<1>7. CASE KillLoopEnds
  BY <1>7 DEF KillLoopEnds, childVars, TypeOK, Stage, Exit, Kind, Pc, Done, shutdownError, Intended, StopInv
<1>8. CASE StopReturns
  BY <1>8 DEF StopReturns, childVars, TypeOK, Stage, Exit, Kind, Pc, Done, shutdownError, Intended, StopInv
<1>9. ASSUME NEW p \in Proc, Start(p) PROVE ErrsInv'
  BY <1>9 DEF Start, stopVars, TypeOK, Stage, Exit, Kind, Pc, Done, shutdownError, Intended
<1>10. ASSUME NEW p \in Proc, ChildExit(p) PROVE ErrsInv'
  BY <1>10 DEF ChildExit, stopVars, TypeOK, Stage, Exit, Kind, Pc, Done, shutdownError, Intended
<1>11. ASSUME NEW p \in Proc, SendTerm(p) PROVE ErrsInv'
  BY <1>11 DEF SendTerm, stopVars, TypeOK, Stage, Exit, Kind, Pc, Done, shutdownError, Intended
<1>12. ASSUME NEW p \in Proc, WaitDelayKill(p) PROVE ErrsInv'
  BY <1>12 DEF WaitDelayKill, stopVars, TypeOK, Stage, Exit, Kind, Pc, Done, shutdownError, Intended
<1>13. ASSUME NEW p \in Proc, WaitReturns(p) PROVE ErrsInv'
  BY <1>13 DEF WaitReturns, stopVars, TypeOK, Stage, Exit, Kind, Pc, Done, shutdownError, Intended
<1>14. ASSUME NEW p \in Proc, Publish(p) PROVE ErrsInv'
  BY <1>14, SMTT(60) DEF Publish, stopVars, TypeOK, Stage, Kind, Pc, Done, shutdownError, Intended, StopInv
<1>15. ASSUME NEW p \in Proc, CloseDone(p) PROVE ErrsInv'
  BY <1>15 DEF CloseDone, stopVars, TypeOK, Stage, Exit, Kind, Pc, Done, shutdownError, Intended
<1>16. ASSUME NEW p \in Proc, KillSurvivor(p) PROVE ErrsInv'
  BY <1>16 DEF KillSurvivor, stopVars, TypeOK, Stage, Exit, Kind, Pc, Done, shutdownError, Intended, StopInv
<1>17. ASSUME NEW p \in Proc, Reap(p) PROVE ErrsInv'
  BY <1>17 DEF Reap, childVars, TypeOK, Stage, Exit, Kind, Pc, Done, shutdownError, Intended, StopInv
<1>18. CASE UNCHANGED vars
  BY <1>18 DEF vars, childVars, stopVars, TypeOK, Stage, Exit, Kind, Pc, Done, shutdownError, Intended
<1>19. QED
  BY <1>1, <1>2, <1>3, <1>4, <1>5, <1>6, <1>7, <1>8, <1>9, <1>10, <1>11, <1>12, <1>13, <1>14, <1>15, <1>16, <1>17, <1>18 DEF Next, SuiteStep, StopStep, StopLoop, WatcherStep, OwnerStep

-----------------------------------------------------------------------------
\* The values of all variables stay in their types: every step of start, stop,
\* the Wait owners and os/exec keeps them there.
THEOREM TypeCorrect == Spec => []TypeOK
<1>1. Init => TypeOK
  BY InitInv DEF IInv
<1> QED
  BY <1>1, TypeStep, PTL DEF Spec

\* IInv holds in every reachable state.
THEOREM Invariance == Spec => []IInv
<1>1. IInv /\ [Next]_vars => IInv'
  BY TypeStep, ChildStepInv, StopStepInv, ErrsStepInv DEF IInv
<1> QED
  BY <1>1, InitInv, PTL DEF Spec

\* StopReapsAll: when stop returns, no process it ever started is running,
\* unreaped or unpublished, for any number of children.
THEOREM ReapsAll == Spec => []StopReapsAll
<1>1. IInv => StopReapsAll
  BY DEF IInv, TypeOK, StopInv, StopReapsAll, Started, Done, Pc, Stage
<1> QED
  BY <1>1, Invariance, PTL

\* LossReported: the child whose death stopped the process is named in stop's
\* error, because the handoff cannot fall between stopRoot and close(done).
THEOREM LossesReported == Spec => []LossReported
<1>1. IInv => LossReported
  BY DEF IInv, TypeOK, StopInv, ErrsInv, LossReported, Pc
<1> QED
  BY <1>1, Invariance, PTL

\* NoFalseAlarm: no child that the suite signalled or killed is reported as
\* having exited unexpectedly.
THEOREM NoFalseAlarms == Spec => []NoFalseAlarm
<1>1. IInv => NoFalseAlarm
  <2> SUFFICES ASSUME IInv, NEW e \in errs, e[2] = "unexpected"
               PROVE  e[1] \notin signalled \cup killed
    BY DEF NoFalseAlarm
  <2>1. e = <<e[1], "unexpected">> /\ e[1] \in Proc
    BY DEF IInv, TypeOK
  <2> QED
    BY <2>1 DEF IInv, ErrsInv, StopInv
<1> QED
  BY <1>1, Invariance, PTL

\* LossIsNotOperatorStop: a cause that is a child's death never passes for an
\* operator's stop, because no child is signalled before the handoff.
THEOREM LossNeverOperatorStop == Spec => []LossIsNotOperatorStop
<1>1. IInv => LossIsNotOperatorStop
  <2> SUFFICES ASSUME IInv, cause \in Proc, OperatorStopped PROVE FALSE
    BY DEF LossIsNotOperatorStop
  <2>1. cause # Signal
    BY ProcAssumption
  <2>2. waitErr[cause] = "canceled"
    BY <2>1 DEF OperatorStopped, stoppedByOperator
  <2>3. cause \notin signalled
    BY DEF IInv, TypeOK, StopInv
  <2>4. waitErr[cause] \in {"none"} \cup {exit[cause]} /\ exit[cause] # "canceled"
    BY <2>3, CrashAssumption DEF IInv, TypeOK, ChildInv, WaitResult, Exit
  <2> QED
    BY <2>2, <2>4
<1> QED
  BY <1>1, Invariance, PTL

\* CleanIsClean: if stop reports nothing, then no child was lost or killed and
\* each ended with status 0 or by SIGTERM.
THEOREM CleanVerdictIsTrue == Spec => []CleanIsClean
<1>1. IInv => CleanIsClean
  <2> SUFFICES ASSUME IInv, stopPC = "returned", errs = {}
               PROVE  /\ cause \notin Proc
                      /\ killed = {}
                      /\ \A p \in Started : exit[p] \in {"zero", "sigterm"}
    BY DEF CleanIsClean
  <2>1. unexpected = {} /\ stopping /\ Started = running
    BY DEF IInv, TypeOK, ErrsInv, StopInv
  <2>2. ASSUME NEW p \in running PROVE exit[p] \in {"zero", "sigterm"} /\ p \notin killed
    <3>1. p \in Proc /\ shutdownError(p) = {} /\ Done(p)
      BY <2>2 DEF IInv, TypeOK, ErrsInv, StopInv
    <3>2. waitErr[p] \in {"zero", "canceled", "sigterm"}
      BY <3>1 DEF shutdownError
    <3>3. waitErr[p] = WaitResult(p) /\ exit[p] \in Exit /\ (p \in killed => exit[p] = "sigkill")
      BY <3>1 DEF IInv, TypeOK, ChildInv, Done, Published, Ended
    <3> QED
      BY <3>2, <3>3, CrashAssumption DEF WaitResult, Exit
  <2>3. killed \subseteq Started
    BY DEF IInv, TypeOK, ChildInv, Started
  <2> QED
    BY <2>1, <2>2, <2>3 DEF IInv, StopInv
<1> QED
  BY <1>1, Invariance, PTL

\* OrdinaryStopIsClean: a stop in which every child took its SIGTERM in time
\* reports nothing.
THEOREM OrdinaryStopsAreClean == Spec => []OrdinaryStopIsClean
<1>1. IInv => OrdinaryStopIsClean
  <2> SUFFICES ASSUME IInv, stopPC = "returned", ~expired, Started \subseteq signalled,
                      \A p \in Started : exit[p] \in {"zero", "sigterm"},
                      NEW e \in errs
               PROVE  FALSE
    BY DEF OrdinaryStopIsClean
  <2>1. unexpected = {}
    BY DEF IInv, TypeOK, StopInv, Started, Done
  <2>2. PICK p \in Proc, k \in Kind : e = <<p, k>>
    BY DEF IInv, TypeOK
  <2>3. k \in {"forced", "failed"}
    BY <2>1, <2>2 DEF IInv, ErrsInv, Kind
  <2>4. waitErr[p] \notin Intended /\ Done(p)
    BY <2>2, <2>3 DEF IInv, ErrsInv
  <2>5. waitErr[p] = WaitResult(p) /\ p \in Started
    BY <2>4 DEF IInv, ChildInv, Done, Published, Started
  <2> QED
    BY <2>4, <2>5 DEF WaitResult, Intended
<1> QED
  BY <1>1, Invariance, PTL

-----------------------------------------------------------------------------
\* The suite keeps its contract: seen through the refinement mapping, each of
\* its steps is a step of InfraContract or changes nothing the caller can see.
THEOREM KeepsContract == Spec => Contract!Spec
<1>1. Init => Contract!Init
  BY DEF Init, NoCause, Contract!Init, Contract!NoCause, childStates, suitePhase, stopVerdict, lost
<1>2. IInv /\ IInv' /\ [Next]_vars => [Contract!Next]_(Contract!cvars)
  <2> SUFFICES ASSUME IInv, IInv', [Next]_vars PROVE [Contract!Next]_(Contract!cvars)
    OBVIOUS
  <2> USE DEF IInv, TypeOK, Contract!cvars
  <2>1. CASE (OperatorStop \/ StartupFailure) /\ UNCHANGED <<childVars, stopVars>>
    <3>1. Contract!EndProcess
      BY <2>1 DEF OperatorStop, StartupFailure, childVars, stopVars, NoCause, Signal, Startup, Contract!EndProcess,
         Contract!ctxDone, Contract!NoCause, Contract!Signal, Contract!Startup, childStates, suitePhase, stopVerdict, lost
    <3> QED
      BY <3>1 DEF Contract!Next
  <2>2. CASE Handoff
    BY <2>2 DEF Handoff, childVars, stopVars, StopInv, Started, Done, Stage, Pc, childStates, suitePhase, stopVerdict, lost, Contract!Next, Contract!Close
  <2>3. CASE CancelChildren
    BY <2>3 DEF CancelChildren, childVars, stopVars, StopInv, Started, Done, Stage, Pc, childStates, suitePhase, stopVerdict, lost
  <2>4. CASE ShutdownDeadline
    BY <2>4 DEF ShutdownDeadline, childVars, stopVars, StopInv, Started, Done, Stage, Pc, childStates, suitePhase, stopVerdict, lost
  <2>5. CASE WaitForProcesses
    BY <2>5 DEF WaitForProcesses, childVars, stopVars, StopInv, Started, Done, Stage, Pc, childStates, suitePhase, stopVerdict, lost
  <2>6. CASE Settle
    BY <2>6 DEF Settle, childVars, stopVars, StopInv, Started, Done, Stage, Pc, childStates, suitePhase, stopVerdict, lost
  <2>7. CASE KillLoopEnds
    BY <2>7 DEF KillLoopEnds, childVars, stopVars, StopInv, Started, Done, Stage, Pc, childStates, suitePhase, stopVerdict, lost
  <2>8. CASE StopReturns
    <3>1. Started = running \cup unexpected /\ stopping /\ \A p \in running : Done(p)
      BY <2>8 DEF StopReturns, childVars, StopInv, Done, Pc
    <3>2. \A p \in Proc : childStates[p] # "up" /\ (childStates[p] = "lost" => p \in unexpected)
      BY <3>1 DEF childStates, lost, Started, Done, StopInv
    <3>3. errs = {} => unexpected = {}
      BY <2>8 DEF StopReturns, ErrsInv, StopInv
    <3>4. UNCHANGED <<cause, childStates>> /\ suitePhase = "closing" /\ suitePhase' = "closed"
      BY <2>8, <3>1 DEF StopReturns, childVars, childStates, suitePhase, stopVerdict, lost
    <3>5. stopVerdict' = IF errs = {} THEN "clean" ELSE "dirty"
      BY <2>8 DEF StopReturns, stopVerdict
    <3>6. Contract!Answer
      BY <3>2, <3>3, <3>4, <3>5 DEF Contract!Answer
    <3> QED
      BY <3>6 DEF Contract!Next
  <2>9. ASSUME NEW p \in Proc, Start(p) PROVE [Contract!Next]_(Contract!cvars)
    <3>1. stage' = [stage EXCEPT ![p] = "alive"]
      BY <2>9 DEF Start
    <3>2. childStates[p] = "off"
      BY <2>9 DEF Start, childStates, lost, StopInv
    <3>3. childStates' = [childStates EXCEPT ![p] = "up"]
      BY <2>9, <3>1 DEF Start, childStates, lost, stopVars, StopInv, Done
    <3>4. UNCHANGED <<suitePhase, stopVerdict>> /\ suitePhase = "open"
      BY <2>9 DEF Start, suitePhase, stopVerdict, stopVars, StopInv, ctxDone
    <3>5. Contract!Come(p)
      BY <2>9, <3>2, <3>3, <3>4 DEF Start, Contract!Come, ctxDone, NoCause, Contract!ctxDone, Contract!NoCause
    <3> QED
      BY <3>5 DEF Contract!Next
  <2>10. ASSUME NEW p \in Proc, ChildExit(p) PROVE [Contract!Next]_(Contract!cvars)
    BY <2>10 DEF ChildExit, childVars, stopVars, StopInv, Started, Done, Stage, Pc, childStates, suitePhase, stopVerdict, lost
  <2>11. ASSUME NEW p \in Proc, SendTerm(p) PROVE [Contract!Next]_(Contract!cvars)
    BY <2>11 DEF SendTerm, childVars, stopVars, StopInv, Started, Done, Stage, Pc, childStates, suitePhase, stopVerdict, lost
  <2>12. ASSUME NEW p \in Proc, WaitDelayKill(p) PROVE [Contract!Next]_(Contract!cvars)
    BY <2>12 DEF WaitDelayKill, childVars, stopVars, StopInv, Started, Done, Stage, Pc, childStates, suitePhase, stopVerdict, lost
  <2>13. ASSUME NEW p \in Proc, WaitReturns(p) PROVE [Contract!Next]_(Contract!cvars)
    BY <2>13 DEF WaitReturns, childVars, stopVars, StopInv, Started, Done, Stage, Pc, childStates, suitePhase, stopVerdict, lost
  <2>14. ASSUME NEW p \in Proc, Publish(p) PROVE [Contract!Next]_(Contract!cvars)
    <3>1. stage[p] = "waited" /\ stage' = [stage EXCEPT ![p] = "holding"]
      BY <2>14 DEF Publish
    <3>2. UNCHANGED <<suitePhase, stopVerdict>> /\ childStates[p] = "up"
      BY <2>14, <3>1 DEF Publish, childStates, lost, suitePhase, stopVerdict, stopVars
    <3>3. CASE stopping
      <4>1. p \notin unexpected
        BY <3>1 DEF StopInv, Done
      <4>2. UNCHANGED <<cause, childStates>>
        BY <2>14, <3>1, <3>3, <4>1 DEF Publish, childStates, lost, stopVars
      <4> QED
        BY <3>2, <4>2
    <3>4. CASE ~stopping
      <4>1. childStates' = [childStates EXCEPT ![p] = "lost"]
        BY <2>14, <3>1, <3>4 DEF Publish, childStates, lost, stopVars
      <4>2. suitePhase = "open"
        BY <3>4 DEF suitePhase
      <4>3. Contract!stopRoot(p)
        BY <2>14, <3>4 DEF Publish, stopRoot, ctxDone, NoCause,
           Contract!stopRoot, Contract!ctxDone, Contract!NoCause
      <4>4. Contract!Lose(p)
        BY <3>2, <4>1, <4>2, <4>3 DEF Contract!Lose
      <4> QED
        BY <4>4 DEF Contract!Next
    <3> QED
      BY <3>3, <3>4
  <2>15. ASSUME NEW p \in Proc, CloseDone(p) PROVE [Contract!Next]_(Contract!cvars)
    <3>1. stage[p] = "holding" /\ stage' = [stage EXCEPT ![p] = "done"] /\ p \notin unexpected
      BY <2>15 DEF CloseDone, StopInv, Done
    <3>2. UNCHANGED <<cause, suitePhase, stopVerdict>>
      BY <2>15 DEF CloseDone, suitePhase, stopVerdict, stopVars
    <3>3. CASE ~stopping
      <4>1. UNCHANGED childStates
        BY <2>15, <3>1, <3>3 DEF CloseDone, childStates, lost, stopVars
      <4> QED
        BY <3>2, <4>1
    <3>4. CASE stopping
      <4>1. childStates[p] = "up" /\ childStates' = [childStates EXCEPT ![p] = "ended"]
        <5>1. childStates[p] = "up"
          BY <3>1, <3>4 DEF childStates, lost
        <5>2. childStates'[p] = "ended"
          BY <2>15, <3>1, <3>4 DEF CloseDone, childStates, lost, stopVars
        <5>3. \A q \in Proc \ {p} : childStates'[q] = childStates[q]
          BY <2>15, <3>1 DEF CloseDone, childStates, lost, stopVars
        <5>4. /\ childStates = [q \in Proc |-> childStates[q]]
              /\ childStates' = [q \in Proc |-> childStates'[q]]
          BY DEF childStates
        <5> QED
          BY <5>1, <5>2, <5>3, <5>4
      <4>2. stopPC # "returned"
        BY <3>1, <3>4 DEF StopInv, Started, Done
      <4>3. suitePhase = "closing"
        BY <3>4, <4>2 DEF suitePhase
      <4>4. Contract!End(p)
        BY <3>2, <4>1, <4>3 DEF Contract!End
      <4> QED
        BY <4>4 DEF Contract!Next
    <3> QED
      BY <3>3, <3>4
  <2>16. ASSUME NEW p \in Proc, KillSurvivor(p) PROVE [Contract!Next]_(Contract!cvars)
    BY <2>16 DEF KillSurvivor, childVars, stopVars, StopInv, Started, Done, Stage, Pc, childStates, suitePhase, stopVerdict, lost
  <2>17. ASSUME NEW p \in Proc, Reap(p) PROVE [Contract!Next]_(Contract!cvars)
    BY <2>17 DEF Reap, childVars, stopVars, StopInv, Started, Done, Stage, Pc, childStates, suitePhase, stopVerdict, lost
  <2>18. CASE UNCHANGED vars
    BY <2>18 DEF vars, childVars, stopVars, childStates, suitePhase, stopVerdict, lost
  <2>19. QED
    BY <2>1, <2>2, <2>3, <2>4, <2>5, <2>6, <2>7, <2>8, <2>9, <2>10, <2>11, <2>12, <2>13, <2>14, <2>15, <2>16, <2>17, <2>18 DEF Next, SuiteStep, StopStep, StopLoop, WatcherStep, OwnerStep
<1> QED
  BY <1>1, <1>2, Invariance, PTL DEF Spec, Contract!Spec
=============================================================================
