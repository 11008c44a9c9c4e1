------------------------------ MODULE MongoInit ------------------------------
(***************************************************************************)
(* initReplicaSetAction (cmd/mongo.go): make a replica set of the embedded *)
(* mongod, or find that it is one already, in ten attempts.                *)
(*                                                                         *)
(* The commands go over the network to a server that comes up late, loses  *)
(* requests and answers, and may carry a replica set from an earlier run.  *)
(* The root context can end at any moment. Every command runs under it, so *)
(* from then on a command fails; what it has done to the server stays.     *)
(***************************************************************************)
EXTENDS RootContext, Sequences, Naturals

VARIABLES
    replSet,   \* the server has a replica-set configuration
    faults,    \* the connections and commands that have failed so far
    initPC,    \* where initReplicaSetAction is
    attempt,   \* the attempt being made or waited for
    tryErr,    \* what tryInitReplicaSet is to return: nil, stopped, driver
    result     \* pending; or nil, stopped (ctx.Err()) or driver

initVars    == <<replSet, faults, initPC, attempt, tryErr, result>>
attemptVars == <<cause, initVars>>

\* Definitions called Mut_... are plausible faulty versions of the one that
\* follows them; no specification uses them.

\* The seconds before each attempt.
attemptDelays == <<0, 1, 2, 3, 5, 8, 13, 21, 34, 55>>
Attempt == 1 .. Len(attemptDelays)

Error == {"nil", "stopped", "driver"}

AttemptsTypeOK ==
    /\ cause \in {NoCause, Signal}
    /\ replSet \in BOOLEAN
    /\ faults \in 0 .. 2 * Len(attemptDelays)
    /\ initPC \in {"delay", "connect", "initiate", "stabilise", "status",
                   "disconnect", "returned", "done"}
    /\ attempt \in Attempt
    /\ tryErr \in Error
    /\ result \in Error \cup {"pending"}

AttemptsInit ==
    /\ cause = NoCause
    /\ replSet \in BOOLEAN
    /\ faults = 0
    /\ initPC = "delay"
    /\ attempt = 1
    /\ tryErr = "nil"
    /\ result = "pending"

-----------------------------------------------------------------------------
(* initReplicaSetAction's loop *)

Returns(r) ==
    /\ result' = r
    /\ initPC' = "done"
    /\ UNCHANGED attempt

\* select: the delay has passed, or the root context is done. With both, either.
DelayOver ==
    /\ initPC = "delay"
    /\ initPC' = "connect"
    /\ UNCHANGED <<cause, replSet, faults, attempt, tryErr, result>>

DelayInterrupted ==
    /\ initPC = "delay"
    /\ ctxDone
    /\ Returns("stopped")
    /\ UNCHANGED <<cause, replSet, faults, tryErr>>

\* The loop does not look at the root context after an attempt.
Mut_AttemptEnds ==
    /\ initPC = "returned"
    /\ CASE tryErr = "nil" -> Returns("nil")
         [] tryErr # "nil" /\ attempt = Len(attemptDelays) -> Returns(tryErr)
         [] OTHER -> initPC' = "delay" /\ attempt' = attempt + 1 /\ UNCHANGED result
    /\ UNCHANGED <<cause, replSet, faults, tryErr>>

\* tryInitReplicaSet has returned: success, even under a stop; else the stop; else
\* the next attempt, if there is one.
AttemptEnds ==
    /\ initPC = "returned"
    /\ CASE tryErr = "nil" -> Returns("nil")
         [] tryErr # "nil" /\ ctxDone -> Returns("stopped")
         [] tryErr # "nil" /\ ~ctxDone /\ attempt = Len(attemptDelays) -> Returns("driver")
         [] OTHER -> initPC' = "delay" /\ attempt' = attempt + 1 /\ UNCHANGED result
    /\ UNCHANGED <<cause, replSet, faults, tryErr>>

-----------------------------------------------------------------------------
(* tryInitReplicaSet *)

\* A failure is the network's or the server's fault unless the stop caused it.
Fault == faults' = IF ctxDone THEN faults ELSE faults + 1

\* The attempt is over but for Disconnect, or with no client to disconnect.
TryEnds(e, next) == tryErr' = e /\ initPC' = next

Connected ==
    /\ initPC = "connect"
    /\ initPC' = "initiate"
    /\ UNCHANGED <<cause, replSet, faults, attempt, tryErr, result>>

ConnectFails ==
    /\ initPC = "connect"
    /\ Fault
    /\ TryEnds(IF ctxDone THEN "stopped" ELSE "driver", "returned")
    /\ UNCHANGED <<cause, replSet, attempt, result>>

\* replSetInitiate makes a replica set and the answer arrives.
Initiated ==
    /\ initPC = "initiate"
    /\ ~replSet
    /\ replSet' = TRUE
    /\ initPC' = "stabilise"
    /\ UNCHANGED <<cause, faults, attempt, tryErr, result>>

\* The server refuses a second replSetInitiate; any refusal is final.
Mut_InitiateFails ==
    /\ initPC = "initiate"
    /\ \/ replSet /\ UNCHANGED <<replSet, faults>>
       \/ replSet' \in {replSet, TRUE} /\ Fault
    /\ TryEnds("driver", "disconnect")
    /\ UNCHANGED <<cause, attempt, result>>

\* An error: the server refuses since it is a replica set already, or the request
\* or the answer is lost. Unless the stop caused it, the status decides.
InitiateFails ==
    /\ initPC = "initiate"
    /\ \/ replSet /\ UNCHANGED <<replSet, faults>>
       \/ replSet' \in {replSet, TRUE} /\ Fault
    /\ IF ctxDone THEN TryEnds("stopped", "disconnect")
                  ELSE initPC' = "status" /\ UNCHANGED tryErr
    /\ UNCHANGED <<cause, attempt, result>>

\* select: the stabilization delay has passed, or the root context is done.
Stabilised ==
    /\ initPC = "stabilise"
    /\ \/ TryEnds("nil", "disconnect")
       \/ ctxDone /\ TryEnds("stopped", "disconnect")
    /\ UNCHANGED <<cause, replSet, faults, attempt, result>>

\* The answer's "ok" is not looked at.
Mut_StatusAnswered ==
    /\ initPC = "status"
    /\ TryEnds("nil", "disconnect")
    /\ UNCHANGED <<cause, replSet, faults, attempt, result>>

\* replSetGetStatus: ok on a replica set, an error on a server that is none.
StatusAnswered ==
    /\ initPC = "status"
    /\ TryEnds(IF replSet THEN "nil" ELSE "driver", "disconnect")
    /\ UNCHANGED <<cause, replSet, faults, attempt, result>>

\* The command fails. Its error is returned as it is, even under a stop.
StatusFails ==
    /\ initPC = "status"
    /\ Fault
    /\ TryEnds("driver", "disconnect")
    /\ UNCHANGED <<cause, replSet, attempt, result>>

\* Disconnect has no timeout and waits for a connection that does not answer.
Mut_Disconnect_Waits ==
    /\ initPC = "disconnect"
    /\ tryErr # "driver"
    /\ initPC' = "returned"
    /\ UNCHANGED <<cause, replSet, faults, attempt, tryErr, result>>

\* The deferred Disconnect is detached from the root context and bounded by
\* mongoCommandTimeout; its own error is only logged.
Disconnect ==
    /\ initPC = "disconnect"
    /\ initPC' = "returned"
    /\ UNCHANGED <<cause, replSet, faults, attempt, tryErr, result>>

-----------------------------------------------------------------------------
InitStep ==
    \/ DelayOver \/ DelayInterrupted \/ AttemptEnds
    \/ Connected \/ ConnectFails \/ Initiated \/ InitiateFails \/ Stabilised
    \/ StatusAnswered \/ StatusFails \/ Disconnect

AttemptsNext == InitStep \/ (OperatorStop /\ UNCHANGED initVars)

AttemptsSpec == AttemptsInit /\ [][AttemptsNext]_attemptVars

\* Every call has a timeout of its own.
FairAttempts == AttemptsSpec /\ WF_attemptVars(InitStep)

-----------------------------------------------------------------------------
(* Properties *)

\* The retries, the lost answers and the interrupted waits add up to one call with
\* one answer, and a true one: nil only on a replica set, which the bundle's
\* transactions need (mongo.go:85-92, 142); no driver error from a stop, which
\* "must not turn an operator-requested stop into a non-zero exit"
\* (mongo_test.go:16-18), although the status check returns one. And it comes,
\* with or without a server that answers.
Contract == INSTANCE ReplicaSetContract
ImplementsReplicaSet == Contract!Spec

\* Once the root context is done no further attempt is scheduled: a stop does not
\* wait out the two minutes of delays (mongo.go:38-54). The attempt whose turn it
\* is may still be made: its delay may be over just then.
StopEndsRetries == [][ctxDone => attempt' = attempt]_attemptVars

\* Startup tolerates an unreliable start of the server: while fewer connections and
\* commands have failed than there are attempts, whatever was lost on the way and
\* whatever an earlier run left behind, the result is not a driver error.
ToleratesFaults == result = "driver" => faults >= Len(attemptDelays)
=============================================================================
