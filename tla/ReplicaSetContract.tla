------------------------- MODULE ReplicaSetContract -------------------------
(***************************************************************************)
(* What initReplicaSetAction promises startAllInOneInfra, without attempts, *)
(* commands, a network or timeouts: it answers once; nil is a replica set, *)
(* the context's error a stop, and any other error no stop. What is a      *)
(* replica set stays one. AllInOne's InitReplicaSet is such a call in one  *)
(* step.                                                                   *)
(***************************************************************************)
EXTENDS RootContext

VARIABLES
    replSet,   \* the server has a replica-set configuration
    result     \* pending; or nil, stopped (ctx.Err()) or driver

cvars == <<cause, replSet, result>>

Init ==
    /\ cause = NoCause
    /\ replSet \in BOOLEAN
    /\ result = "pending"

\* The server takes the configuration, be it for an answer that never arrives.
Configure ==
    /\ result = "pending"
    /\ replSet' = TRUE
    /\ UNCHANGED <<cause, result>>

Answer ==
    /\ result = "pending"
    /\ \/ replSet /\ result' = "nil"
       \/ ctxDone /\ result' = "stopped"
       \/ ~ctxDone /\ result' = "driver"
    /\ UNCHANGED <<cause, replSet>>

Next == Configure \/ Answer \/ (OperatorStop /\ UNCHANGED <<replSet, result>>)

\* It always answers: every call and every wait has a timeout.
Spec == Init /\ [][Next]_cvars /\ WF_cvars(Answer)
=============================================================================
