----------------------------- MODULE Containers -----------------------------
(***************************************************************************)
(* The containers of the integration test with S3 storage                  *)
(* (integration/containers.go, integration_test.go:98-132): MongoDB, Redis, *)
(* and MinIO with a network of its own and a short-lived mc that creates   *)
(* the bucket, all under one context with a deadline.                      *)
(*                                                                         *)
(* Every call goes to a container daemon that may refuse it, and does so   *)
(* once the context is done. A container that was created but did not      *)
(* become healthy is there, though its call failed: the code keeps no      *)
(* handle to it. What the test itself does in between is Harness.          *)
(***************************************************************************)
EXTENDS Naturals, Sequences

VARIABLES
    up,         \* what exists at the daemon
    dropped,    \* left by a call that failed
    refused,    \* its release was tried and refused
    ctxDone,    \* the test's deadline has passed
    step,       \* the call being made; releasing or over
    todo,       \* while releasing: what is still to be released, in order
    next        \* and where that leads: test or over

vars == <<up, dropped, refused, ctxDone, step, todo, next>>

Container == {"mongo", "redis", "minio", "mc"}
Attached  == {"minio", "mc"}     \* to the network, which stays while they do
Resource  == Container \cup {"network"}

\* The calls in their order: what creates is named after what it creates.
Calls == <<"mongo", "mongoURI", "redis", "redisURI",
           "network", "minio", "host", "port", "mc", "mcState", "test">>
Call  == {Calls[i] : i \in DOMAIN Calls}
After(c) == LET i == CHOOSE j \in DOMAIN Calls : Calls[j] = c IN Calls[i + 1]

TypeOK ==
    /\ up \subseteq Resource /\ dropped \subseteq up \cap Container /\ refused \subseteq up
    /\ ctxDone \in BOOLEAN
    /\ step \in Call \cup {"releasing", "over"}
    /\ todo \in Seq(Resource)
    /\ next \in {"test", "over"}

Init ==
    /\ up = {} /\ dropped = {} /\ refused = {}
    /\ ctxDone = FALSE
    /\ step = Calls[1]
    /\ todo = <<>> /\ next = "over"

-----------------------------------------------------------------------------
\* The network is removed first.
Mut_Terminate == <<"network", "minio">>

\* MinIOContainer.Terminate, and what StartMinIOWithRegion does in its place.
Terminate == <<"minio", "network">>

\* What the start function that makes call c releases before it returns an error.
Unwind(c) ==
    CASE c = "mongoURI" -> <<"mongo">>
      [] c = "redisURI" -> <<"redis">>
      [] c = "minio" -> <<"network">>
      [] c \in {"host", "port", "mc"} -> Terminate
      [] c = "mcState" -> <<"mc">> \o Terminate
      [] OTHER -> <<>>

\* What the test has deferred by then: its calls come last to first.
Deferred(c) ==
    CASE c \in {"mongo", "mongoURI"} -> <<>>
      [] c \in {"redis", "redisURI"} -> <<"mongo">>
      [] c = "test" -> Terminate \o <<"redis", "mongo">>
      [] OTHER -> <<"redis", "mongo">>

Release(rs, to) == step' = "releasing" /\ todo' = rs /\ next' = to

\* StartMongo, StartRedis, StartMinIOWithRegion and createMinioBucket, call by
\* call. createMinioBucket terminates mc on success, too.
Succeeds(c) ==
    /\ step = c /\ c # "test"
    /\ ~ctxDone
    /\ up' = up \cup ({c} \cap Resource)
    /\ IF c = "mcState" THEN Release(<<"mc">>, "test")
                        ELSE step' = After(c) /\ UNCHANGED <<todo, next>>
    /\ UNCHANGED <<dropped, refused, ctxDone>>

\* An error, an mc that exits with a failure included.
Fails(c) ==
    /\ step = c /\ c # "test"
    /\ \E left \in SUBSET ({c} \cap Container) :
          up' = up \cup left /\ dropped' = dropped \cup left
    /\ Release(Unwind(c) \o Deferred(c), "over")
    /\ UNCHANGED <<refused, ctxDone>>

\* The test is over, passed or failed.
TestEnds ==
    /\ step = "test"
    /\ Release(Deferred("test"), "over")
    /\ UNCHANGED <<up, dropped, refused, ctxDone>>

\* Terminate or Remove; a network in use is not removed. Errors are ignored.
InUse(r) == r = "network" /\ Attached \cap up # {}
Released ==
    /\ step = "releasing" /\ todo # <<>>
    /\ LET r == Head(todo) IN
         \/ ~ctxDone /\ ~InUse(r) /\ up' = up \ {r} /\ UNCHANGED refused
         \/ InUse(r) /\ UNCHANGED <<up, refused>>
         \/ refused' = refused \cup ({r} \cap up) /\ UNCHANGED up
    /\ todo' = Tail(todo)
    /\ UNCHANGED <<dropped, ctxDone, step, next>>

AllReleased ==
    /\ step = "releasing" /\ todo = <<>>
    /\ step' = next
    /\ UNCHANGED <<up, dropped, refused, ctxDone, todo, next>>

Expire ==
    /\ ~ctxDone
    /\ ctxDone' = TRUE
    /\ UNCHANGED <<up, dropped, refused, step, todo, next>>

Next == (\E c \in Call : Succeeds(c) \/ Fails(c)) \/ TestEnds \/ Released \/ AllReleased \/ Expire

Spec == Init /\ [][Next]_vars

-----------------------------------------------------------------------------
(* Properties *)

\* Wherever the set-up fails, what is left at the end was left by a call that
\* failed or by a release that was refused, or is the network of such a container
\* (containers.go:131-165, 178-184, 201; integration_test.go:104-113).
ReleasesAll ==
    step = "over" =>
        LET excused == dropped \cup refused IN
        up \subseteq excused \cup (IF Attached \cap excused # {} THEN {"network"} ELSE {})
=============================================================================
