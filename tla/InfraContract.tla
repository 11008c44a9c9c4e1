--------------------------- MODULE InfraContract ---------------------------
(***************************************************************************)
(* What infraSuite promises the rest of the process, without goroutines,   *)
(* signals, locks or deadlines: children come up only while the process    *)
(* lives; one that dies before the stop takes the process down and spoils  *)
(* the verdict; the stop answers once, when no child is left.              *)
(***************************************************************************)
EXTENDS RootContext

CONSTANT Proc

VARIABLES
    child,    \* off, up, lost (died before the stop), ended (after it)
    phase,    \* open, closing (stop was called), closed (stop returned)
    verdict   \* what stop returned: none yet, clean (nil), dirty (an error)

cvars == <<cause, child, phase, verdict>>

Init ==
    /\ cause = NoCause
    /\ child = [p \in Proc |-> "off"]
    /\ phase = "open"
    /\ verdict = "none"

Come(p) ==
    /\ phase = "open" /\ ~ctxDone
    /\ child[p] = "off"
    /\ child' = [child EXCEPT ![p] = "up"]
    /\ UNCHANGED <<cause, phase, verdict>>

Lose(p) ==
    /\ phase = "open"
    /\ child[p] = "up"
    /\ child' = [child EXCEPT ![p] = "lost"]
    /\ stopRoot(p)
    /\ UNCHANGED <<phase, verdict>>

\* Somebody else ends the process: the operator, or a failed startup.
EndProcess ==
    /\ ~ctxDone
    /\ cause' \in {Signal, Startup}
    /\ UNCHANGED <<child, phase, verdict>>

Close ==
    /\ phase = "open"
    /\ phase' = "closing"
    /\ UNCHANGED <<cause, child, verdict>>

End(p) ==
    /\ phase = "closing"
    /\ child[p] = "up"
    /\ child' = [child EXCEPT ![p] = "ended"]
    /\ UNCHANGED <<cause, phase, verdict>>

Answer ==
    /\ phase = "closing"
    /\ \A p \in Proc : child[p] # "up"
    /\ phase' = "closed"
    /\ verdict' \in {"clean", "dirty"}
    /\ verdict' = "clean" => \A p \in Proc : child[p] # "lost"
    /\ UNCHANGED <<cause, child>>

Next ==
    \/ EndProcess \/ Close \/ Answer
    \/ \E p \in Proc : Come(p) \/ Lose(p) \/ End(p)

Spec == Init /\ [][Next]_cvars

\* Once stop is called every child ends and stop answers.
FairSpec ==
    /\ Spec
    /\ WF_cvars(Answer)
    /\ \A p \in Proc : WF_cvars(End(p))
=============================================================================
