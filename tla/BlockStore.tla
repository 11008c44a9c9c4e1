----------------------------- MODULE BlockStore -----------------------------
(***************************************************************************)
(* What the filenode may expect of its block store, without a database,    *)
(* transactions, garbage collection, Run or Close: a map from slots to     *)
(* values that only writes change, and only between their call and their   *)
(* return. A caller may rely on a slot from the return of a write that     *)
(* nobody else's overlapped until the next write of it is called. A scan   *)
(* gives nothing but what was there when it looked. A crash ends the calls *)
(* and changes neither the map nor what callers rely on.                   *)
(***************************************************************************)

CONSTANTS Client, Slot, Value, Data, Absent, Unknown

VARIABLES
    stored,    \* the slots' values
    call,      \* the call each client is in
    promise    \* for each slot, the value a caller may rely on, or Unknown

svars == <<stored, call, promise>>

None == [kind |-> "idle"]
Writing(slots, val) == [kind |-> "write", on |-> slots, todo |-> slots, val |-> val]
Scanning(slots) == [kind |-> "scan", todo |-> slots, found |-> {}]

Init ==
    /\ stored = [s \in Slot |-> Absent]
    /\ call = [c \in Client |-> None]
    /\ promise = stored

BeginWrite(c) ==
    /\ call[c] = None
    /\ \E slots \in SUBSET Slot, val \in Value :
          /\ call' = [call EXCEPT ![c] = Writing(slots, val)]
          /\ promise' = [s \in Slot |-> IF s \in slots THEN Unknown ELSE promise[s]]
    /\ UNCHANGED stored

\* Some of its slots, together or one after another.
Apply(c) ==
    /\ call[c].kind = "write"
    /\ \E part \in SUBSET call[c].todo :
          /\ stored' = [s \in Slot |-> IF s \in part THEN call[c].val ELSE stored[s]]
          /\ call' = [call EXCEPT ![c].todo = @ \ part]
    /\ UNCHANGED promise

\* Without an error: it has reached every slot, and can be relied on where nobody
\* else was writing.
Alone(c, s) == \A d \in Client \ {c} : call[d].kind = "write" => s \notin call[d].on
Return(c) ==
    /\ call[c].kind = "write"
    /\ call[c].todo = {}
    /\ call' = [call EXCEPT ![c] = None]
    /\ \E sure \in SUBSET {s \in call[c].on : Alone(c, s) /\ stored[s] = call[c].val} :
          promise' = [s \in Slot |-> IF s \in sure THEN call[c].val ELSE promise[s]]
    /\ UNCHANGED stored

BeginScan(c) ==
    /\ call[c] = None
    /\ \E slots \in SUBSET Slot : call' = [call EXCEPT ![c] = Scanning(slots)]
    /\ UNCHANGED <<stored, promise>>

\* A block that is not found, or that cannot be loaded, is passed over.
Look(c, s) ==
    /\ call[c].kind = "scan"
    /\ s \in call[c].todo
    /\ \E found \in SUBSET {t \in {s} : stored[t] = Data} :
          call' = [call EXCEPT ![c].todo = @ \ {s}, ![c].found = @ \cup found]
    /\ UNCHANGED <<stored, promise>>

\* A write fails, a scan ends.
GiveUp(c) ==
    /\ call' = [call EXCEPT ![c] = None]
    /\ UNCHANGED <<stored, promise>>

Crash ==
    /\ call' = [c \in Client |-> None]
    /\ UNCHANGED <<stored, promise>>

Next ==
    \/ Crash
    \/ \E c \in Client : BeginWrite(c) \/ Apply(c) \/ Return(c) \/ BeginScan(c) \/ GiveUp(c)
    \/ \E c \in Client, s \in Slot : Look(c, s)

Spec == Init /\ [][Next]_svars
=============================================================================
