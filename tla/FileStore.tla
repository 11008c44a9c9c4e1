----------------------------- MODULE FileStore -----------------------------
(***************************************************************************)
(* LightFileNodeStore (lightcmp/lightfilenodestore/store.go): the filenode's *)
(* block and index store on one Badger database, with its garbage-collection *)
(* goroutine, its shutdown, and crashes of the process or the machine.     *)
(*                                                                         *)
(* A slot is a block or an index key: their prefixes keep the two apart in *)
(* the same database. Get and IndexGet read one slot in one transaction;   *)
(* what they return is the scan below with one block, so they have no      *)
(* action of their own.                                                    *)
(***************************************************************************)
EXTENDS Naturals

CONSTANTS
    Client,      \* goroutines of the filenode that call the store
    Block,       \* content-addressed blocks
    IndexKey,
    IndexValue

Data    == "data"      \* a block's only possible value: its CID names it
Absent  == "absent"
Unknown == "unknown"

ASSUME SlotAssumption == Block \cap IndexKey = {}
ASSUME ValueAssumption == IndexValue \cap {Data, Absent, Unknown} = {}

Slot  == Block \cup IndexKey
Value == IndexValue \cup {Data, Absent}

VARIABLES
    life,       \* down, up (Run returned), joining and closing (in Close), closed
    mem,        \* what transactions see
    disk,       \* what a reboot leaves
    gc,         \* the GC goroutine: off, idle, pass (in gcOnce), rewriting
    gcStop,     \* gcCtx is done
    op,         \* the call each client is in
    promise,    \* for each slot, the value the caller may rely on
    mixed       \* slots whose concurrent writes have made the order unknown

vars == <<life, mem, disk, gc, gcStop, op, promise, mixed>>

Idle == [kind |-> "idle"]
Write(slots, val) == [kind |-> "write", on |-> slots, todo |-> slots, val |-> val]
Scan(ks) == [kind |-> "scan", todo |-> ks, offer |-> {}, got |-> {}, cancelled |-> FALSE,
             must |-> {b \in ks : promise[b] = Data}]

WriteOp == [kind : {"write"}, on : SUBSET Slot, todo : SUBSET Slot, val : Value]
ScanOp  == [kind : {"scan"}, todo : SUBSET Block, offer : SUBSET Block, got : SUBSET Block,
            cancelled : BOOLEAN, must : SUBSET Block]

TypeOK ==
    /\ life \in {"down", "up", "joining", "closing", "closed"}
    /\ mem \in [Slot -> Value]
    /\ disk \in [Slot -> Value]
    /\ gc \in {"off", "idle", "pass", "rewriting"}
    /\ gcStop \in BOOLEAN
    /\ op \in [Client -> {Idle} \cup WriteOp \cup ScanOp]
    /\ promise \in [Slot -> Value \cup {Unknown}]
    /\ mixed \subseteq Slot

Init ==
    /\ life = "down"
    /\ mem = [s \in Slot |-> Absent]
    /\ disk = mem
    /\ gc = "off"
    /\ gcStop = FALSE
    /\ op = [c \in Client |-> Idle]
    /\ promise = mem
    /\ mixed = {}

-----------------------------------------------------------------------------
(* Run, Close and the GC goroutine                                           *)

\* Run opens the database and leaves the GC goroutine behind. If Badger does
\* not open, nothing has changed.
Run ==
    /\ life = "down"
    /\ life' = "up"
    /\ gc' = "idle"
    /\ gcStop' = FALSE
    /\ UNCHANGED <<mem, disk, op, promise, mixed>>

\* Run's context, the root context, is the parent of gcCtx.
RootStops ==
    /\ life = "up"
    /\ ~gcStop
    /\ gcStop' = TRUE
    /\ UNCHANGED <<life, mem, disk, gc, op, promise, mixed>>

\* The ticker fires; select may prefer it to a context that is done.
GcTick ==
    /\ gc = "idle"
    /\ gc' = "pass"
    /\ UNCHANGED <<life, mem, disk, gcStop, op, promise, mixed>>

\* The loop of gcOnce: another RunValueLogGC while the context is live.
GcRewrite ==
    /\ gc = "pass"
    /\ ~gcStop
    /\ gc' = "rewriting"
    /\ UNCHANGED <<life, mem, disk, gcStop, op, promise, mixed>>

\* RunValueLogGC returns: it has rewritten a file and is called again, or it
\* found nothing to do, was rejected or failed, which ends the pass.
GcReturns ==
    /\ gc = "rewriting"
    /\ gc' \in {"pass", "idle"}
    /\ UNCHANGED <<life, mem, disk, gcStop, op, promise, mixed>>

\* The context or maxGCDuration ends the loop.
GcPassEnds ==
    /\ gc = "pass"
    /\ gc' = "idle"
    /\ UNCHANGED <<life, mem, disk, gcStop, op, promise, mixed>>

\* runGC returns; gcDone is closed.
GcExits ==
    /\ gc = "idle"
    /\ gcStop
    /\ gc' = "off"
    /\ UNCHANGED <<life, mem, disk, gcStop, op, promise, mixed>>

\* Close waits for GC without cancelling it.
Mut_CloseBegins ==
    /\ life = "up"
    /\ life' = "joining"
    /\ UNCHANGED <<mem, disk, gc, gcStop, op, promise, mixed>>

\* Close: gcCancel().
CloseBegins ==
    /\ life = "up"
    /\ life' = "joining"
    /\ gcStop' = TRUE
    /\ UNCHANGED <<mem, disk, gc, op, promise, mixed>>

\* Close on a store that never ran does nothing.
CloseUnopened ==
    /\ life = "down"
    /\ life' = "closed"
    /\ UNCHANGED <<mem, disk, gc, gcStop, op, promise, mixed>>

\* Close does not wait for gcDone.
Mut_GcJoined ==
    /\ life = "joining"
    /\ life' = "closing"
    /\ UNCHANGED <<mem, disk, gc, gcStop, op, promise, mixed>>

\* <-s.gcDone: the wait has no deadline. db.Close() begins.
GcJoined ==
    /\ life = "joining"
    /\ gc = "off"
    /\ life' = "closing"
    /\ UNCHANGED <<mem, disk, gc, gcStop, op, promise, mixed>>

CloseReturns ==
    /\ life = "closing"
    /\ life' = "closed"
    /\ UNCHANGED <<mem, disk, gc, gcStop, op, promise, mixed>>

\* The machine or the process dies at any moment and may be started again: by a
\* power failure, by a kill, or by the nil s.db that a call still running after
\* Close dereferences. With a clean Close behind it, it is just a restart.
Crash ==
    /\ life # "down"
    /\ life' = "down"
    /\ mem' = disk
    /\ gc' = "off"
    /\ gcStop' = FALSE
    /\ op' = [c \in Client |-> Idle]
    /\ UNCHANGED <<disk, promise, mixed>>

-----------------------------------------------------------------------------
(* Writes: Add, Delete, DeleteMany, IndexPut, IndexDelete                    *)

Writers(s) == {c \in Client : op[c].kind = "write" /\ s \in op[c].on}

\* From the moment a write is called until it is acknowledged, the caller knows
\* nothing of its slots; scans can no longer be held to what they held before.
Begin(c, slots, val) ==
    /\ life = "up"
    /\ op[c] = Idle
    /\ op' = [d \in Client |->
                IF d = c THEN Write(slots, val)
                ELSE IF op[d].kind = "scan" THEN [op[d] EXCEPT !.must = @ \ slots]
                ELSE op[d]]
    /\ promise' = [s \in Slot |-> IF s \in slots THEN Unknown ELSE promise[s]]
    /\ mixed' = {s \in mixed : s \notin slots \/ Writers(s) # {}}
                    \cup {s \in slots : Writers(s) # {}}
    /\ UNCHANGED <<life, mem, disk, gc, gcStop>>

Add(c)         == \E bs \in SUBSET Block \ {{}} : Begin(c, bs, Data)
DeleteMany(c)  == \E bs \in SUBSET Block \ {{}} : Begin(c, bs, Absent)
Delete(c)      == \E b \in Block : Begin(c, {b}, Absent)
IndexPut(c)    == \E k \in IndexKey, v \in IndexValue : Begin(c, {k}, v)
IndexDelete(c) == \E k \in IndexKey : Begin(c, {k}, Absent)

\* Badger commits one transaction of the call: all of a single Update, but as
\* much of a WriteBatch as fits. Without SyncWrites it stays in memory.
Mut_Commit(c) ==
    /\ life \in {"up", "joining"}
    /\ op[c].kind = "write"
    /\ \E part \in SUBSET op[c].todo \ {{}} :
          /\ mem' = [s \in Slot |-> IF s \in part THEN op[c].val ELSE mem[s]]
          /\ op' = [op EXCEPT ![c].todo = @ \ part]
    /\ UNCHANGED <<life, disk, gc, gcStop, promise, mixed>>

\* With SyncWrites no transaction is visible, or acknowledged, before it is on
\* disk. Badger refuses commits once it closes.
Commit(c) ==
    /\ life \in {"up", "joining"}
    /\ op[c].kind = "write"
    /\ \E part \in SUBSET op[c].todo \ {{}} :
          /\ mem' = [s \in Slot |-> IF s \in part THEN op[c].val ELSE mem[s]]
          /\ disk' = [s \in Slot |-> IF s \in part THEN op[c].val ELSE disk[s]]
          /\ op' = [op EXCEPT ![c].todo = @ \ part]
    /\ UNCHANGED <<life, gc, gcStop, promise, mixed>>

\* The call returns nil: every transaction of it has been committed.
Ack(c) ==
    /\ op[c].kind = "write"
    /\ op[c].todo = {}
    /\ promise' = [s \in Slot |->
                     IF s \in op[c].on \ mixed THEN op[c].val ELSE promise[s]]
    /\ op' = [op EXCEPT ![c] = Idle]
    /\ UNCHANGED <<life, mem, disk, gc, gcStop, mixed>>

\* The call returns an error; what it has committed stays.
WriteFails(c) ==
    /\ op[c].kind = "write"
    /\ op' = [op EXCEPT ![c] = Idle]
    /\ UNCHANGED <<life, mem, disk, gc, gcStop, promise, mixed>>

-----------------------------------------------------------------------------
(* GetMany: a goroutine that loads one block after another and offers each   *)
(* on an unbuffered channel. Nothing depends on the order of the CIDs.       *)

GetMany(c) ==
    /\ life = "up"
    /\ op[c] = Idle
    /\ \E ks \in SUBSET Block : op' = [op EXCEPT ![c] = Scan(ks)]
    /\ UNCHANGED <<life, mem, disk, gc, gcStop, promise, mixed>>

\* The loop ends at the first block that is not found.
Mut_Load(c, b) ==
    /\ life \in {"up", "joining"}
    /\ op[c].kind = "scan" /\ op[c].offer = {} /\ ~op[c].cancelled
    /\ b \in op[c].todo
    /\ op' = [op EXCEPT ![c].todo = IF mem[b] = Data THEN @ \ {b} ELSE {},
                        ![c].offer = IF mem[b] = Data THEN {b} ELSE {}]
    /\ UNCHANGED <<life, mem, disk, gc, gcStop, promise, mixed>>

\* loadBlock: a block that is not there is passed over.
Load(c, b) ==
    /\ life \in {"up", "joining"}
    /\ op[c].kind = "scan" /\ op[c].offer = {} /\ ~op[c].cancelled
    /\ b \in op[c].todo
    /\ op' = [op EXCEPT ![c].todo = @ \ {b},
                        ![c].offer = IF mem[b] = Data THEN {b} ELSE {}]
    /\ UNCHANGED <<life, mem, disk, gc, gcStop, promise, mixed>>

\* A load error is logged and the block is passed over: the receiver is not told.
LoadFails(c, b) ==
    /\ op[c].kind = "scan" /\ op[c].offer = {} /\ ~op[c].cancelled
    /\ b \in op[c].todo
    /\ op' = [op EXCEPT ![c].todo = @ \ {b}, ![c].must = @ \ {b}]
    /\ UNCHANGED <<life, mem, disk, gc, gcStop, promise, mixed>>

\* res <- bl
Deliver(c) ==
    /\ op[c].kind = "scan" /\ op[c].offer # {}
    /\ op' = [op EXCEPT ![c].got = @ \cup op[c].offer, ![c].offer = {}]
    /\ UNCHANGED <<life, mem, disk, gc, gcStop, promise, mixed>>

\* The receiver gives up, at any point of the scan.
Cancel(c) ==
    /\ op[c].kind = "scan" /\ ~op[c].cancelled
    /\ op' = [op EXCEPT ![c].cancelled = TRUE]
    /\ UNCHANGED <<life, mem, disk, gc, gcStop, promise, mixed>>

\* A goroutine blocked in its send does not look at the context.
Mut_ScanEnds(c) ==
    /\ op[c].kind = "scan"
    /\ op[c].offer = {}
    /\ op[c].cancelled \/ op[c].todo = {}
    /\ op' = [op EXCEPT ![c] = Idle]
    /\ UNCHANGED <<life, mem, disk, gc, gcStop, promise, mixed>>

\* close(res): all is done, or the context is, even in the middle of a send.
ScanEnds(c) ==
    /\ op[c].kind = "scan"
    /\ op[c].cancelled \/ (op[c].todo = {} /\ op[c].offer = {})
    /\ op' = [op EXCEPT ![c] = Idle]
    /\ UNCHANGED <<life, mem, disk, gc, gcStop, promise, mixed>>

-----------------------------------------------------------------------------
GcStep    == GcRewrite \/ GcReturns \/ GcPassEnds \/ GcExits
CloseStep == GcJoined \/ CloseReturns

Call(c)  == Add(c) \/ DeleteMany(c) \/ Delete(c) \/ IndexPut(c) \/ IndexDelete(c) \/ GetMany(c)
WriteStep(c) == Commit(c) \/ Ack(c) \/ WriteFails(c)
ScanStep(c)  == Deliver(c) \/ Cancel(c) \/ \E b \in Block : Load(c, b) \/ LoadFails(c, b)

Next ==
    \/ Run \/ RootStops \/ CloseBegins \/ CloseUnopened \/ CloseStep \/ Crash
    \/ GcTick \/ GcStep
    \/ \E c \in Client : Call(c) \/ WriteStep(c) \/ ScanStep(c) \/ ScanEnds(c)

\* The goroutines run and Badger's calls return. A receiver need not receive, so
\* only the end of a scan is fair. A context that is done is picked by select in
\* the end, however often the ticker fires.
Fairness ==
    /\ WF_vars(GcStep)
    /\ SF_vars(GcExits)
    /\ WF_vars(CloseStep)
    /\ \A c \in Client : WF_vars(ScanEnds(c))

Spec     == Init /\ [][Next]_vars
FairSpec == Spec /\ Fairness

-----------------------------------------------------------------------------
(* Properties *)

\* An acknowledged write survives a hard reboot (store.go:85): whatever the
\* caller may rely on is on disk, and visible, at every moment.
Durable ==
    \A s \in Slot : promise[s] # Unknown =>
        disk[s] = promise[s] /\ (life # "down" => mem[s] = promise[s])

\* No GC pass runs on a closed database (store.go:111).
GcOnOpenDatabase == gc = "rewriting" => life \in {"up", "joining"}

\* A scan that was not given up has delivered every block that was safely stored
\* when it began and that nobody has touched since, save those it failed to load: one
\* that is gone or cannot be loaded does not end the scan for those after it.
ScanIsComplete ==
    [][\A c \in Client :
          op[c].kind = "scan" /\ op'[c] = Idle /\ ~op[c].cancelled /\ life' # "down" =>
              op[c].must \subseteq op[c].got]_vars

\* What the store promises its callers. The map is what transactions see, and
\* what a reboot leaves while there is nobody to see it.
visible == IF life = "down" THEN disk ELSE mem
calls == [c \in Client |->
            IF op[c].kind = "scan"
              THEN [kind |-> "scan", todo |-> op[c].todo, found |-> op[c].offer \cup op[c].got]
              ELSE op[c]]
Contract == INSTANCE BlockStore WITH stored <- visible, call <- calls

\* Batches that are split, GC, Close, crashes and restarts included, the store is
\* a map that only writes in progress change; no scan delivers what was not there.
ImplementsStore == Contract!Spec

\* No goroutine of the store keeps others waiting for good. Close's wait for the GC
\* goroutine, which takes no deadline, ends (store.go:113-117); and a receiver
\* that gives up leaves no scan behind in its send (179-184).
GoroutinesEnd ==
    /\ life = "joining" ~> life \in {"closed", "down"}
    /\ \A c \in Client :
          (op[c].kind = "scan" /\ op[c].cancelled) ~> op[c].kind # "scan"
=============================================================================
