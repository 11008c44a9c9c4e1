-------------------------- MODULE FileStoreProofs --------------------------
(***************************************************************************)
(* Theorems about FileStore for any callers, blocks, keys and values. The  *)
(* invariant says what a write in progress and the promises to callers     *)
(* have to do with each other, and which blocks a scan still owes.         *)
(***************************************************************************)
EXTENDS FileStore, TLAPS

\* Without SyncWrites this is what fails: then a reboot can leave less than
\* transactions have seen.
SyncInv == mem = disk

\* The GC goroutine lives while the database is open.
GcInv == life \notin {"up", "joining"} => gc = "off"

\* A write in progress: nothing is promised of its slots, two writes of one slot
\* have marked it, and elsewhere what the write has committed is still there.
WriteInv ==
    \A c \in Client : op[c].kind = "write" =>
        /\ op[c].todo \subseteq op[c].on
        /\ \A s \in op[c].on : promise[s] = Unknown
        /\ \A d \in Client \ {c} : op[d].kind = "write" => op[c].on \cap op[d].on \subseteq mixed
        /\ \A s \in op[c].on \ (op[c].todo \cup mixed) : disk[s] = op[c].val

\* A scan owes blocks that are promised, and has them ahead of it or behind.
ScanInv ==
    \A c \in Client : op[c].kind = "scan" =>
        /\ \A b \in op[c].must : promise[b] = Data
        /\ ~op[c].cancelled => op[c].must \subseteq op[c].todo \cup op[c].offer \cup op[c].got

IInv == TypeOK /\ SyncInv /\ GcInv /\ WriteInv /\ ScanInv /\ Durable

-----------------------------------------------------------------------------
LEMMA InitInv == Init => IInv
<1> SUFFICES ASSUME Init PROVE IInv
  OBVIOUS
<1>1. TypeOK
  BY DEF Init, TypeOK, Value
<1>2. WriteInv /\ ScanInv
  BY DEF Init, WriteInv, ScanInv, Idle
<1> QED
  BY <1>1, <1>2 DEF Init, IInv, SyncInv, GcInv, Durable

\* The kind of a call says which record it is.
LEMMA Kinds ==
    ASSUME TypeOK, NEW c \in Client
    PROVE  /\ op[c].kind = "write" => op[c] \in WriteOp
           /\ op[c].kind = "scan" => op[c] \in ScanOp
  BY DEF TypeOK, Idle, WriteOp, ScanOp

\* Every step of a scan replaces it by another, which differs in some fields.
ScanAt(todo, offer, got, cancelled, must) ==
    [kind |-> "scan", todo |-> todo, offer |-> offer, got |-> got,
     cancelled |-> cancelled, must |-> must]

LEMMA ScanIs ==
    ASSUME NEW n \in ScanOp
    PROVE  n = ScanAt(n.todo, n.offer, n.got, n.cancelled, n.must)
  BY DEF ScanOp, ScanAt

LEMMA ScanLoads ==
    ASSUME NEW r \in ScanOp, NEW x \in SUBSET Block, NEW y \in SUBSET Block
    PROVE  [r EXCEPT !.todo = x, !.offer = y] = ScanAt(x, y, r.got, r.cancelled, r.must)
<1> DEFINE n == [r EXCEPT !.todo = x, !.offer = y]
<1>1. n \in ScanOp
  BY Zenon DEF ScanOp
<1>2. /\ n.todo = x /\ n.offer = y /\ n.got = r.got
      /\ n.cancelled = r.cancelled /\ n.must = r.must
  BY Zenon DEF ScanOp
<1> HIDE DEF n
<1>3. n = ScanAt(x, y, r.got, r.cancelled, r.must)
  BY <1>1, <1>2, ScanIs
<1> QED
  BY <1>3 DEF n

LEMMA ScanSkips ==
    ASSUME NEW r \in ScanOp, NEW x \in SUBSET Block, NEW y \in SUBSET Block
    PROVE  [r EXCEPT !.todo = x, !.must = y] = ScanAt(x, r.offer, r.got, r.cancelled, y)
<1> DEFINE n == [r EXCEPT !.todo = x, !.must = y]
<1>1. n \in ScanOp
  BY Zenon DEF ScanOp
<1>2. /\ n.todo = x /\ n.offer = r.offer /\ n.got = r.got
      /\ n.cancelled = r.cancelled /\ n.must = y
  BY Zenon DEF ScanOp
<1> HIDE DEF n
<1>3. n = ScanAt(x, r.offer, r.got, r.cancelled, y)
  BY <1>1, <1>2, ScanIs
<1> QED
  BY <1>3 DEF n

LEMMA ScanDelivers ==
    ASSUME NEW r \in ScanOp, NEW x \in SUBSET Block, NEW y \in SUBSET Block
    PROVE  [r EXCEPT !.got = x, !.offer = y] = ScanAt(r.todo, y, x, r.cancelled, r.must)
<1> DEFINE n == [r EXCEPT !.got = x, !.offer = y]
<1>1. n \in ScanOp
  BY Zenon DEF ScanOp
<1>2. /\ n.todo = r.todo /\ n.offer = y /\ n.got = x
      /\ n.cancelled = r.cancelled /\ n.must = r.must
  BY Zenon DEF ScanOp
<1> HIDE DEF n
<1>3. n = ScanAt(r.todo, y, x, r.cancelled, r.must)
  BY <1>1, <1>2, ScanIs
<1> QED
  BY <1>3 DEF n

LEMMA ScanForgets ==
    ASSUME NEW r \in ScanOp, NEW x \in SUBSET Block
    PROVE  [r EXCEPT !.must = x] = ScanAt(r.todo, r.offer, r.got, r.cancelled, x)
<1> DEFINE n == [r EXCEPT !.must = x]
<1>1. n \in ScanOp
  BY Zenon DEF ScanOp
<1>2. /\ n.todo = r.todo /\ n.offer = r.offer /\ n.got = r.got
      /\ n.cancelled = r.cancelled /\ n.must = x
  BY Zenon DEF ScanOp
<1> HIDE DEF n
<1>3. n = ScanAt(r.todo, r.offer, r.got, r.cancelled, x)
  BY <1>1, <1>2, ScanIs
<1> QED
  BY <1>3 DEF n

LEMMA ScanStops ==
    ASSUME NEW r \in ScanOp
    PROVE  [r EXCEPT !.cancelled = TRUE] = ScanAt(r.todo, r.offer, r.got, TRUE, r.must)
<1> DEFINE n == [r EXCEPT !.cancelled = TRUE]
<1>1. n \in ScanOp
  BY Zenon DEF ScanOp
<1>2. /\ n.todo = r.todo /\ n.offer = r.offer /\ n.got = r.got
      /\ n.cancelled = TRUE /\ n.must = r.must
  BY Zenon DEF ScanOp
<1> HIDE DEF n
<1>3. n = ScanAt(r.todo, r.offer, r.got, TRUE, r.must)
  BY <1>1, <1>2, ScanIs
<1> QED
  BY <1>3 DEF n

LEMMA ScanRecords ==
    ASSUME TypeOK, NEW c \in Client, op[c].kind = "scan"
    PROVE  /\ op[c] \in ScanOp
           /\ \A b \in Block : Load(c, b) => op' = [op EXCEPT ![c] =
                 ScanAt(op[c].todo \ {b}, IF mem[b] = Data THEN {b} ELSE {},
                        op[c].got, op[c].cancelled, op[c].must)]
           /\ \A b \in Block : LoadFails(c, b) => op' = [op EXCEPT ![c] =
                 ScanAt(op[c].todo \ {b}, op[c].offer, op[c].got, op[c].cancelled, op[c].must \ {b})]
           /\ Deliver(c) => op' = [op EXCEPT ![c] =
                 ScanAt(op[c].todo, {}, op[c].got \cup op[c].offer, op[c].cancelled, op[c].must)]
           /\ Cancel(c) => op' = [op EXCEPT ![c] =
                 ScanAt(op[c].todo, op[c].offer, op[c].got, TRUE, op[c].must)]
<1>1. op[c] \in ScanOp
  BY Kinds
<1>2. /\ op[c].todo \subseteq Block /\ op[c].offer \subseteq Block /\ op[c].got \subseteq Block
      /\ op[c].must \subseteq Block
  BY <1>1 DEF ScanOp
<1>3. ASSUME NEW b \in Block, Load(c, b)
      PROVE  op' = [op EXCEPT ![c] = ScanAt(op[c].todo \ {b}, IF mem[b] = Data THEN {b} ELSE {}, op[c].got, op[c].cancelled, op[c].must)]
  <2>1. op' = [op EXCEPT ![c] = [op[c] EXCEPT !.todo = op[c].todo \ {b}, !.offer = IF mem[b] = Data THEN {b} ELSE {}]]
    BY <1>1, <1>3 DEF Load, TypeOK, ScanOp
  <2>2. op[c].todo \ {b} \in SUBSET Block /\ (IF mem[b] = Data THEN {b} ELSE {}) \in SUBSET Block
    BY <1>2
  <2>3. [op[c] EXCEPT !.todo = op[c].todo \ {b}, !.offer = IF mem[b] = Data THEN {b} ELSE {}] = ScanAt(op[c].todo \ {b}, IF mem[b] = Data THEN {b} ELSE {}, op[c].got, op[c].cancelled, op[c].must)
    BY <1>1, <2>2, ScanLoads, Zenon
  <2> QED
    BY <2>1, <2>3, Zenon
<1>4. ASSUME NEW b \in Block, LoadFails(c, b)
      PROVE  op' = [op EXCEPT ![c] = ScanAt(op[c].todo \ {b}, op[c].offer, op[c].got, op[c].cancelled, op[c].must \ {b})]
  <2>1. op' = [op EXCEPT ![c] = [op[c] EXCEPT !.todo = op[c].todo \ {b}, !.must = op[c].must \ {b}]]
    BY <1>1, <1>4 DEF LoadFails, TypeOK, ScanOp
  <2>2. op[c].todo \ {b} \in SUBSET Block /\ op[c].must \ {b} \in SUBSET Block
    BY <1>2
  <2>3. [op[c] EXCEPT !.todo = op[c].todo \ {b}, !.must = op[c].must \ {b}] = ScanAt(op[c].todo \ {b}, op[c].offer, op[c].got, op[c].cancelled, op[c].must \ {b})
    BY <1>1, <2>2, ScanSkips, Zenon
  <2> QED
    BY <2>1, <2>3, Zenon
<1>5. ASSUME Deliver(c)
      PROVE  op' = [op EXCEPT ![c] = ScanAt(op[c].todo, {}, op[c].got \cup op[c].offer, op[c].cancelled, op[c].must)]
  <2>1. op' = [op EXCEPT ![c] = [op[c] EXCEPT !.got = op[c].got \cup op[c].offer, !.offer = {}]]
    BY <1>1, <1>5 DEF Deliver, TypeOK, ScanOp
  <2>2. op[c].got \cup op[c].offer \in SUBSET Block /\ {} \in SUBSET Block
    BY <1>2
  <2>3. [op[c] EXCEPT !.got = op[c].got \cup op[c].offer, !.offer = {}] = ScanAt(op[c].todo, {}, op[c].got \cup op[c].offer, op[c].cancelled, op[c].must)
    BY <1>1, <2>2, ScanDelivers, Zenon
  <2> QED
    BY <2>1, <2>3, Zenon
<1>6. ASSUME Cancel(c)
      PROVE  op' = [op EXCEPT ![c] = ScanAt(op[c].todo, op[c].offer, op[c].got, TRUE, op[c].must)]
  <2>1. op' = [op EXCEPT ![c] = [op[c] EXCEPT !.cancelled = TRUE]]
    BY <1>1, <1>6 DEF Cancel, TypeOK, ScanOp
  <2>2. [op[c] EXCEPT !.cancelled = TRUE] = ScanAt(op[c].todo, op[c].offer, op[c].got, TRUE, op[c].must)
    BY <1>1, ScanStops, Zenon
  <2> QED
    BY <2>1, <2>2, Zenon
<1> QED
  BY <1>1, <1>3, <1>4, <1>5, <1>6

LEMMA ScanRecord ==
    ASSUME TypeOK, NEW c \in Client, ScanStep(c)
    PROVE  \E r \in ScanOp : op' = [op EXCEPT ![c] = r]
<1>1. op[c].kind = "scan"
  BY DEF ScanStep, Load, LoadFails, Deliver, Cancel
<1>2. \A todo, offer, got, must \in SUBSET Block, cancelled \in BOOLEAN :
         ScanAt(todo, offer, got, cancelled, must) \in ScanOp
  BY DEF ScanAt, ScanOp
<1>3. /\ op[c].todo \subseteq Block /\ op[c].offer \subseteq Block /\ op[c].got \subseteq Block
      /\ op[c].must \subseteq Block /\ op[c].cancelled \in BOOLEAN
  BY <1>1, ScanRecords DEF ScanOp
<1>4. ASSUME NEW b \in Block, Load(c, b) PROVE \E r \in ScanOp : op' = [op EXCEPT ![c] = r]
  <2>1. (IF mem[b] = Data THEN {b} ELSE {}) \in SUBSET Block
    OBVIOUS
  <2> QED
    BY <1>1, <1>2, <1>3, <1>4, <2>1, ScanRecords
<1>5. ASSUME NEW b \in Block, LoadFails(c, b) PROVE \E r \in ScanOp : op' = [op EXCEPT ![c] = r]
  BY <1>1, <1>2, <1>3, <1>5, ScanRecords
<1>6. ASSUME Deliver(c) PROVE \E r \in ScanOp : op' = [op EXCEPT ![c] = r]
  BY <1>1, <1>2, <1>3, <1>6, ScanRecords
<1>7. ASSUME Cancel(c) PROVE \E r \in ScanOp : op' = [op EXCEPT ![c] = r]
  BY <1>1, <1>2, <1>3, <1>7, ScanRecords
<1> QED
  BY <1>4, <1>5, <1>6, <1>7 DEF ScanStep

\* Types are kept by every step, whatever else holds.
LEMMA TypeStep == TypeOK /\ [Next]_vars => TypeOK'
<1> SUFFICES ASSUME TypeOK, [Next]_vars PROVE TypeOK'
  OBVIOUS
<1>1. CASE Run \/ RootStops \/ CloseBegins \/ CloseUnopened \/ CloseStep \/ Crash \/ GcTick \/ GcStep
  BY <1>1 DEF Run, RootStops, CloseBegins, CloseUnopened, CloseStep, GcJoined, CloseReturns, Crash,
     GcTick, GcStep, GcRewrite, GcReturns, GcPassEnds, GcExits, TypeOK
<1>2. ASSUME NEW c \in Client, NEW slots \in SUBSET Slot, NEW val \in Value, Begin(c, slots, val)
      PROVE  TypeOK'
  <2>1. op' \in [Client -> {Idle} \cup WriteOp \cup ScanOp]
    <3> SUFFICES ASSUME NEW d \in Client
                 PROVE  (IF d = c THEN Write(slots, val)
                         ELSE IF op[d].kind = "scan" THEN [op[d] EXCEPT !.must = @ \ slots]
                         ELSE op[d]) \in {Idle} \cup WriteOp \cup ScanOp
      BY <1>2 DEF Begin
    <3>1. Write(slots, val) \in WriteOp
      BY DEF Write, WriteOp
    <3>2. op[d].kind = "scan" => [op[d] EXCEPT !.must = @ \ slots] \in ScanOp
      BY Kinds DEF ScanOp
    <3> QED
      BY <3>1, <3>2 DEF TypeOK
  <2>2. promise' \in [Slot -> Value \cup {Unknown}] /\ mixed' \subseteq Slot
    BY <1>2 DEF Begin, TypeOK
  <2> QED
    BY <1>2, <2>1, <2>2 DEF Begin, TypeOK
<1>3. ASSUME NEW c \in Client, Commit(c) PROVE TypeOK'
  <2>1. PICK part \in SUBSET op[c].todo :
           /\ mem' = [s \in Slot |-> IF s \in part THEN op[c].val ELSE mem[s]]
           /\ disk' = [s \in Slot |-> IF s \in part THEN op[c].val ELSE disk[s]]
           /\ op' = [op EXCEPT ![c].todo = @ \ part]
    BY <1>3 DEF Commit
  <2>2. op[c] \in WriteOp
    BY <1>3, Kinds DEF Commit
  <2>3. [op[c] EXCEPT !.todo = @ \ part] \in WriteOp
    BY <2>2 DEF WriteOp
  <2>4. op' \in [Client -> {Idle} \cup WriteOp \cup ScanOp]
    BY <2>1, <2>3 DEF TypeOK
  <2>5. mem' \in [Slot -> Value] /\ disk' \in [Slot -> Value]
    BY <2>1, <2>2 DEF TypeOK, WriteOp
  <2> QED
    BY <1>3, <2>4, <2>5 DEF Commit, TypeOK
<1>4. ASSUME NEW c \in Client, Ack(c) PROVE TypeOK'
  BY <1>4, Kinds DEF Ack, TypeOK, WriteOp
<1>5. ASSUME NEW c \in Client, WriteFails(c) \/ ScanEnds(c) PROVE TypeOK'
  BY <1>5 DEF WriteFails, ScanEnds, TypeOK
<1>6. ASSUME NEW c \in Client, GetMany(c) PROVE TypeOK'
  <2>1. \A ks \in SUBSET Block : Scan(ks) \in ScanOp
    BY DEF Scan, ScanOp
  <2> QED
    BY <1>6, <2>1 DEF GetMany, TypeOK
<1>7. ASSUME NEW c \in Client, ScanStep(c) PROVE TypeOK'
  <2>1. UNCHANGED <<life, mem, disk, gc, gcStop, promise, mixed>>
    BY <1>7 DEF ScanStep, Load, LoadFails, Deliver, Cancel
  <2> QED
    BY <1>7, <2>1, ScanRecord DEF TypeOK
<1>8. CASE UNCHANGED vars
  BY <1>8 DEF vars, TypeOK
<1>9. ASSUME NEW c \in Client, Call(c) PROVE TypeOK'
  BY <1>2, <1>6, <1>9 DEF Call, Add, DeleteMany, Delete, IndexPut, IndexDelete, Slot, Value
<1> QED
  BY <1>1, <1>3, <1>4, <1>5, <1>7, <1>8, <1>9 DEF Next, WriteStep

\* The steps of the store's life touch no call, except that a crash ends them all.
LifeStep == \/ Run \/ RootStops \/ CloseBegins \/ CloseUnopened \/ CloseStep
            \/ GcTick \/ GcStep \/ UNCHANGED vars

LEMMA LifeChanges ==
    LifeStep => UNCHANGED <<mem, disk, op, promise, mixed>>
  BY DEF LifeStep, Run, RootStops, CloseBegins, CloseUnopened, CloseStep, GcJoined, CloseReturns,
     GcTick, GcStep, GcRewrite, GcReturns, GcPassEnds, GcExits, vars

LEMMA GcInvStep == TypeOK /\ GcInv /\ [Next]_vars => GcInv'
<1> SUFFICES ASSUME TypeOK, GcInv, [Next]_vars PROVE GcInv'
  OBVIOUS
<1>1. CASE LifeStep \/ Crash
  BY <1>1 DEF LifeStep, Crash, Run, RootStops, CloseBegins, CloseUnopened, CloseStep, GcJoined, CloseReturns,
     GcTick, GcStep, GcRewrite, GcReturns, GcPassEnds, GcExits, vars, GcInv, TypeOK
<1>2. ASSUME NEW c \in Client, Call(c) \/ WriteStep(c) \/ ScanStep(c) \/ ScanEnds(c) PROVE UNCHANGED <<life, gc>>
  BY <1>2 DEF Call, Add, DeleteMany, Delete, IndexPut, IndexDelete, Begin, GetMany, WriteStep, Commit,
     Ack, WriteFails, ScanStep, Load, LoadFails, Deliver, Cancel, ScanEnds
<1> QED
  BY <1>1, <1>2 DEF Next, LifeStep, GcInv

\* A transaction reaches memory and disk together.
LEMMA SyncInvStep == SyncInv /\ [Next]_vars => SyncInv'
<1> SUFFICES ASSUME SyncInv, [Next]_vars PROVE SyncInv'
  OBVIOUS
<1> USE DEF SyncInv
<1>1. CASE LifeStep
  BY <1>1, LifeChanges
<1>2. CASE Crash
  BY <1>2 DEF Crash
<1>3. ASSUME NEW c \in Client, Commit(c) PROVE SyncInv'
  BY <1>3 DEF Commit
<1>4. ASSUME NEW c \in Client, Call(c) \/ Ack(c) \/ WriteFails(c) \/ ScanStep(c) \/ ScanEnds(c) PROVE SyncInv'
  BY <1>4 DEF Call, Add, DeleteMany, Delete, IndexPut, IndexDelete, Begin, GetMany,
     Ack, WriteFails, ScanStep, Load, LoadFails, Deliver, Cancel, ScanEnds
<1> QED
  BY <1>1, <1>2, <1>3, <1>4 DEF Next, LifeStep, WriteStep

\* A scan's step leaves every write, and all that is stored and promised, alone.
LEMMA ScanChanges ==
    ASSUME TypeOK, NEW c \in Client, GetMany(c) \/ ScanStep(c) \/ ScanEnds(c)
    PROVE  /\ UNCHANGED <<life, mem, disk, promise, mixed>>
           /\ \A d \in Client : d # c => op'[d] = op[d]
           /\ op[c].kind # "write" /\ op'[c].kind # "write"
<1>1. CASE GetMany(c)
  BY <1>1 DEF GetMany, Scan, Idle, TypeOK
<1>2. CASE ScanEnds(c)
  BY <1>2 DEF ScanEnds, Idle, TypeOK
<1>3. CASE ScanStep(c)
  <2>1. UNCHANGED <<life, mem, disk, promise, mixed>> /\ op[c].kind = "scan"
    BY <1>3 DEF ScanStep, Load, LoadFails, Deliver, Cancel
  <2> QED
    BY <1>3, <2>1, ScanRecord DEF TypeOK, ScanOp
<1> QED
  BY <1>1, <1>2, <1>3

\* What Begin does to each call.
Began(c, slots, val) ==
    /\ op[c] = Idle /\ op'[c] = Write(slots, val)
    /\ \A d \in Client : d # c /\ op[d].kind # "scan" => op'[d] = op[d]
    /\ \A d \in Client : op[d].kind = "scan" =>
          /\ d # c
          /\ op'[d] = ScanAt(op[d].todo, op[d].offer, op[d].got, op[d].cancelled, op[d].must \ slots)

LEMMA BeginChanges ==
    ASSUME TypeOK, NEW c \in Client, NEW slots \in SUBSET Slot, NEW val \in Value, Begin(c, slots, val)
    PROVE  Began(c, slots, val)
<1>1. /\ UNCHANGED <<life, mem, disk>> /\ op[c] = Idle
      /\ op' = [d \in Client |->
                   IF d = c THEN Write(slots, val)
                   ELSE IF op[d].kind = "scan" THEN [op[d] EXCEPT !.must = @ \ slots]
                   ELSE op[d]]
  BY DEF Begin
<1>2. ASSUME NEW d \in Client, op[d].kind = "scan"
      PROVE  /\ d # c
             /\ op'[d] = ScanAt(op[d].todo, op[d].offer, op[d].got, op[d].cancelled, op[d].must \ slots)
  <2>1. d # c
    BY <1>1, <1>2 DEF Idle
  <2>2. op'[d] = [op[d] EXCEPT !.must = op[d].must \ slots]
    BY <1>1, <1>2, <2>1, Zenon
  <2>3. op[d] \in ScanOp
    BY <1>2, Kinds
  <2>4. op[d].must \ slots \in SUBSET Block
    BY <2>3 DEF ScanOp
  <2> QED
    BY <2>1, <2>2, <2>3, <2>4, ScanForgets, Zenon
<1>3. op'[c] = Write(slots, val)
  BY <1>1, Zenon
<1>4. \A d \in Client : d # c /\ op[d].kind # "scan" => op'[d] = op[d]
  BY <1>1, Zenon
<1> QED
  BY <1>1, <1>2, <1>3, <1>4 DEF Began

\* And what the steps of a write do.
Committed(c, part) ==
    /\ UNCHANGED <<promise, mixed>>
    /\ op[c].kind = "write" /\ op[c] \in WriteOp
    /\ op'[c] = [kind |-> "write", on |-> op[c].on, todo |-> op[c].todo \ part, val |-> op[c].val]
    /\ \A d \in Client : d # c => op'[d] = op[d]
    /\ \A s \in Slot : /\ disk'[s] = IF s \in part THEN op[c].val ELSE disk[s]
                       /\ mem'[s] = IF s \in part THEN op[c].val ELSE mem[s]

LEMMA CommitChanges ==
    ASSUME TypeOK, NEW c \in Client, Commit(c)
    PROVE  \E part \in SUBSET op[c].todo : Committed(c, part)
<1>1. PICK part \in SUBSET op[c].todo :
         /\ mem' = [s \in Slot |-> IF s \in part THEN op[c].val ELSE mem[s]]
         /\ disk' = [s \in Slot |-> IF s \in part THEN op[c].val ELSE disk[s]]
         /\ op' = [op EXCEPT ![c].todo = @ \ part]
  BY DEF Commit
<1>2. op[c] \in WriteOp
  BY Kinds DEF Commit
<1>3. op'[c] = [kind |-> "write", on |-> op[c].on, todo |-> op[c].todo \ part, val |-> op[c].val]
  BY <1>1, <1>2 DEF WriteOp, TypeOK
<1>4. \A d \in Client : d # c => op'[d] = op[d]
  BY <1>1, <1>2 DEF TypeOK
<1> QED
  BY <1>1, <1>2, <1>3, <1>4 DEF Commit, Committed

LEMMA WriteEnds ==
    ASSUME TypeOK, NEW c \in Client, Ack(c) \/ WriteFails(c)
    PROVE  /\ UNCHANGED <<life, mem, disk, mixed>>
           /\ op[c].kind = "write" /\ op'[c] = Idle
           /\ \A d \in Client : d # c => op'[d] = op[d]
           /\ \A s \in Slot : \/ promise'[s] = promise[s]
                              \/ /\ s \in op[c].on \ mixed /\ op[c].todo = {}
                                 /\ promise'[s] = op[c].val
  BY DEF Ack, WriteFails, TypeOK

LEMMA WriteInvStep == TypeOK /\ WriteInv /\ [Next]_vars => WriteInv'
<1> SUFFICES ASSUME TypeOK, WriteInv, [Next]_vars PROVE WriteInv'
  OBVIOUS
<1> USE DEF WriteInv
<1>1. CASE LifeStep
  BY <1>1, LifeChanges
<1>2. CASE Crash
  BY <1>2 DEF Crash, Idle
<1>3. ASSUME NEW c \in Client, GetMany(c) \/ ScanStep(c) \/ ScanEnds(c) PROVE WriteInv'
  BY <1>3, ScanChanges
<1>4. ASSUME NEW c \in Client, Commit(c) PROVE WriteInv'
  <2>1. PICK part \in SUBSET op[c].todo : Committed(c, part)
    BY <1>4, CommitChanges
  <2>2. /\ op'[c].kind = "write" /\ op'[c].on = op[c].on /\ op'[c].val = op[c].val
        /\ op'[c].todo = op[c].todo \ part
    BY <2>1 DEF Committed
  <2>3. \A d \in Client : op[d].kind = "write" => op[d].on \subseteq Slot
    BY Kinds DEF WriteOp
  <2> QED
    BY <2>1, <2>2, <2>3 DEF Committed
<1>5. ASSUME NEW c \in Client, Ack(c) \/ WriteFails(c) PROVE WriteInv'
  <2>1. \A d \in Client : op[d].kind = "write" => op[d].on \subseteq Slot
    BY Kinds DEF WriteOp
  <2>2. op'[c].kind # "write"
    BY <1>5, WriteEnds DEF Idle
  <2> QED
    BY <1>5, <2>1, <2>2, WriteEnds
<1>6. ASSUME NEW c \in Client, NEW slots \in SUBSET Slot, NEW val \in Value, Begin(c, slots, val)
      PROVE  WriteInv'
  <2>0. Began(c, slots, val)
    BY <1>6, BeginChanges
  <2>1. /\ op'[c].kind = "write" /\ op'[c].on = slots /\ op'[c].todo = slots
        /\ op[c].kind # "write"
    BY <2>0 DEF Began, Write, Idle
  <2>2. ASSUME NEW d \in Client \ {c}, op'[d].kind = "write"
        PROVE  op'[d] = op[d] /\ op[d].kind = "write"
    <3>1. CASE op[d].kind = "scan"
      <4>1. op'[d] = ScanAt(op[d].todo, op[d].offer, op[d].got, op[d].cancelled, op[d].must \ slots)
        BY <2>0, <3>1 DEF Began
      <4> QED
        BY <2>2, <4>1 DEF ScanAt
    <3> QED
      BY <2>0, <2>2, <3>1 DEF Began
  <2>4. /\ \A s \in Slot : s \in slots => promise'[s] = Unknown
        /\ \A s \in Slot : s \notin slots => promise'[s] = promise[s]
        /\ mixed' = {s \in mixed : s \notin slots \/ Writers(s) # {}} \cup {s \in slots : Writers(s) # {}}
        /\ disk' = disk
    BY <1>6 DEF Begin
  <2>5. \A d \in Client : op[d].kind = "write" => op[d].on \subseteq Slot
    BY Kinds DEF WriteOp
  <2>6. \A d \in Client : op[d].kind = "write" =>
            /\ op[d].on \cap slots \subseteq mixed'
            /\ op[d].on \cap mixed \subseteq mixed'
    BY <2>4, <2>5 DEF Writers
  <2> QED
    BY <2>1, <2>2, <2>4, <2>5, <2>6
<1>7. ASSUME NEW c \in Client, Call(c) PROVE WriteInv'
  BY <1>3, <1>6, <1>7 DEF Call, Add, DeleteMany, Delete, IndexPut, IndexDelete, Slot, Value
<1> QED
  BY <1>1, <1>2, <1>3, <1>4, <1>5, <1>7 DEF Next, WriteStep, LifeStep

LEMMA ScanInvStep == TypeOK /\ SyncInv /\ WriteInv /\ ScanInv /\ Durable /\ [Next]_vars => ScanInv'
<1> SUFFICES ASSUME TypeOK, SyncInv, WriteInv, ScanInv, Durable, [Next]_vars PROVE ScanInv'
  OBVIOUS
<1> USE DEF ScanInv
<1>1. CASE LifeStep
  BY <1>1, LifeChanges
<1>2. CASE Crash
  BY <1>2 DEF Crash, Idle
<1>3. ASSUME NEW c \in Client, Commit(c) PROVE ScanInv'
  <2>1. PICK part \in SUBSET op[c].todo : Committed(c, part)
    BY <1>3, CommitChanges
  <2>2. op'[c].kind = "write"
    BY <2>1 DEF Committed
  <2> QED
    BY <2>1, <2>2 DEF Committed
<1>4. ASSUME NEW c \in Client, Ack(c) \/ WriteFails(c) PROVE ScanInv'
  <2>1. \A d \in Client : op[d].kind = "scan" => op[d].must \subseteq Slot
    BY Kinds DEF ScanOp, Slot
  <2>2. \A s \in op[c].on : promise[s] = Unknown
    BY <1>4, WriteEnds DEF WriteInv
  <2>3. \A s \in Slot : promise[s] = Data => promise'[s] = Data
    BY <1>4, <2>2, WriteEnds DEF Data, Unknown
  <2>4. op'[c].kind # "scan" /\ \A d \in Client : d # c => op'[d] = op[d]
    BY <1>4, WriteEnds DEF Idle
  <2> QED
    BY <2>1, <2>3, <2>4
<1>5. ASSUME NEW c \in Client, NEW slots \in SUBSET Slot, NEW val \in Value, Begin(c, slots, val)
      PROVE  ScanInv'
  <2>0. Began(c, slots, val)
    BY <1>5, BeginChanges
  <2>1. op'[c].kind # "scan"
    BY <2>0 DEF Began, Write
  <2>2. ASSUME NEW d \in Client \ {c}, op'[d].kind = "scan"
        PROVE  /\ op[d].kind = "scan" /\ op[d].must \subseteq Slot
               /\ op'[d].must = op[d].must \ slots /\ op'[d].cancelled = op[d].cancelled
               /\ op'[d].todo = op[d].todo /\ op'[d].offer = op[d].offer /\ op'[d].got = op[d].got
    <3>1. op[d].kind = "scan"
      BY <2>0, <2>2 DEF Began
    <3>2. op'[d] = ScanAt(op[d].todo, op[d].offer, op[d].got, op[d].cancelled, op[d].must \ slots)
      BY <2>0, <3>1 DEF Began
    <3>3. op[d].must \subseteq Slot
      BY <3>1, Kinds DEF ScanOp, Slot
    <3> QED
      BY <3>1, <3>2, <3>3 DEF ScanAt
  <2>3. \A s \in Slot \ slots : promise'[s] = promise[s]
    BY <1>5 DEF Begin
  <2> QED
    BY <2>1, <2>2, <2>3
<1>6. ASSUME NEW c \in Client, GetMany(c) PROVE ScanInv'
  <2>1. PICK ks \in SUBSET Block : op' = [op EXCEPT ![c] = Scan(ks)]
    BY <1>6 DEF GetMany
  <2> QED
    BY <1>6, <2>1 DEF GetMany, Scan, TypeOK
<1>7. ASSUME NEW c \in Client, ScanStep(c) PROVE ScanInv'
  <2>1. UNCHANGED <<life, mem, disk, promise, mixed>> /\ op[c].kind = "scan"
    BY <1>7 DEF ScanStep, Load, LoadFails, Deliver, Cancel
  <2>2. op[c] \in ScanOp /\ op[c].must \subseteq Slot
    BY <2>1, Kinds DEF ScanOp, Slot
  <2>3. ASSUME NEW b \in Block, Load(c, b) PROVE ScanInv'
    <3>1. op' = [op EXCEPT ![c] = ScanAt(op[c].todo \ {b}, IF mem[b] = Data THEN {b} ELSE {},
                                         op[c].got, op[c].cancelled, op[c].must)]
      BY <2>1, <2>3, ScanRecords
    <3>2. b \in op[c].must => mem[b] = Data
      BY <2>1, <2>3 DEF Load, Durable, SyncInv, Data, Unknown, Slot
    <3>3. op[c].offer = {}
      BY <2>3 DEF Load
    <3> QED
      BY <2>1, <3>1, <3>2, <3>3 DEF ScanAt, TypeOK
  <2>4. ASSUME NEW b \in Block, LoadFails(c, b) PROVE ScanInv'
    BY <2>1, <2>4, ScanRecords DEF ScanAt, TypeOK
  <2>5. ASSUME Deliver(c) \/ Cancel(c) PROVE ScanInv'
    BY <2>1, <2>5, ScanRecords DEF ScanAt, TypeOK
  <2> QED
    BY <1>7, <2>3, <2>4, <2>5 DEF ScanStep
<1>8. ASSUME NEW c \in Client, ScanEnds(c) PROVE ScanInv'
  BY <1>8 DEF ScanEnds, Idle, TypeOK
<1>9. ASSUME NEW c \in Client, Call(c) PROVE ScanInv'
  BY <1>5, <1>6, <1>9 DEF Call, Add, DeleteMany, Delete, IndexPut, IndexDelete, Slot, Value
<1> QED
  BY <1>1, <1>2, <1>3, <1>4, <1>7, <1>8, <1>9 DEF Next, WriteStep, LifeStep

LEMMA DurableStep == TypeOK /\ SyncInv /\ WriteInv /\ Durable /\ [Next]_vars => Durable'
<1> SUFFICES ASSUME TypeOK, SyncInv, WriteInv, Durable, [Next]_vars PROVE Durable'
  OBVIOUS
<1> USE DEF Durable, SyncInv
<1>1. CASE LifeStep
  BY <1>1, LifeChanges
<1>2. CASE Crash
  BY <1>2 DEF Crash
<1>3. ASSUME NEW c \in Client, Commit(c) PROVE Durable'
  <2>1. PICK part \in SUBSET op[c].todo : Committed(c, part)
    BY <1>3, CommitChanges
  <2>2. \A s \in part : promise[s] = Unknown
    BY <2>1 DEF Committed, WriteInv
  <2> QED
    BY <2>1, <2>2 DEF Committed
<1>4. ASSUME NEW c \in Client, Ack(c) \/ WriteFails(c) PROVE Durable'
  BY <1>4, WriteEnds DEF WriteInv
<1>5. ASSUME NEW c \in Client, NEW slots \in SUBSET Slot, NEW val \in Value, Begin(c, slots, val)
      PROVE  Durable'
  BY <1>5 DEF Begin
<1>6. ASSUME NEW c \in Client, GetMany(c) \/ ScanStep(c) \/ ScanEnds(c) PROVE Durable'
  BY <1>6, ScanChanges
<1>7. ASSUME NEW c \in Client, Call(c) PROVE Durable'
  BY <1>5, <1>6, <1>7 DEF Call, Add, DeleteMany, Delete, IndexPut, IndexDelete, Slot, Value
<1> QED
  BY <1>1, <1>2, <1>3, <1>4, <1>6, <1>7 DEF Next, WriteStep, LifeStep

-----------------------------------------------------------------------------
(* The theorems                                                              *)

\* Every variable keeps its type.
THEOREM TypeCorrect == Spec => []TypeOK
<1>1. Init => TypeOK
  BY InitInv DEF IInv
<1> QED
  BY <1>1, TypeStep, PTL DEF Spec

\* IInv holds in every reachable state.
THEOREM Invariance == Spec => []IInv
<1>1. IInv /\ [Next]_vars => IInv'
  BY TypeStep, SyncInvStep, GcInvStep, WriteInvStep, ScanInvStep, DurableStep DEF IInv
<1> QED
  BY <1>1, InitInv, PTL DEF Spec

\* Durable: what a caller may rely on is on disk and visible, at every moment,
\* whatever else is being written, and through every crash.
THEOREM AcknowledgedIsDurable == Spec => []Durable
<1>1. IInv => Durable
  BY DEF IInv
<1> QED
  BY <1>1, Invariance, PTL

\* GcOnOpenDatabase: no GC pass runs on a closed database, as Close joins it.
THEOREM GcIsJoined == Spec => []GcOnOpenDatabase
<1>1. IInv => GcOnOpenDatabase
  BY DEF IInv, GcInv, GcOnOpenDatabase
<1> QED
  BY <1>1, Invariance, PTL

\* ScanIsComplete: a scan that ends by itself has delivered all that it owed.
THEOREM ScansAreComplete == Spec => ScanIsComplete
<1>1. IInv /\ [Next]_vars =>
        [\A c \in Client :
          op[c].kind = "scan" /\ op'[c] = Idle /\ ~op[c].cancelled /\ life' # "down" =>
              op[c].must \subseteq op[c].got]_vars
  <2> SUFFICES ASSUME TypeOK, ScanInv, Next, NEW c \in Client,
                      op[c].kind = "scan", op'[c] = Idle, ~op[c].cancelled, life' # "down"
               PROVE  op[c].must \subseteq op[c].got
    BY DEF IInv
  <2>1. op[c] # Idle
    BY DEF Idle
  <2>2. ASSUME NEW d \in Client, ScanEnds(d) PROVE d = c
    BY <2>1, <2>2 DEF ScanEnds, TypeOK
  <2>3. ASSUME NEW d \in Client, WriteStep(d) PROVE FALSE
    <3>1. op[d].kind = "write" /\ \A e \in Client : e # d => op'[e] = op[e]
      BY <2>3, WriteEnds, CommitChanges DEF WriteStep, Committed
    <3> QED
      BY <2>1, <3>1
  <2>4. ASSUME NEW d \in Client, NEW slots \in SUBSET Slot, NEW val \in Value, Begin(d, slots, val)
        PROVE  FALSE
    <3>1. op'[c] = ScanAt(op[c].todo, op[c].offer, op[c].got, op[c].cancelled, op[c].must \ slots)
      BY <2>4, BeginChanges DEF Began
    <3> QED
      BY <3>1 DEF ScanAt, Idle
  <2>5. ASSUME NEW d \in Client, ScanStep(d) PROVE FALSE
    BY <2>1, <2>5, ScanRecord DEF TypeOK, ScanOp, Idle
  <2>6. ASSUME NEW d \in Client, GetMany(d) PROVE FALSE
    BY <2>1, <2>6 DEF GetMany, TypeOK
  <2>7. ASSUME NEW d \in Client, Call(d) PROVE FALSE
    BY <2>4, <2>6, <2>7 DEF Call, Add, DeleteMany, Delete, IndexPut, IndexDelete, Slot, Value
  <2>8. ~LifeStep
    BY <2>1, LifeChanges
  <2>9. ~Crash
    BY DEF Crash
  <2>10. ScanEnds(c)
    BY <2>2, <2>3, <2>5, <2>7, <2>8, <2>9 DEF Next, LifeStep
  <2> QED
    BY <2>10 DEF ScanEnds, ScanInv
<1> QED
  BY <1>1, Invariance, PTL DEF Spec, ScanIsComplete

-----------------------------------------------------------------------------
(* The refinement of BlockStore                                              *)

\* A call as its caller sees it, one client at a time.
LEMMA CallShapes ==
    ASSUME TypeOK, NEW c \in Client
    PROVE  /\ op[c].kind = "scan" =>
                 calls[c] = [kind |-> "scan", todo |-> op[c].todo, found |-> op[c].offer \cup op[c].got]
           /\ op[c].kind # "scan" => calls[c] = op[c]
  BY DEF calls

LEMMA RefineInit == Init => Contract!Init
<1> SUFFICES ASSUME Init PROVE Contract!Init
  OBVIOUS
<1>1. visible = [s \in Slot |-> Absent] /\ promise = visible
  BY DEF Init, visible
<1>2. calls = [c \in Client |-> Contract!None]
  BY DEF Init, calls, Idle, Contract!None
<1> QED
  BY <1>1, <1>2 DEF Contract!Init

\* A call of the store is a call of the contract.
LEMMA RefineBegin ==
    ASSUME IInv, IInv', NEW c \in Client, NEW slots \in SUBSET Slot, NEW val \in Value, Begin(c, slots, val)
    PROVE  Contract!BeginWrite(c)
<1>1. TypeOK /\ TypeOK'
  BY DEF IInv
<1>2. Began(c, slots, val)
  BY <1>1, BeginChanges
<1>3. calls[c] = Contract!None
  BY <1>2 DEF Began, calls, Idle, Contract!None
<1>4. calls'[c] = Contract!Writing(slots, val)
  BY <1>1, <1>2 DEF Began, calls, Write, Contract!Writing
<1>5. \A d \in Client : d # c => calls'[d] = calls[d]
  <2> SUFFICES ASSUME NEW d \in Client, d # c PROVE calls'[d] = calls[d]
    OBVIOUS
  <2>1. CASE op[d].kind = "scan"
    <3>1. op'[d] = ScanAt(op[d].todo, op[d].offer, op[d].got, op[d].cancelled, op[d].must \ slots)
      BY <1>2, <2>1 DEF Began
    <3>2. /\ op'[d].kind = "scan" /\ op'[d].todo = op[d].todo
          /\ op'[d].offer = op[d].offer /\ op'[d].got = op[d].got
      BY <3>1 DEF ScanAt
    <3> QED
      BY <2>1, <3>2 DEF calls
  <2>2. CASE op[d].kind # "scan"
    BY <1>2, <2>2 DEF Began, calls
  <2> QED
    BY <2>1, <2>2
<1>6. calls' = [calls EXCEPT ![c] = Contract!Writing(slots, val)]
  BY <1>4, <1>5 DEF calls
<1>7. promise' = [s \in Slot |-> IF s \in slots THEN Unknown ELSE promise[s]]
  BY DEF Begin
<1>8. visible' = visible
  BY <1>1 DEF IInv, SyncInv, Begin, visible
<1> QED
  BY <1>3, <1>6, <1>7, <1>8 DEF Contract!BeginWrite

LEMMA RefineCommit ==
    ASSUME IInv, IInv', NEW c \in Client, Commit(c)
    PROVE  Contract!Apply(c)
<1>1. TypeOK
  BY DEF IInv
<1>2. PICK part \in SUBSET op[c].todo :
         /\ mem' = [s \in Slot |-> IF s \in part THEN op[c].val ELSE mem[s]]
         /\ op' = [op EXCEPT ![c].todo = @ \ part]
  BY DEF Commit
<1>3. op[c].kind = "write" /\ op[c] \in WriteOp /\ promise' = promise
  BY <1>1, Kinds DEF Commit
<1>4. calls[c] = op[c]
  BY <1>1, <1>3, CallShapes
<1>5. [op[c] EXCEPT !.todo = op[c].todo \ part] \in WriteOp
  BY <1>3, Zenon DEF WriteOp
<1>6. op' = [op EXCEPT ![c] = [op[c] EXCEPT !.todo = op[c].todo \ part]]
  BY <1>2
<1>7. calls' = [calls EXCEPT ![c] = [op[c] EXCEPT !.todo = op[c].todo \ part]]
  <2> DEFINE r == [op[c] EXCEPT !.todo = op[c].todo \ part]
  <2>1. r \in WriteOp
    BY <1>5
  <2>2. op' = [op EXCEPT ![c] = r]
    BY <1>6
  <2> HIDE DEF r
  <2>3. r.kind = "write"
    BY <2>1 DEF WriteOp
  <2>4. calls' = [calls EXCEPT ![c] = r]
    BY <1>1, <2>2, <2>3 DEF calls, TypeOK
  <2> QED
    BY <2>4 DEF r
<1>8. calls' = [calls EXCEPT ![c].todo = @ \ part]
  BY <1>4, <1>7, Zenon
<1>9. visible = mem /\ visible' = mem'
  BY DEF IInv, SyncInv, visible
<1>10. visible' = [s \in Slot |-> IF s \in part THEN calls[c].val ELSE visible[s]]
  BY <1>2, <1>4, <1>9
<1>11. calls[c].kind = "write" /\ part \in SUBSET calls[c].todo
  BY <1>3, <1>4
<1> QED
  BY <1>3, <1>8, <1>10, <1>11, Zenon DEF Contract!Apply

\* A call that ends, whichever it is.
LEMMA CallEnds ==
    ASSUME TypeOK, NEW c \in Client, op' = [op EXCEPT ![c] = Idle]
    PROVE  calls' = [calls EXCEPT ![c] = Contract!None]
  BY DEF calls, TypeOK, Idle, Contract!None

LEMMA RefineAck ==
    ASSUME IInv, IInv', NEW c \in Client, Ack(c)
    PROVE  Contract!Return(c)
<1>1. TypeOK /\ WriteInv
  BY DEF IInv
<1>2. op[c].kind = "write" /\ op[c].todo = {} /\ op[c] \in WriteOp
  BY <1>1, Kinds DEF Ack
<1>3. calls[c] = op[c]
  BY <1>1, <1>2, CallShapes
<1>4. calls' = [calls EXCEPT ![c] = Contract!None]
  BY <1>1, CallEnds DEF Ack
<1>5. visible = mem /\ visible' = visible /\ mem = disk
  BY DEF IInv, SyncInv, Ack, visible
<1> DEFINE sure == op[c].on \ mixed
<1>6. ASSUME NEW s \in sure PROVE Contract!Alone(c, s) /\ visible[s] = calls[c].val
  <2>1. visible[s] = calls[c].val
    BY <1>1, <1>2, <1>3, <1>5, <1>6 DEF WriteInv
  <2>2. ASSUME NEW d \in Client \ {c}, calls[d].kind = "write" PROVE s \notin calls[d].on
    <3>1. op[d].kind = "write" /\ calls[d] = op[d]
      BY <1>1, <2>2 DEF calls
    <3> QED
      BY <1>1, <1>2, <1>6, <3>1 DEF WriteInv
  <2> QED
    BY <2>1, <2>2 DEF Contract!Alone
<1>7. promise' = [s \in Slot |-> IF s \in sure THEN calls[c].val ELSE promise[s]]
  BY <1>3 DEF Ack
<1>8. sure \in SUBSET {s \in calls[c].on : Contract!Alone(c, s) /\ visible[s] = calls[c].val}
  BY <1>3, <1>6
<1> HIDE DEF sure
<1> QED
  BY <1>2, <1>3, <1>4, <1>5, <1>7, <1>8 DEF Contract!Return

LEMMA RefineEnd ==
    ASSUME IInv, IInv', NEW c \in Client, WriteFails(c) \/ ScanEnds(c)
    PROVE  Contract!GiveUp(c)
<1>1. calls' = [calls EXCEPT ![c] = Contract!None]
  BY CallEnds DEF IInv, WriteFails, ScanEnds
<1>2. visible' = visible /\ promise' = promise
  BY DEF WriteFails, ScanEnds, visible
<1> QED
  BY <1>1, <1>2 DEF Contract!GiveUp

LEMMA RefineGetMany ==
    ASSUME IInv, IInv', NEW c \in Client, GetMany(c)
    PROVE  Contract!BeginScan(c)
<1>1. PICK ks \in SUBSET Block : op' = [op EXCEPT ![c] = Scan(ks)]
  BY DEF GetMany
<1>2. TypeOK /\ op[c] = Idle /\ UNCHANGED <<visible, promise>>
  BY DEF IInv, GetMany, visible
<1>3. /\ Scan(ks).kind = "scan" /\ Scan(ks).todo = ks /\ Scan(ks).offer = {} /\ Scan(ks).got = {}
  BY DEF Scan
<1>4. calls[c] = Contract!None
  BY <1>2 DEF calls, Idle, Contract!None
<1>5. calls' = [calls EXCEPT ![c] = Contract!Scanning(ks)]
  BY <1>1, <1>2, <1>3 DEF calls, TypeOK, Contract!Scanning
<1>6. ks \in SUBSET Slot
  BY DEF Slot
<1> QED
  BY <1>2, <1>4, <1>5, <1>6 DEF Contract!BeginScan

\* A scan as its caller sees it.
ScanCall == [kind : {"scan"}, todo : SUBSET Block, found : SUBSET Block]

LEMMA ScanCallLooks ==
    ASSUME NEW r \in ScanCall, NEW x \in SUBSET Block, NEW y \in SUBSET Block
    PROVE  [r EXCEPT !.todo = x, !.found = y] = [kind |-> "scan", todo |-> x, found |-> y]
<1> DEFINE n == [r EXCEPT !.todo = x, !.found = y]
<1>1. n \in ScanCall
  BY Zenon DEF ScanCall
<1>2. n.todo = x /\ n.found = y
  BY Zenon DEF ScanCall
<1> HIDE DEF n
<1>3. n = [kind |-> "scan", todo |-> x, found |-> y]
  BY <1>1, <1>2 DEF ScanCall
<1> QED
  BY <1>3 DEF n

LEMMA RefineScanStep ==
    ASSUME IInv, IInv', NEW c \in Client, ScanStep(c)
    PROVE  \/ \E b \in Slot : Contract!Look(c, b)
           \/ UNCHANGED <<visible, calls, promise>>
<1>1. TypeOK /\ UNCHANGED <<visible, promise>>
  BY DEF IInv, ScanStep, Load, LoadFails, Deliver, Cancel, visible
<1>2. op[c].kind = "scan"
  BY DEF ScanStep, Load, LoadFails, Deliver, Cancel
<1>3. op[c] \in ScanOp
  BY <1>1, <1>2, Kinds
<1>4. calls[c] = [kind |-> "scan", todo |-> op[c].todo, found |-> op[c].offer \cup op[c].got]
  BY <1>1, <1>2, CallShapes
<1>5. /\ calls[c] \in ScanCall /\ calls[c].kind = "scan"
      /\ calls[c].todo = op[c].todo /\ calls[c].found = op[c].offer \cup op[c].got
  BY <1>3, <1>4 DEF ScanOp, ScanCall
<1>6. ASSUME NEW todo \in SUBSET Block, NEW offer \in SUBSET Block, NEW got \in SUBSET Block,
             NEW must \in SUBSET Block, NEW x \in BOOLEAN,
             op' = [op EXCEPT ![c] = ScanAt(todo, offer, got, x, must)]
      PROVE  calls' = [calls EXCEPT ![c] = [kind |-> "scan", todo |-> todo, found |-> offer \cup got]]
  BY <1>1, <1>6 DEF calls, ScanAt, TypeOK
<1>7. ASSUME NEW b \in Block, NEW more \in SUBSET {t \in {b} : visible[t] = Data}, b \in op[c].todo,
             calls' = [calls EXCEPT ![c] = [kind |-> "scan", todo |-> op[c].todo \ {b},
                                           found |-> calls[c].found \cup more]]
      PROVE  Contract!Look(c, b)
  <2>1. op[c].todo \ {b} \in SUBSET Block /\ calls[c].found \cup more \in SUBSET Block
    BY <1>3, <1>5 DEF ScanOp
  <2>2. [calls[c] EXCEPT !.todo = op[c].todo \ {b}, !.found = calls[c].found \cup more]
           = [kind |-> "scan", todo |-> op[c].todo \ {b}, found |-> calls[c].found \cup more]
    BY <1>5, <2>1, ScanCallLooks, Zenon
  <2>3. calls' = [calls EXCEPT ![c].todo = @ \ {b}, ![c].found = @ \cup more]
    <3>1. calls' = [calls EXCEPT ![c] = [calls[c] EXCEPT !.todo = calls[c].todo \ {b},
                                                        !.found = calls[c].found \cup more]]
      BY <1>5, <1>7, <2>2, Zenon
    <3>2. DOMAIN calls = Client
      BY DEF calls
    <3> QED
      BY <3>1, <3>2
  <2> QED
    BY <1>1, <1>5, <1>7, <2>3, Zenon DEF Contract!Look
<1>8. ASSUME NEW b \in Block, Load(c, b) PROVE Contract!Look(c, b)
  <2> DEFINE offer == IF mem[b] = Data THEN {b} ELSE {}
  <2>1. op' = [op EXCEPT ![c] = ScanAt(op[c].todo \ {b}, offer, op[c].got, op[c].cancelled, op[c].must)]
    BY <1>1, <1>2, <1>8, ScanRecords
  <2>2. offer \in SUBSET {t \in {b} : visible[t] = Data} /\ offer \in SUBSET Block
    BY <1>1 DEF IInv, SyncInv, visible
  <2>3. op[c].offer = {} /\ b \in op[c].todo
    BY <1>8 DEF Load
  <2> HIDE DEF offer
  <2>4. calls' = [calls EXCEPT ![c] = [kind |-> "scan", todo |-> op[c].todo \ {b},
                                      found |-> offer \cup op[c].got]]
    BY <1>3, <1>6, <2>1, <2>2 DEF ScanOp
  <2>5. offer \cup op[c].got = calls[c].found \cup offer
    BY <1>5, <2>3
  <2> QED
    BY <1>7, <2>2, <2>3, <2>4, <2>5
<1>9. ASSUME NEW b \in Block, LoadFails(c, b) PROVE Contract!Look(c, b)
  <2>1. op' = [op EXCEPT ![c] = ScanAt(op[c].todo \ {b}, op[c].offer, op[c].got, op[c].cancelled,
                                       op[c].must \ {b})]
    BY <1>1, <1>2, <1>9, ScanRecords
  <2>2. calls' = [calls EXCEPT ![c] = [kind |-> "scan", todo |-> op[c].todo \ {b},
                                      found |-> op[c].offer \cup op[c].got]]
    BY <1>3, <1>6, <2>1 DEF ScanOp
  <2>3. op[c].offer \cup op[c].got = calls[c].found \cup {}
    BY <1>5
  <2>4. b \in op[c].todo /\ {} \in SUBSET {t \in {b} : visible[t] = Data}
    BY <1>9 DEF LoadFails
  <2>5. calls' = [calls EXCEPT ![c] = [kind |-> "scan", todo |-> op[c].todo \ {b},
                                      found |-> calls[c].found \cup {}]]
    BY <2>2, <2>3, Zenon
  <2> QED
    BY <1>7, <2>4, <2>5
<1>10. ASSUME Deliver(c) PROVE calls' = calls
  <2>1. op' = [op EXCEPT ![c] = ScanAt(op[c].todo, {}, op[c].got \cup op[c].offer, op[c].cancelled, op[c].must)]
    BY <1>1, <1>2, <1>10, ScanRecords
  <2>2. calls' = [calls EXCEPT ![c] = [kind |-> "scan", todo |-> op[c].todo,
                                      found |-> {} \cup (op[c].got \cup op[c].offer)]]
    BY <1>3, <1>6, <2>1 DEF ScanOp
  <2> QED
    BY <1>4, <2>2 DEF calls
<1>11. ASSUME Cancel(c) PROVE calls' = calls
  <2>1. op' = [op EXCEPT ![c] = ScanAt(op[c].todo, op[c].offer, op[c].got, TRUE, op[c].must)]
    BY <1>1, <1>2, <1>11, ScanRecords
  <2>2. calls' = [calls EXCEPT ![c] = [kind |-> "scan", todo |-> op[c].todo, found |-> op[c].offer \cup op[c].got]]
    BY <1>3, <1>6, <2>1 DEF ScanOp
  <2> QED
    BY <1>4, <2>2 DEF calls
<1> QED
  BY <1>1, <1>8, <1>9, <1>10, <1>11 DEF ScanStep, Slot

\* Every step is a step of the contract, or one that its callers cannot see.
LEMMA RefineStep == IInv /\ IInv' /\ [Next]_vars => [Contract!Next]_(Contract!svars)
<1> SUFFICES ASSUME IInv, IInv', [Next]_vars PROVE Contract!Next \/ UNCHANGED <<visible, calls, promise>>
  BY DEF Contract!svars
<1>1. CASE LifeStep
  BY <1>1, LifeChanges DEF IInv, SyncInv, visible, calls
<1>2. CASE Crash
  <2>1. calls' = [c \in Client |-> Contract!None]
    BY <1>2 DEF Crash, calls, Idle, Contract!None
  <2>2. UNCHANGED <<visible, promise>>
    BY <1>2 DEF Crash, IInv, SyncInv, visible
  <2> QED
    BY <2>1, <2>2 DEF Contract!Next, Contract!Crash
<1>3. ASSUME NEW c \in Client, WriteStep(c) \/ ScanEnds(c) PROVE Contract!Next
  BY <1>3, RefineCommit, RefineAck, RefineEnd DEF WriteStep, Contract!Next
<1>4. ASSUME NEW c \in Client, ScanStep(c) PROVE Contract!Next \/ UNCHANGED <<visible, calls, promise>>
  BY <1>4, RefineScanStep DEF Contract!Next
<1>5. ASSUME NEW c \in Client, NEW slots \in SUBSET Slot, NEW val \in Value, Begin(c, slots, val)
      PROVE  Contract!Next
  BY <1>5, RefineBegin DEF Contract!Next
<1>6. ASSUME NEW c \in Client, Call(c) PROVE Contract!Next
  <2>1. CASE GetMany(c)
    BY <2>1, RefineGetMany DEF Contract!Next
  <2> QED
    BY <1>5, <1>6, <2>1 DEF Call, Add, DeleteMany, Delete, IndexPut, IndexDelete, Slot, Value
<1> QED
  BY <1>1, <1>2, <1>3, <1>4, <1>6 DEF Next, LifeStep

\* ImplementsStore: split batches, GC, Close, crashes and restarts included, the
\* store is the map of BlockStore.
THEOREM StoreImplemented == Spec => ImplementsStore
<1>1. Init => Contract!Init
  BY RefineInit
<1> QED
  BY <1>1, RefineStep, Invariance, PTL DEF Spec, ImplementsStore, Contract!Spec
=============================================================================
