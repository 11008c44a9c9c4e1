\* Two callers, two blocks and an index key: enough for a batch that is split,
\* for two writers of one slot and for a scan across a write.
CONSTANTS
    Client = {c1, c2}
    Block = {b1, b2}
    IndexKey = {k}
    IndexValue = {v}
SPECIFICATION Spec
SYMMETRY Symmetry
INVARIANTS
    Durable
    GcOnOpenDatabase
PROPERTIES
    ScanIsComplete
    ImplementsStore
