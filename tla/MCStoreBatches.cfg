CONSTANTS
    w1 = w1  w2 = w2  k1 = k1  k2 = k2  k3 = k3
    a = a  b = b  c = c  d = d  e = e  h1 = h1  h2 = h2
    o1 = o1  o2 = o2  o3 = o3  o4 = o4  None = None
    Writers = {w1, w2}
    Keys = {k1, k2, k3}
    Paths = {a, b, c, d, e}
    Hashes = {h1, h2}
    Objs = {o1, o2, o3, o4, o5}
    UndoNames = {u1, u2, u3, u4}
    Authorized <- TwoGrants
    Ancestors <- BAboveE
    Batches <- PlannedBatches
    InitRows <- PlannedRows
    SelfMoves = FALSE
    MaxSubmissions = 1
    MaxFaults = 1
    MaxUndoFaults = 0
    MaxCrashes = 0
SPECIFICATION Spec
INVARIANTS
    TypeOK
    RollbackRestoresFiles
    JournalEmptyAtRest
PROPERTIES
    ImplementsAtomicBatch
    OnlyOwnPrefix
    RefusesOnlyConflicts
CHECK_DEADLOCK FALSE
