CONSTANTS
    w1 = w1  w2 = w2  k1 = k1  k2 = k2  k3 = k3
    a = a  b = b  c = c  d = d  e = e  h1 = h1  h2 = h2
    o1 = o1  o2 = o2  o3 = o3  o4 = o4  None = None
    Writers = {w1}
    Keys = {k1, k2}
    Paths = {a, b, c}
    Hashes = {h1, h2}
    Objs = {o1, o2, o3, o4, o5, o6, o7}
    UndoNames = {u1, u2, u3, u4, u5, u6}
    Authorized <- OneGrant
    Ancestors <- Flat
    Batches <- RetryBatches
    InitRows <- TwoInPlace
    SelfMoves = FALSE
    MaxSubmissions = 3
    MaxFaults = 1
    MaxUndoFaults = 1
    MaxCrashes = 1
SPECIFICATION Spec
INVARIANTS
    JournalSound
    DamageIsConfined
    CatalogPathsUnique
CHECK_DEADLOCK FALSE
