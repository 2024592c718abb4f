CONSTANTS
    w1 = w1  u1 = u1  k1 = k1  k2 = k2
    a = a  b = b  h1 = h1  None = None
    Writers = {w1}
    Keys = {k1, k2}
    Paths = {a, b}
    Hashes = {h1}
    Users = {u1}
    UserOf <- OneUser
    Authorized <- OneGrant
    Subtrees = {{a}}
    Batches <- SomeBatches
    MaxSubmissions = 2
    MaxJobs = 2
    MaxFaults = 1
SPECIFICATION Spec
INVARIANTS
    TypeOK
    DeletedStaysDeleted
    TreeMatchesCatalog
PROPERTIES
    LatestWins
    RepeatChangesNothing
    QueueDrains
CHECK_DEADLOCK FALSE
