CONSTANTS
    Machines    = {m1, m2}
    Keys        = {k1, k2, k3, k4}
    Enrollments = {e1, e2}
    Metas       = {p, q}
    Admin       = Admin
    Sessions    = {s1, s2}
    None        = None
    MaxRequests = 4
    MaxFaults   = 1
SYMMETRY Interchangeable
SPECIFICATION Spec
INVARIANTS
    NeverLockedOut
    OneOtherKey
    EnrollmentSingleUse
    CredentialsSound
PROPERTIES
    RetryAccepted
CHECK_DEADLOCK FALSE
