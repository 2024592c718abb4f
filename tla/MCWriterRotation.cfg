CONSTANTS
    Keys = {k1, k2}
    Prefixes = {a, b}
    Ancestors <- Disjoint
    Threads = {t1}
    Local = Local
    None = None
SPECIFICATION Spec
INVARIANT ReplacementKeyServed
CHECK_DEADLOCK FALSE
