\* Two folders, one edit: a directory that may not be listed is enough.
CONSTANTS
    f1 = 1  f2 = 2
    i1 = i1  i2 = i2  i3 = i3
    lf = lf  crlf = crlf  other = other
    None = None
    Folders   = {1, 2}
    Inodes    = {i1, i2}
    Names     = {1, 2}
    Dirs      = {"root", "sub"}
    Above     <- Nested
    Versions  = {lf, crlf, other}
    Normal    <- LineEnds
    Format    <- Mixed
    InitDisks <- TwoFiles
    MaxEdits  = 1
    MaxFaults = 0

SPECIFICATION Spec

PROPERTIES
    AccessFailuresDeleteNothing
