\* Two folders; two edits by the user at any point of the polls, one lost
\* request, answer, process or state file.
CONSTANTS
    f1 = 1  f2 = 2
    i1 = i1  i2 = i2  i3 = i3
    lf = lf  crlf = crlf  other = other
    None = None
    Folders   = {1, 2}
    Inodes    = {i1, i2}
    Names     = {1, 2}
    Dirs      = {"root", "sub"}
    Above     <- Nested
    Versions  = {lf, crlf, other}
    Normal    <- LineEnds
    Format    <- Mixed
    InitDisks <- TwoFiles
    MaxEdits  = 2
    MaxFaults = 1

SPECIFICATION Spec

INVARIANTS
    TypeOK
    StateFileMatchesStore
    SuccessIsCurrent
PROPERTIES
    DeletesOnlyUnlisted
    MirrorsAgain
