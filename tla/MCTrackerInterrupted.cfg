\* One folder of one file, an edit and its reversal, one fault.
CONSTANTS
    f1 = 1  f2 = 2
    i1 = i1  i2 = i2  i3 = i3
    lf = lf  crlf = crlf  other = other
    None = None
    Folders   = {1}
    Inodes    = {i1}
    Names     = {1}
    Dirs      = {"root"}
    Above     <- Nested
    Versions  = {lf, other}
    Normal    <- LineEnds
    Format    <- Markdown
    InitDisks <- OneFile
    MaxEdits  = 2
    MaxFaults = 1

SPECIFICATION Spec

PROPERTIES
    InterruptedSyncsResolve
