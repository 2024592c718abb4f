SPECIFICATION Spec
CONSTANTS
    Clis = {c1, c2, c3}
    MaxPids = 6
    MaxCommands = 5
    MaxFaults = 2
    None = None
SYMMETRY Symmetry
INVARIANTS
    TypeOK
    OneServer
    ReadyStaysHealthy
    TrackerIsNamed
CHECK_DEADLOCK FALSE
