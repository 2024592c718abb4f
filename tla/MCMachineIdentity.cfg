SPECIFICATION Spec
CONSTANTS
    Procs = {p1, p2}
    Endpoints = {e1}
    Names = {n1, n2}
    DefaultName = n1
    Folders = {f1}
    MaxIds = 6
    MaxCommands = 4
    MaxFaults = 1
    None = None
INVARIANTS
    TypeOK
    OneIdentity
    RegistrationRemembered
PROPERTIES
    CredentialsKept
    ConfigKeptUnlessOvertaken
    CommandsEnd
CHECK_DEADLOCK FALSE
