\* Two slots, one user, two passwords, the whole monitor; replies of one or two units in a buffer of four.
SPECIFICATION Spec
CONSTANTS
    MAX_CONNECTIONS = 2
    BUFFERSIZE = 4
    MAX_SINGLE_LINE_RESPONSE = 2
    Users = {u1}
    NoUser = NoUser
    Passwords = {p1, p2}
    NoPassword = NoPassword
    Mails = {m1}
    MonitorCommands = {"AU", "MP", "DU"}
    MaxAccepts = 3
    MaxPipeline = 2
    MaxBody = 5
INVARIANTS
    TypeOK
    FreeSlotsAreClean
    ReadingOwesNothing
    BufferNeverOverflows
    ConcurrentCoversOccupied
PROPERTIES
    SessionOnlyAdvances
CHECK_DEADLOCK FALSE
