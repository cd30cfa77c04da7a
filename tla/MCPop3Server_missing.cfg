\* No monitor: two sessions of one user, the first quits with a deletion.
SPECIFICATION Spec
CONSTANTS
    MAX_CONNECTIONS = 2
    BUFFERSIZE = 3
    MAX_SINGLE_LINE_RESPONSE = 1
    Users = {u1}
    NoUser = NoUser
    Passwords = {p1}
    NoPassword = NoPassword
    Mails = {m1}
    MonitorCommands = {}
    MaxAccepts = 3
    MaxPipeline = 2
    MaxBody = 2
INVARIANTS
    MissingMailIsAnswered
CHECK_DEADLOCK FALSE
