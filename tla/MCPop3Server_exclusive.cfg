\* No monitor: the flag is cleared by the close of a session that only said USER.
SPECIFICATION Spec
CONSTANTS
    MAX_CONNECTIONS = 2
    BUFFERSIZE = 3
    MAX_SINGLE_LINE_RESPONSE = 1
    Users = {u1}
    NoUser = NoUser
    Passwords = {p1}
    NoPassword = NoPassword
    Mails = {m1}
    MonitorCommands = {}
    MaxAccepts = 3
    MaxPipeline = 2
    MaxBody = 2
INVARIANTS
    MaildirIsExclusive
CHECK_DEADLOCK FALSE
