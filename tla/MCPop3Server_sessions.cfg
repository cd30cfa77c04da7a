\* Two slots, two users, two mails: every order of logins, deletions and closes.
SPECIFICATION Spec
CONSTANTS
    MAX_CONNECTIONS = 2
    BUFFERSIZE = 2
    MAX_SINGLE_LINE_RESPONSE = 1
    Users = {u1, u2}
    NoUser = NoUser
    Passwords = {p1}
    NoPassword = NoPassword
    Mails = {m1, m2}
    MonitorCommands = {"AU", "DU"}
    MaxAccepts = 3
    MaxPipeline = 1
    MaxBody = 0
SYMMETRY Symmetry
INVARIANTS
    SessionOwnsCache
    ConnectedHasHolder
PROPERTIES
    MailRemovedOnlyByQuit
    MaildropSpec
CHECK_DEADLOCK FALSE
