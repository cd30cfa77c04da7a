\* Two slots, two connections, two pipelined commands, peers that stop reading, close or reset.
SPECIFICATION LoopSpec
CONSTANTS
    MAX_CONNECTIONS = 2
    BUFFERSIZE = 2
    MAX_SINGLE_LINE_RESPONSE = 1
    Users = {u1}
    NoUser = NoUser
    Passwords = {p1}
    NoPassword = NoPassword
    Mails = {m1}
    MonitorCommands = {}
    MaxAccepts = 2
    MaxPipeline = 2
    MaxBody = 1
INVARIANTS
    LoopTypeOK
    ReadinessIsCurrent
PROPERTIES
    HandlersSpec
    BatchIsAnswered
    QuitCloses
    ResetIsReleased
    SignalIsActedOn
CHECK_DEADLOCK FALSE
