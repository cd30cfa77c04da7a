\* Three commands, up to two of them in one second, two attempts each.
SPECIFICATION Spec
CONSTANTS
    Users = {u1}
    Passwords = {p1}
    NoPassword = NoPassword
    MAX_RETRY = 2
    MaxCommands = 3
    CommandsPerSecond = 2
INVARIANTS
    TypeOK
    AnswerBelongsToCommand
PROPERTIES
    SendDatagramEnds
CHECK_DEADLOCK FALSE
