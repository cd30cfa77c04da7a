\* A mail that leaves no room for the terminator.
SPECIFICATION Spec
CONSTANTS
    BUFFERSIZE = 9
    MAX_SINGLE_LINE_RESPONSE = 5
    Mails <- TextMails
    MaxPending = 1
INVARIANTS
    EndsWithTerminator
CHECK_DEADLOCK FALSE
