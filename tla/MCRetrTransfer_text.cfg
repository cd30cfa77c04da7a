\* Mails of up to four pieces through a buffer of nine characters.
SPECIFICATION Spec
CONSTANTS
    BUFFERSIZE = 9
    MAX_SINGLE_LINE_RESPONSE = 5
    Mails <- TextMails
    MaxPending = 1
INVARIANTS
    TypeOK
    BodyIsStuffed
    NoEarlyEnd
PROPERTIES
    TransferEnds
CHECK_DEADLOCK FALSE
