\* Up to two lines, cut at any place by recv.
SPECIFICATION Spec
CONSTANTS
    MAXCOMMANDSIZE = 2
    MAXARGSIZE = 1
    MAXCOMMANDLENGTH = 8
    Lines <- AllLines
    MaxLines = 2
    StaleTails <- Stale
INVARIANTS
    TypeOK
    OnlyLastIsOpen
    ParsedUnlessOverread
PROPERTIES
    ParsedOnlyGrows
CHECK_DEADLOCK FALSE
