\* Five mails counted, any number listed; any order of deletions, resets and interrupted lists.
SPECIFICATION Spec
CONSTANTS
    mailCount = 5
INVARIANTS
    TypeOK
    CountsAgree
    ListIsComplete
CHECK_DEADLOCK FALSE
