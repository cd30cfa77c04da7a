\* Three cells: every alignment of the indices, calls that fit and calls that do
\* not.
SPECIFICATION Spec
CONSTANTS
    BUFFERSIZE = 3
    Byte = {"a", "b"}
    MaxWrite = 4
INVARIANTS
    PointersAgree
PROPERTIES
    QueueSpec
CHECK_DEADLOCK FALSE
