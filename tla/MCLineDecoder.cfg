\* Every way to cut a stream into reads of up to three bytes; a limit that a
\* line of one or two characters reaches.
CONSTANTS
    Inputs <- MCInputs
    max_line_bytes = 4
    READ_SIZE = 3
    NONE = NONE
SPECIFICATION Spec
INVARIANTS
    PendingBounded
    DecodesStream
CHECK_DEADLOCK FALSE
